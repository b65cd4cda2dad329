------------------------ MODULE AutoMachineProofs ------------------------
(***************************************************************************)
(* Proofs about AutoMachine, for every alphabet, every list of words and     *)
(* every text.  The first part shows with IInv that Prepare stays inside its *)
(* arrays; the second, from "Suffixes" on, adds in SInv what the table means *)
(* and shows what the searches report and count.                             *)
(***************************************************************************)
EXTENDS AutoMachine, FiniteSetTheorems, TLAPS

\* A set that holds 0 and every successor of its members holds every number: the
\* interval from 0 to a number outside would have a least one among those like it.
LEMMA SetInduction ==
  ASSUME NEW P, 0 \in P, \A n \in Nat : n \in P => n + 1 \in P
  PROVE  Nat \subseteq P
<1> SUFFICES ASSUME NEW m \in Nat \ P PROVE FALSE
  OBVIOUS
<1> DEFINE U == {0..x : x \in Nat \ P}
<1>1. \A x \in Nat \ P : 0..x \in FiniteSubsetsOf(Nat)
  <2> TAKE x \in Nat \ P
  <2>1. IsFiniteSet(0..x) /\ 0..x \in SUBSET Nat
    BY FS_Interval
  <2> QED BY <2>1 DEF FiniteSubsetsOf
<1>2. PICK I \in U : \A J \in U : <<J, I>> \notin StrictSubsetOrdering(Nat)
  <2>1. U \subseteq FiniteSubsetsOf(Nat) /\ U # {}
    BY <1>1
  <2> QED BY <2>1, FS_StrictSubsetOrderingWellFounded, WFMin
<1>3. PICK x \in Nat \ P : I = 0..x
  OBVIOUS
<1>4. x - 1 \in Nat \ P
  <2>1. x # 0 /\ x - 1 \in Nat /\ (x - 1) + 1 = x
    BY <1>3
  <2> QED BY <2>1
<1>5. 0..(x - 1) \subseteq 0..x /\ 0..(x - 1) # 0..x
  <2>1. x \in 0..x /\ x \notin 0..(x - 1)
    OBVIOUS
  <2> QED BY <2>1, <1>4
<1>6. <<0..(x - 1), 0..x>> \notin StrictSubsetOrdering(Nat)
  BY <1>2, <1>3, <1>4
<1> QED BY <1>5, <1>6 DEF StrictSubsetOrdering
-----------------------------------------------------------------------------
(* Prefixes.                                                                 *)
Strings == Seq(Chars)
Ext(p, c) == Append(p, c)
Pre(p, q) == Len(p) <= Len(q) /\ \A x \in 1..Len(p) : p[x] = q[x]

\* A string is its length and its characters.
LEMMA StringFacts ==
  /\ \A p \in Strings : Len(p) \in Nat /\ \A x \in 1..Len(p) : p[x] \in Chars
  /\ \A p, q \in Strings : Len(p) = Len(q) /\ (\A x \in 1..Len(p) : p[x] = q[x]) => p = q
  /\ \A p \in Strings, c \in Chars :
       /\ Ext(p, c) \in Strings /\ Len(Ext(p, c)) = Len(p) + 1
       /\ Ext(p, c)[Len(p) + 1] = c
       /\ \A x \in 1..Len(p) : Ext(p, c)[x] = p[x]
  /\ <<>> \in Strings /\ Len(<<>>) = 0
BY DEF Strings, Ext

LEMMA PreFacts ==
  /\ \A p \in Strings : Pre(p, p) /\ Pre(<<>>, p)
  /\ \A p, q, r \in Strings : Pre(p, q) /\ Pre(q, r) => Pre(p, r)
  /\ \A p, q, r \in Strings : Pre(p, r) /\ Pre(q, r) => Pre(p, q) \/ Pre(q, p)
  /\ \A p, q \in Strings : Pre(p, q) /\ Len(q) <= Len(p) => p = q
<1>1. \A p \in Strings : Pre(p, p) /\ Pre(<<>>, p)
  BY StringFacts DEF Pre
<1>2. ASSUME NEW p \in Strings, NEW q \in Strings, NEW r \in Strings, Pre(p, q), Pre(q, r) PROVE Pre(p, r)
  <2>1. Len(p) \in Nat /\ Len(q) \in Nat /\ Len(r) \in Nat
    BY StringFacts
  <2>2. Len(p) <= Len(r) /\ 1..Len(p) \subseteq 1..Len(q)
    BY <1>2, <2>1 DEF Pre
  <2> QED BY <1>2, <2>2 DEF Pre
<1>3. ASSUME NEW p \in Strings, NEW q \in Strings, NEW r \in Strings, Pre(p, r), Pre(q, r)
      PROVE  Pre(p, q) \/ Pre(q, p)
  <2>1. Len(p) \in Nat /\ Len(q) \in Nat
    BY StringFacts
  <2>2. CASE Len(p) <= Len(q)
    <3>1. 1..Len(p) \subseteq 1..Len(q)
      BY <2>1, <2>2
    <3> QED BY <1>3, <2>2, <3>1 DEF Pre
  <2>3. CASE Len(q) <= Len(p)
    <3>1. 1..Len(q) \subseteq 1..Len(p)
      BY <2>1, <2>3
    <3> QED BY <1>3, <2>3, <3>1 DEF Pre
  <2> QED BY <2>1, <2>2, <2>3
<1>4. ASSUME NEW p \in Strings, NEW q \in Strings, Pre(p, q), Len(q) <= Len(p) PROVE p = q
  <2>1. Len(p) = Len(q)
    BY <1>4, StringFacts DEF Pre
  <2> QED BY <1>4, <2>1, StringFacts DEF Pre
<1> QED BY <1>1, <1>2, <1>3, <1>4

\* The prefixes of p with c behind it are those of p, and itself.
LEMMA PreExt ==
  \A p, q \in Strings, c \in Chars :
    /\ Pre(q, Ext(p, c)) <=> Pre(q, p) \/ q = Ext(p, c)
    /\ Pre(Ext(p, c), q) => Pre(p, q)
<1> SUFFICES ASSUME NEW p \in Strings, NEW q \in Strings, NEW c \in Chars
             PROVE  /\ Pre(q, Ext(p, c)) <=> Pre(q, p) \/ q = Ext(p, c)
                    /\ Pre(Ext(p, c), q) => Pre(p, q)
  OBVIOUS
<1> DEFINE a == Ext(p, c)
<1>1. /\ a \in Strings /\ Len(a) = Len(p) + 1 /\ a[Len(p) + 1] = c
      /\ \A x \in 1..Len(p) : a[x] = p[x]
  BY StringFacts
<1> HIDE DEF a
<1>2. Len(p) \in Nat /\ Len(q) \in Nat
  BY StringFacts
<1>3. Pre(p, a)
  BY <1>1, <1>2 DEF Pre
<1>4. Pre(q, p) => Pre(q, a)
  BY <1>1, <1>3, PreFacts
<1>5. q = a => Pre(q, a)
  BY <1>1, PreFacts
<1>6. ASSUME Pre(q, a), q # a PROVE Pre(q, p)
  <2>1. Len(q) <= Len(p)
    <3>1. ~(Len(a) <= Len(q))
      BY <1>6, <1>1, PreFacts
    <3> QED BY <3>1, <1>1, <1>2
  <2>2. \A x \in 1..Len(q) : x \in 1..Len(p) /\ q[x] = a[x]
    BY <1>6, <1>2, <2>1 DEF Pre
  <2> QED BY <2>1, <2>2, <1>1 DEF Pre
<1>7. Pre(a, q) => Pre(p, q)
  BY <1>1, <1>3, PreFacts
<1> QED BY <1>4, <1>5, <1>6, <1>7 DEF a

\* What is behind a string tells its longer ones apart.
LEMMA ExtFacts ==
  \A p, q \in Strings, c, d \in Chars :
    /\ Ext(p, c) = Ext(q, d) => p = q /\ c = d
    /\ Ext(p, c) # <<>> /\ Ext(p, c) # p /\ ~Pre(Ext(p, c), p)
    /\ Pre(Ext(p, c), Ext(p, d)) => c = d
<1> SUFFICES ASSUME NEW p \in Strings, NEW q \in Strings, NEW c \in Chars, NEW d \in Chars
             PROVE  /\ Ext(p, c) = Ext(q, d) => p = q /\ c = d
                    /\ Ext(p, c) # <<>> /\ Ext(p, c) # p /\ ~Pre(Ext(p, c), p)
                    /\ Pre(Ext(p, c), Ext(p, d)) => c = d
  OBVIOUS
<1>1. Len(p) \in Nat /\ Len(q) \in Nat
  BY StringFacts
<1>0. /\ Len(Ext(p, c)) = Len(p) + 1 /\ Ext(p, c)[Len(p) + 1] = c
      /\ Len(Ext(q, d)) = Len(q) + 1 /\ Ext(q, d)[Len(q) + 1] = d
      /\ Len(Ext(p, d)) = Len(p) + 1 /\ Ext(p, d)[Len(p) + 1] = d
      /\ \A x \in 1..Len(p) : Ext(p, c)[x] = p[x]
      /\ \A x \in 1..Len(q) : Ext(q, d)[x] = q[x]
  BY StringFacts, Zenon
<1>2. ASSUME Ext(p, c) = Ext(q, d) PROVE p = q /\ c = d
  <2>1. Len(p) + 1 = Len(q) + 1
    BY <1>0, <1>2, Zenon
  <2>2. Len(p) = Len(q)
    BY <2>1, <1>1
  <2>3. c = d
    BY <1>0, <1>2, <2>2, Zenon
  <2>4. \A x \in 1..Len(p) : p[x] = q[x]
    BY <1>0, <1>2, <2>2, Zenon
  <2> QED BY <2>2, <2>3, <2>4, StringFacts, Zenon
<1>3. Ext(p, c) # <<>> /\ Ext(p, c) # p /\ ~Pre(Ext(p, c), p)
  <2>1. Len(Ext(p, c)) = Len(p) + 1 /\ Len(<<>>) = 0
    BY StringFacts
  <2>2. ~(Len(p) + 1 <= Len(p)) /\ Len(p) + 1 # 0 /\ Len(p) + 1 # Len(p)
    BY <1>1
  <2> QED BY <2>1, <2>2 DEF Pre
<1>4. ASSUME Pre(Ext(p, c), Ext(p, d)) PROVE c = d
  <2>1. Len(p) + 1 \in 1..(Len(p) + 1)
    BY <1>1
  <2>2. Len(p) + 1 \in 1..Len(Ext(p, c))
    BY <2>1, <1>0, Zenon
  <2>3. Ext(p, c)[Len(p) + 1] = Ext(p, d)[Len(p) + 1]
    BY <1>4, <2>2, Zenon DEF Pre
  <2> QED BY <2>3, <1>0, Zenon
<1> QED BY <1>2, <1>3, <1>4
-----------------------------------------------------------------------------
(* The words.                                                                *)
\* The list holds words that are not empty.
LEMMA WordFacts ==
  ASSUME wordlist \in Seq(Words)
  PROVE  /\ wordsnum \in Nat
         /\ \A i \in 1..wordsnum :
              /\ wordlist[i] \in Words /\ wordlist[i] \in Strings
              /\ Len(wordlist[i]) \in Nat /\ Len(wordlist[i]) >= 1
<1>1. wordsnum \in Nat /\ \A i \in 1..wordsnum : wordlist[i] \in Words
  BY DEF wordsnum
<1>2. ASSUME NEW i \in 1..wordsnum
      PROVE  /\ wordlist[i] \in Strings /\ Len(wordlist[i]) \in Nat /\ Len(wordlist[i]) >= 1
  <2>1. wordlist[i] \in Strings /\ wordlist[i] # <<>>
    BY <1>1, MachineAssumption DEF MachineAssumption, Strings
  <2>2. PICK w \in Seq(Chars) : w = wordlist[i]
    BY <2>1 DEF Strings
  <2>3. Len(w) \in Nat /\ (Len(w) = 0 => w = <<>>)
    OBVIOUS
  <2> QED BY <2>1, <2>2, <2>3
<1> QED BY <1>1, <1>2

\* The sums of the lengths are a function, as lengths has it.
LEMMA LengthsExist ==
  ASSUME NEW n \in Nat
  PROVE  \E t : t = [k \in 0..n |-> IF k = 0 THEN 0 ELSE t[k - 1] + Len(wordlist[k])]
<1> DEFINE P == {m \in Nat :
                   \E t : t = [k \in 0..m |-> IF k = 0 THEN 0 ELSE t[k - 1] + Len(wordlist[k])]}
<1>1. 0 \in P
  <2> DEFINE t == [k \in 0..0 |-> 0]
  <2>1. t = [k \in 0..0 |-> IF k = 0 THEN 0 ELSE t[k - 1] + Len(wordlist[k])]
    OBVIOUS
  <2> QED BY <2>1
<1>2. ASSUME NEW m \in Nat, m \in P PROVE m + 1 \in P
  <2>1. PICK t : t = [k \in 0..m |-> IF k = 0 THEN 0 ELSE t[k - 1] + Len(wordlist[k])]
    BY <1>2
  <2> DEFINE u == [k \in 0..(m + 1) |-> IF k = m + 1 THEN t[m] + Len(wordlist[k]) ELSE t[k]]
  <2>2. ASSUME NEW k \in 0..(m + 1) PROVE u[k] = IF k = 0 THEN 0 ELSE u[k - 1] + Len(wordlist[k])
    <3>1. CASE k = m + 1
      <4>1. k # 0 /\ k - 1 = m /\ m \in 0..(m + 1) /\ m # m + 1
        BY <3>1
      <4> QED BY <4>1, <3>1
    <3>2. CASE k # m + 1
      <4>1. k \in 0..m /\ u[k] = t[k]
        BY <3>2
      <4>2. t[k] = IF k = 0 THEN 0 ELSE t[k - 1] + Len(wordlist[k])
        BY <4>1, <2>1
      <4>3. CASE k = 0
        BY <4>1, <4>2, <4>3
      <4>4. CASE k # 0
        <5>1. k - 1 \in 0..(m + 1) /\ k - 1 # m + 1
          BY <4>1, <4>4
        <5> QED BY <5>1, <4>1, <4>2, <4>4
      <4> QED BY <4>3, <4>4
    <3> QED BY <3>1, <3>2
  <2>3. u = [k \in 0..(m + 1) |-> u[k]]
    OBVIOUS
  <2> HIDE DEF u
  <2>4. u = [k \in 0..(m + 1) |-> IF k = 0 THEN 0 ELSE u[k - 1] + Len(wordlist[k])]
    BY <2>2, <2>3
  <2> QED BY <2>4
<1> HIDE DEF P
<1>3. n \in P
  BY <1>1, <1>2, SetInduction
<1> QED BY <1>3 DEF P

\* Each word adds its length, which is at least one.
LEMMA LengthsFacts ==
  ASSUME wordlist \in Seq(Words)
  PROVE  /\ lengths[0] = 0
         /\ \A k \in 1..wordsnum : lengths[k] = lengths[k - 1] + Len(wordlist[k])
         /\ \A k \in 0..wordsnum : lengths[k] \in Nat /\ wordslength - lengths[k] >= wordsnum - k
         /\ wordslength \in Nat
<1>0. wordsnum \in Nat
  BY WordFacts
<1>1. lengths = [k \in 0..wordsnum |-> IF k = 0 THEN 0 ELSE lengths[k - 1] + Len(wordlist[k])]
  <2>1. \E t : t = [k \in 0..wordsnum |-> IF k = 0 THEN 0 ELSE t[k - 1] + Len(wordlist[k])]
    BY <1>0, LengthsExist
  <2> QED BY <2>1 DEF lengths
<1>2. lengths[0] = 0
  BY <1>0, <1>1
<1>3. \A k \in 1..wordsnum : lengths[k] = lengths[k - 1] + Len(wordlist[k])
  BY <1>0, <1>1
<1>4. \A k \in 0..wordsnum : lengths[k] \in Nat
  <2> DEFINE P == {m \in Nat : m <= wordsnum => lengths[m] \in Nat}
  <2>1. 0 \in P
    BY <1>2
  <2>2. ASSUME NEW m \in Nat, m \in P PROVE m + 1 \in P
    <3> SUFFICES ASSUME m + 1 <= wordsnum PROVE lengths[m + 1] \in Nat
      OBVIOUS
    <3>1. m + 1 \in 1..wordsnum /\ (m + 1) - 1 = m /\ lengths[m] \in Nat
      BY <1>0, <2>2
    <3>2. lengths[m + 1] = lengths[m] + Len(wordlist[m + 1])
      BY <1>3, <3>1
    <3>3. Len(wordlist[m + 1]) \in Nat
      BY <3>1, WordFacts
    <3> QED BY <3>1, <3>2, <3>3
  <2> HIDE DEF P
  <2>3. Nat \subseteq P
    BY <2>1, <2>2, SetInduction
  <2> QED BY <1>0, <2>3 DEF P
<1>5. \A k \in 0..wordsnum : wordslength - lengths[k] >= wordsnum - k
  <2> DEFINE P == {m \in Nat : m <= wordsnum => wordslength - lengths[wordsnum - m] >= m}
  <2>1. 0 \in P
    BY <1>0, <1>4 DEF wordslength
  <2>2. ASSUME NEW m \in Nat, m \in P PROVE m + 1 \in P
    <3> SUFFICES ASSUME m + 1 <= wordsnum PROVE wordslength - lengths[wordsnum - (m + 1)] >= m + 1
      OBVIOUS
    <3>1. PICK j \in 1..wordsnum : j = wordsnum - m
      BY <1>0
    <3>2. wordsnum - (m + 1) = j - 1 /\ j - 1 \in 0..wordsnum /\ j \in 0..wordsnum /\ wordsnum \in 0..wordsnum
      BY <1>0, <3>1
    <3>3. lengths[j] = lengths[j - 1] + Len(wordlist[j])
      BY <1>3
    <3>4. Len(wordlist[j]) \in Nat /\ Len(wordlist[j]) >= 1
      BY WordFacts
    <3>5. wordslength - lengths[j] >= m
      <4>1. m <= wordsnum
        BY <1>0
      <4> QED BY <4>1, <2>2, <3>1
    <3>6. wordslength \in Nat /\ lengths[j] \in Nat /\ lengths[j - 1] \in Nat
      BY <1>4, <3>2 DEF wordslength
    <3>7. wordslength - lengths[j - 1] >= m + 1
      <4>1. PICK x, y, z, l \in Nat :
              x = wordslength /\ y = lengths[j] /\ z = lengths[j - 1] /\ l = Len(wordlist[j])
        BY <3>4, <3>6
      <4>2. x - y >= m /\ y = z + l /\ l >= 1
        BY <4>1, <3>3, <3>4, <3>5
      <4>3. x - z >= m + 1
        BY <4>2
      <4> QED BY <4>1, <4>3
    <3> QED BY <3>2, <3>7
  <2> HIDE DEF P
  <2>3. Nat \subseteq P
    BY <2>1, <2>2, SetInduction
  <2>4. ASSUME NEW k \in 0..wordsnum PROVE wordslength - lengths[k] >= wordsnum - k
    <3>1. wordsnum - k \in P /\ wordsnum - (wordsnum - k) = k /\ wordsnum - k <= wordsnum
      BY <1>0, <2>3
    <3> QED BY <3>1 DEF P
  <2> QED BY <2>4
<1> QED BY <1>0, <1>2, <1>3, <1>4, <1>5 DEF wordslength

\* Folded keeps a character in the alphabet, and Same its string as long.
LEMMA FoldedFacts ==
  /\ \A c \in Chars : Folded(c) \in Chars
  /\ \A s \in Strings : /\ Same(s) \in Strings /\ Len(Same(s)) = Len(s)
                        /\ \A x \in 1..Len(s) : Same(s)[x] = Folded(s[x])
<1>1. \A c \in Chars : Folded(c) \in Chars
  BY MachineAssumption DEF MachineAssumption, Folded
<1>2. ASSUME NEW s \in Strings
      PROVE  /\ Same(s) \in Strings /\ Len(Same(s)) = Len(s)
             /\ \A x \in 1..Len(s) : Same(s)[x] = Folded(s[x])
  <2>1. s \in Seq(Chars) /\ DOMAIN s = 1..Len(s) /\ Len(s) \in Nat
    BY DEF Strings
  <2>2. Same(s) \in [1..Len(s) -> Chars] /\ \A x \in 1..Len(s) : Same(s)[x] = Folded(s[x])
    BY <1>1, <2>1 DEF Same
  <2> QED BY <2>1, <2>2 DEF Strings
<1> QED BY <1>1, <1>2
-----------------------------------------------------------------------------
(* The tree of the words.  node gives each prefix of a word its state, label  *)
(* each state the characters that lead to it, also to a state that a word    *)
(* has taken the place of.                                                   *)
Word(i) == Same(wordlist[i])
Known(m) == {p \in Strings : p = <<>> \/ \E i \in 1..m : Pre(p, Word(i))}

Closed(P) ==
  /\ P \subseteq Strings /\ <<>> \in P
  /\ \A p \in Strings, c \in Chars : Ext(p, c) \in P => p \in P

AllRows == 0..(Rows - 1)
Table(t) == t \in [AllRows -> [Columns -> Nat]]

Nodes(used, P, node, label) ==
  /\ node \in [P -> 0..(used - 1)] /\ node[<<>>] = 0
  /\ label \in [AllRows -> Strings]
  /\ \A p \in P : label[node[p]] = p

Edges(t, P, node, p) ==
  \A c \in Chars : t[node[p]][c] = IF Ext(p, c) \in P THEN node[Ext(p, c)] ELSE 0

\* The states of words that are not inserted yet, after m words.
Later(m) == (m + 1)..wordsnum

\* A word that is inserted has a state of its own, with its number or that of a later
\* word that is the same, and no other prefix has a number.
Owned(m, P, node) ==
  /\ \A i \in 1..m : Word(i) \in P /\ node[Word(i)] \in i..wordsnum
  /\ \A p \in P : node[p] \in 1..wordsnum => Word(node[p]) = p

\* The KN column of a prefix holds its own number, if it has one.
Own(node, p) == IF node[p] \in 1..wordsnum THEN node[p] ELSE 0
Plain(t, P, node) == \A p \in P : t[node[p]][KN] = Own(node, p)

Shape(t, used, m, P, node, label) ==
  /\ Owned(m, P, node) /\ Plain(t, P, node)
  /\ Closed(P) /\ Table(t) /\ Nodes(used, P, node, label)
  /\ used \in Nat /\ wordsnum < used /\ used <= Rows
  /\ \A p \in P : Edges(t, P, node, p)
  /\ \A p \in P : node[p] \notin Later(m)
  /\ \A s \in AllRows, c \in Columns : t[s][c] < used /\ t[s][c] \notin Later(m)
  /\ \A s \in AllRows : s >= used \/ s \in Later(m) => \A c \in Columns : t[s][c] = 0
  /\ \A s \in AllRows : t[s][KN] \in {0, s} /\ t[s][KN] <= wordsnum
  /\ \A s \in AllRows, c \in Chars : t[s][c] # 0 => label[t[s][c]] = Ext(label[s], c)

\* Different prefixes have different states, and only the empty one has state 0.
LEMMA NodesDiffer ==
  ASSUME NEW used, NEW P, NEW node, NEW label, Nodes(used, P, node, label), <<>> \in P
  PROVE  /\ \A p, q \in P : node[p] = node[q] => p = q
         /\ \A p \in P : node[p] = 0 => p = <<>>
BY Zenon DEF Nodes

\* Shape, one fact at a time.
LEMMA ShapeFacts ==
  ASSUME wordlist \in Seq(Words), NEW t, NEW used, NEW m \in Nat, NEW P, NEW node, NEW label,
         Shape(t, used, m, P, node, label)
  PROVE  /\ wordsnum \in Nat /\ used \in Nat /\ wordsnum < used /\ used <= Rows /\ Rows \in Nat
         /\ \A p \in P : node[p] \in Nat /\ node[p] < used /\ node[p] \in AllRows
         /\ \A s \in AllRows, c \in Columns : t[s][c] \in Nat /\ t[s][c] < used /\ t[s][c] \in AllRows
         /\ Chars \subseteq Columns /\ KN \in Columns /\ KN \notin Chars
         /\ 0 \in AllRows
<1>1. wordsnum \in Nat /\ used \in Nat /\ wordsnum < used /\ used <= Rows
  BY WordFacts DEF Shape
<1>2. Rows \in Nat
  BY LengthsFacts DEF Rows
<1>3. ASSUME NEW p \in P PROVE node[p] \in Nat /\ node[p] < used /\ node[p] \in AllRows
  <2>1. node[p] \in 0..(used - 1)
    BY DEF Shape, Nodes
  <2> QED BY <2>1, <1>1, <1>2 DEF AllRows
<1>4. ASSUME NEW s \in AllRows, NEW c \in Columns
      PROVE  t[s][c] \in Nat /\ t[s][c] < used /\ t[s][c] \in AllRows
  <2>1. t[s][c] \in Nat /\ t[s][c] < used
    BY DEF Shape, Table
  <2> QED BY <2>1, <1>1, <1>2 DEF AllRows
<1>5. Chars \subseteq Columns /\ KN \in Columns /\ KN \notin Chars
  BY MachineAssumption DEF MachineAssumption, Columns
<1>6. 0 \in AllRows
  BY <1>1, <1>2 DEF AllRows
<1> QED BY <1>1, <1>2, <1>3, <1>4, <1>5, <1>6

\* A new state k for a prefix that has none: it is the one place that leads to k, and
\* nothing follows k.
Grown(t, k, m, P, node, p, c) ==
  /\ Ext(p, c) \notin P
  /\ \A s \in AllRows, d \in Columns : t[s][d] = k <=> s = node[p] /\ d = c
  /\ \A d \in Columns : t[k][d] = 0
  /\ \E node2, label2 :
       /\ Shape(t, k + 1, m, P \cup {Ext(p, c)}, node2, label2)
       /\ node2[Ext(p, c)] = k /\ \A q \in P : node2[q] = node[q]

LEMMA Grow ==
  ASSUME wordlist \in Seq(Words), NEW t, NEW k, NEW m \in Nat, NEW P, NEW node, NEW label,
         Shape(t, k, m, P, node, label), k + 1 <= Rows,
         NEW p \in P, NEW c \in Chars, t[node[p]][c] = 0,
         NEW t2, t2 = [t EXCEPT ![node[p]][c] = k]
  PROVE  Grown(t2, k, m, P, node, p, c)
<1> DEFINE e == Ext(p, c)
           n0 == node[p]
           Q == P \cup {e}
           node2 == [q \in Q |-> IF q = e THEN k ELSE node[q]]
           label2 == [label EXCEPT ![k] = e]
<1>f. /\ wordsnum \in Nat /\ k \in Nat /\ wordsnum < k /\ k <= Rows /\ Rows \in Nat
      /\ \A q \in P : node[q] \in Nat /\ node[q] < k /\ node[q] \in AllRows
      /\ \A s \in AllRows, d \in Columns : t[s][d] \in Nat /\ t[s][d] < k /\ t[s][d] \in AllRows
      /\ Chars \subseteq Columns /\ KN \in Columns /\ KN \notin Chars /\ 0 \in AllRows
  BY ShapeFacts
<1>s. /\ Closed(P) /\ Table(t) /\ Nodes(k, P, node, label)
      /\ \A q \in P : Edges(t, P, node, q)
      /\ \A q \in P : node[q] \notin Later(m)
      /\ \A s \in AllRows, d \in Columns : t[s][d] < k /\ t[s][d] \notin Later(m)
      /\ \A s \in AllRows : s >= k \/ s \in Later(m) => \A d \in Columns : t[s][d] = 0
      /\ \A s \in AllRows : t[s][KN] \in {0, s} /\ t[s][KN] <= wordsnum
      /\ \A s \in AllRows, d \in Chars : t[s][d] # 0 => label[t[s][d]] = Ext(label[s], d)
  BY DEF Shape
<1>d. /\ \A q, r \in P : node[q] = node[r] => q = r
      /\ \A q \in P : node[q] = 0 => q = <<>>
  BY <1>s, NodesDiffer DEF Closed
<1>p. P \subseteq Strings /\ <<>> \in P /\ p \in Strings /\ e \in Strings
  BY <1>s, StringFacts DEF Closed
<1>k. k \in AllRows /\ n0 \in AllRows /\ n0 # k /\ k # 0 /\ k \notin Later(m) /\ k >= k
  BY <1>f DEF AllRows, Later
<1>1. e \notin P
  <2> SUFFICES ASSUME e \in P PROVE FALSE
    OBVIOUS
  <2>1. node[e] = 0
    BY <1>s DEF Edges
  <2> QED BY <2>1, <1>d, <1>p, ExtFacts
<1>2. \A s \in AllRows, d \in Columns : t2[s][d] = IF s = n0 /\ d = c THEN k ELSE t[s][d]
  BY <1>s, <1>f, <1>k DEF Table
<1>3. Table(t2)
  BY <1>s, <1>f, <1>k DEF Table
<1>4. \A s \in AllRows, d \in Columns : t2[s][d] = k <=> s = n0 /\ d = c
  <2>1. \A s \in AllRows, d \in Columns : t[s][d] # k
    BY <1>f
  <2> QED BY <2>1, <1>2
<1>5. \A d \in Columns : t2[k][d] = 0
  BY <1>2, <1>k, <1>s
<1>6. Closed(Q)
  <2>1. ASSUME NEW q \in Strings, NEW d \in Chars, Ext(q, d) \in Q PROVE q \in Q
    <3>1. CASE Ext(q, d) \in P
      BY <3>1, <1>s DEF Closed
    <3>2. CASE Ext(q, d) = e
      BY <3>2, <1>p, ExtFacts
    <3> QED BY <2>1, <3>1, <3>2
  <2> QED BY <2>1, <1>p DEF Closed
<1>7. node2[e] = k /\ \A q \in P : node2[q] = node[q]
  BY <1>1
<1>8. Nodes(k + 1, Q, node2, label2)
  <2>1. node2 \in [Q -> 0..((k + 1) - 1)]
    <3>1. \A q \in Q : node2[q] \in 0..((k + 1) - 1)
      BY <1>7, <1>f
    <3> QED BY <3>1
  <2>2. node2[<<>>] = 0
    BY <1>7, <1>p, <1>s DEF Nodes
  <2>3. label2 \in [AllRows -> Strings]
    BY <1>p, <1>k, <1>s DEF Nodes
  <2>4. ASSUME NEW q \in Q PROVE label2[node2[q]] = q
    <3>1. CASE q = e
      BY <3>1, <1>7, <1>k, <1>s DEF Nodes
    <3>2. CASE q \in P
      <4>1. node[q] # k /\ node[q] \in AllRows
        BY <3>2, <1>f
      <4>2. label2[node[q]] = label[node[q]]
        BY <4>1, <1>s DEF Nodes
      <4> QED BY <4>2, <3>2, <1>7, <1>s DEF Nodes
    <3> QED BY <3>1, <3>2
  <2> QED BY <2>1, <2>2, <2>3, <2>4 DEF Nodes
<1> HIDE DEF node2
<1>9. ASSUME NEW q \in Q PROVE Edges(t2, Q, node2, q)
  <2> SUFFICES ASSUME NEW d \in Chars
               PROVE  t2[node2[q]][d] = IF Ext(q, d) \in Q THEN node2[Ext(q, d)] ELSE 0
    BY DEF Edges
  <2>0. d \in Columns
    BY <1>f
  <2>1. CASE q = e
    <3>1. Ext(e, d) \notin P
      BY <1>1, <1>s, <1>p DEF Closed
    <3>2. Ext(e, d) # e
      BY <1>p, ExtFacts
    <3> QED BY <2>0, <2>1, <3>1, <3>2, <1>5, <1>7
  <2>2. CASE q \in P /\ q # p
    <3>1. Ext(q, d) # e
      BY <2>2, <1>p, ExtFacts
    <3>2. node[q] # n0 /\ node[q] \in AllRows
      BY <2>2, <1>d, <1>f
    <3>3. t2[node2[q]][d] = t[node[q]][d]
      BY <3>2, <2>0, <2>2, <1>2, <1>7
    <3>4. t[node[q]][d] = IF Ext(q, d) \in P THEN node[Ext(q, d)] ELSE 0
      BY <2>2, <1>s DEF Edges
    <3> QED BY <3>1, <3>3, <3>4, <1>7
  <2>3. CASE q = p /\ d = c
    BY <2>3, <2>0, <1>2, <1>7, <1>k
  <2>4. CASE q = p /\ d # c
    <3>1. Ext(p, d) # e
      BY <2>4, <1>p, ExtFacts
    <3>2. t2[node2[q]][d] = t[n0][d]
      BY <2>4, <2>0, <1>2, <1>7, <1>k
    <3>3. t[n0][d] = IF Ext(p, d) \in P THEN node[Ext(p, d)] ELSE 0
      BY <1>s DEF Edges
    <3> QED BY <3>1, <3>2, <3>3, <2>4, <1>7
  <2> QED BY <2>1, <2>2, <2>3, <2>4
<1>10. \A q \in Q : node2[q] \notin Later(m)
  BY <1>7, <1>k, <1>s
<1>11. \A s \in AllRows, d \in Columns : t2[s][d] < k + 1 /\ t2[s][d] \notin Later(m)
  <2> SUFFICES ASSUME NEW s \in AllRows, NEW d \in Columns PROVE t2[s][d] < k + 1 /\ t2[s][d] \notin Later(m)
    OBVIOUS
  <2>1. CASE s = n0 /\ d = c
    BY <2>1, <1>2, <1>k, <1>f
  <2>2. CASE ~(s = n0 /\ d = c)
    BY <2>2, <1>2, <1>s, <1>f
  <2> QED BY <2>1, <2>2
<1>12. ASSUME NEW s \in AllRows, s >= k + 1 \/ s \in Later(m), NEW d \in Columns PROVE t2[s][d] = 0
  <2>1. s # n0 /\ (s >= k \/ s \in Later(m))
    <3>1. s \in Nat /\ n0 \notin Later(m) /\ n0 < k /\ n0 \in Nat /\ k \in Nat
      BY <1>s, <1>f DEF AllRows
    <3> QED BY <3>1, <1>12
  <2> QED BY <2>1, <1>2, <1>s
<1>13. \A s \in AllRows : t2[s][KN] \in {0, s} /\ t2[s][KN] <= wordsnum
  BY <1>2, <1>s, <1>f
<1>14. ASSUME NEW s \in AllRows, NEW d \in Chars, t2[s][d] # 0
       PROVE  label2[t2[s][d]] = Ext(label2[s], d)
  <2>0. d \in Columns
    BY <1>f
  <2>1. CASE s = n0 /\ d = c
    <3>1. t2[s][d] = k /\ label2[k] = e /\ label2[n0] = label[n0] /\ label[n0] = p
      BY <2>0, <2>1, <1>2, <1>k, <1>s DEF Nodes
    <3> QED BY <3>1, <2>1
  <2>2. CASE ~(s = n0 /\ d = c)
    <3>1. t2[s][d] = t[s][d] /\ t[s][d] # k /\ t[s][d] \in AllRows
      BY <2>0, <2>2, <1>2, <1>f
    <3>2. s # k
      BY <3>1, <2>0, <1>14, <1>5
    <3>3. label2[t[s][d]] = label[t[s][d]] /\ label2[s] = label[s]
      BY <3>1, <3>2, <1>s DEF Nodes
    <3> QED BY <3>1, <3>3, <1>14, <1>s
  <2> QED BY <2>1, <2>2
<1>15. k + 1 \in Nat /\ wordsnum < k + 1
  BY <1>f
<1> HIDE DEF label2
<1>17. Owned(m, Q, node2)
  <2>1. Owned(m, P, node) /\ k \notin 1..wordsnum
    BY <1>f DEF Shape
  <2> QED BY <2>1, <1>7 DEF Owned
<1>18. Plain(t2, Q, node2)
  <2> SUFFICES ASSUME NEW q \in Q PROVE t2[node2[q]][KN] = Own(node2, q)
    BY DEF Plain
  <2>1. CASE q = e
    BY <2>1, <1>5, <1>7, <1>f DEF Own
  <2>2. CASE q \in P
    <3>1. t[node[q]][KN] = Own(node, q)
      BY <2>2 DEF Shape, Plain
    <3>2. t2[node[q]][KN] = t[node[q]][KN]
      BY <2>2, <1>2, <1>f
    <3> QED BY <2>2, <3>1, <3>2, <1>7 DEF Own
  <2> QED BY <2>1, <2>2
<1>16. Shape(t2, k + 1, m, Q, node2, label2)
  BY <1>17, <1>18, <1>3, <1>6, <1>8, <1>9, <1>10, <1>11, <1>12, <1>13, <1>14, <1>15 DEF Shape
<1> QED BY <1>1, <1>4, <1>5, <1>7, <1>16 DEF Grown
-----------------------------------------------------------------------------
(* A word is walked.                                                         *)
First(p, j) == [x \in 1..j |-> p[x]]

LEMMA FirstFacts ==
  ASSUME NEW p \in Strings
  PROVE  /\ First(p, 0) = <<>> /\ First(p, Len(p)) = p
         /\ \A j \in 0..Len(p) : First(p, j) \in Strings /\ Len(First(p, j)) = j /\ Pre(First(p, j), p)
         /\ \A j \in 0..Len(p) : j < Len(p) => p[j + 1] \in Chars /\ Ext(First(p, j), p[j + 1]) = First(p, j + 1)
         /\ \A q \in Strings : Pre(q, p) => Len(q) \in 0..Len(p) /\ q = First(p, Len(q))
<1>0. p \in Seq(Chars) /\ Len(p) \in Nat
  BY StringFacts DEF Strings
<1>1. First(p, 0) = <<>> /\ First(p, Len(p)) = p
  BY <1>0 DEF First
<1>2. ASSUME NEW j \in 0..Len(p)
      PROVE  First(p, j) \in Strings /\ Len(First(p, j)) = j /\ Pre(First(p, j), p)
  <2>1. First(p, j) \in [1..j -> Chars] /\ j \in Nat
    BY <1>0 DEF First
  <2>2. First(p, j) \in Strings /\ Len(First(p, j)) = j
    BY <2>1 DEF Strings
  <2>3. \A x \in 1..j : First(p, j)[x] = p[x]
    BY DEF First
  <2> QED BY <2>2, <2>3 DEF Pre
<1>3. ASSUME NEW j \in 0..Len(p), j < Len(p)
      PROVE  p[j + 1] \in Chars /\ Ext(First(p, j), p[j + 1]) = First(p, j + 1)
  <2>1. j + 1 \in 1..Len(p) /\ j + 1 \in 0..Len(p) /\ j \in Nat
    BY <1>0, <1>3
  <2>2. p[j + 1] \in Chars
    BY <2>1, StringFacts
  <2>3. PICK e \in Strings : e = Ext(First(p, j), p[j + 1])
    BY <1>2, <2>2, StringFacts
  <2>4. Len(e) = j + 1 /\ e[j + 1] = p[j + 1] /\ \A x \in 1..j : e[x] = First(p, j)[x]
    <3>1. First(p, j) \in Strings /\ Len(First(p, j)) = j
      BY <1>2
    <3>2. PICK r \in Strings, d \in Chars : r = First(p, j) /\ d = p[j + 1]
      BY <3>1, <2>2
    <3>3. Len(r) = j /\ e = Ext(r, d)
      BY <3>1, <3>2, <2>3
    <3>4. Len(e) = Len(r) + 1 /\ e[Len(r) + 1] = d /\ \A x \in 1..Len(r) : e[x] = r[x]
      <4>1. /\ Len(Ext(r, d)) = Len(r) + 1 /\ Ext(r, d)[Len(r) + 1] = d
            /\ \A x \in 1..Len(r) : Ext(r, d)[x] = r[x]
        BY StringFacts, ZenonT(30)
      <4> QED BY <4>1, <3>3
    <3> QED BY <3>2, <3>3, <3>4
  <2>5. First(p, j + 1) \in Strings /\ Len(First(p, j + 1)) = j + 1
    BY <1>2, <2>1
  <2>6. \A x \in 1..j : e[x] = p[x]
    BY <2>4 DEF First
  <2>7. \A x \in 1..(j + 1) : e[x] = First(p, j + 1)[x]
    <3>1. \A x \in 1..(j + 1) : x = j + 1 \/ x \in 1..j
      BY <2>1
    <3>2. \A x \in 1..(j + 1) : First(p, j + 1)[x] = p[x]
      BY DEF First
    <3> QED BY <3>1, <3>2, <2>4, <2>6, Zenon
  <2>8. PICK r \in Strings : r = First(p, j + 1)
    BY <2>5
  <2>9. e = r
    <3>1. Len(e) = Len(r) /\ \A x \in 1..Len(e) : e[x] = r[x]
      BY <2>4, <2>5, <2>7, <2>8
    <3> QED BY <3>1, StringFacts, Zenon
  <2> QED BY <2>2, <2>3, <2>8, <2>9
<1>4. ASSUME NEW q \in Strings, Pre(q, p)
      PROVE  Len(q) \in 0..Len(p) /\ q = First(p, Len(q))
  <2>1. Len(q) \in 0..Len(p)
    BY <1>0, <1>4, StringFacts DEF Pre
  <2>2. \A x \in 1..Len(q) : q[x] = First(p, Len(q))[x]
    BY <1>4 DEF Pre, First
  <2> QED BY <2>1, <2>2, <1>2, StringFacts
<1> QED BY <1>1, <1>2, <1>3, <1>4

\* What a walk knows after j characters of the folded word f.
Walking(f, m, j) == Known(m) \cup {First(f, i) : i \in 0..j}

\* The last state of a walk that made any is the newest: only the last step leads to
\* it, and nothing follows it.
Fresh(a) ==
  /\ a.k = a.n + 1
  /\ \A d \in Columns : a.states[a.n][d] = 0
  /\ \A s \in AllRows, d \in Columns : a.states[s][d] = a.n <=> s = a.l /\ d = a.c

Walker == [states : [AllRows -> [Columns -> Nat]], l : Nat, c : Columns, n : Nat, k : Nat,
           is_prefix : BOOLEAN]

WalkAt(a, f, m, j, node, label) ==
  /\ a \in Walker
  /\ usedstates <= a.k /\ a.k <= usedstates + j
  /\ Shape(a.states, a.k, m, Walking(f, m, j), node, label)
  /\ a.n = node[First(f, j)]
  /\ j > 0 => a.c = f[j] /\ a.l = node[First(f, j - 1)]
  /\ a.is_prefix => a.k = usedstates
  /\ ~a.is_prefix => j > 0 /\ Fresh(a)

LEMMA WalkingStep ==
  ASSUME NEW f \in Strings, NEW m, NEW j \in 0..Len(f), j < Len(f)
  PROVE  /\ Walking(f, m, j + 1) = Walking(f, m, j) \cup {Ext(First(f, j), f[j + 1])}
         /\ First(f, j) \in Walking(f, m, j)
<1>1. Ext(First(f, j), f[j + 1]) = First(f, j + 1) /\ j \in Nat
  BY FirstFacts, StringFacts
<1>2. 0..(j + 1) = (0..j) \cup {j + 1} /\ j \in 0..j
  BY <1>1
<1> QED BY <1>1, <1>2 DEF Walking

\* One character more.
LEMMA WalkedStep ==
  ASSUME wordlist \in Seq(Words), usedstates \in Nat, NEW m \in Nat, NEW f \in Strings,
         NEW j \in 0..Len(f), j < Len(f), NEW a, NEW node, NEW label, WalkAt(a, f, m, j, node, label),
         NEW ch, Folded(ch) = f[j + 1], usedstates + j + 1 <= Rows
  PROVE  \E node2, label2 : WalkAt(Walked(a, ch), f, m, j + 1, node2, label2)
<1> DEFINE c == f[j + 1]
           P == Walking(f, m, j)
           p == First(f, j)
           b == Walked(a, ch)
<1>0. j \in Nat /\ j + 1 > 0 /\ (j + 1) - 1 = j
  BY StringFacts
<1>w. /\ a \in Walker /\ usedstates <= a.k /\ a.k <= usedstates + j
      /\ Shape(a.states, a.k, m, P, node, label) /\ a.n = node[p]
      /\ (a.is_prefix => a.k = usedstates) /\ (~a.is_prefix => j > 0 /\ Fresh(a))
  BY DEF WalkAt
<1>f. /\ a.k \in Nat /\ Rows \in Nat /\ a.k <= Rows
      /\ \A q \in P : node[q] \in Nat /\ node[q] < a.k /\ node[q] \in AllRows
      /\ \A s \in AllRows, d \in Columns :
           a.states[s][d] \in Nat /\ a.states[s][d] < a.k /\ a.states[s][d] \in AllRows
      /\ Chars \subseteq Columns
  BY <1>w, ShapeFacts
<1>1. /\ p \in P /\ Walking(f, m, j + 1) = P \cup {Ext(p, c)} /\ Ext(p, c) = First(f, j + 1)
      /\ c \in Chars /\ c \in Columns
  BY <1>f, WalkingStep, FirstFacts
<1>2. p \in Strings
  BY FirstFacts
<1> HIDE DEF c, P, p
<1>3. CASE a.states[a.n][c] = 0
  <2> DEFINE t2 == [a.states EXCEPT ![a.n][c] = a.k]
  <2>1. b = [states |-> t2, l |-> a.n, c |-> c, n |-> a.k, k |-> a.k + 1, is_prefix |-> FALSE]
    BY <1>3 DEF Walked, c
  <2>2. t2 = [a.states EXCEPT ![node[p]][c] = a.k] /\ a.k + 1 <= Rows
    BY <1>w, <1>f, <1>0
  <2> HIDE DEF t2, b
  <2>3. /\ \A s \in AllRows, d \in Columns : t2[s][d] = a.k <=> s = node[p] /\ d = c
        /\ \A d \in Columns : t2[a.k][d] = 0
        /\ \E node2, label2 :
             /\ Shape(t2, a.k + 1, m, P \cup {Ext(p, c)}, node2, label2)
             /\ node2[Ext(p, c)] = a.k /\ \A q \in P : node2[q] = node[q]
    <3>1. a.states[node[p]][c] = 0
      BY <1>3, <1>w
    <3>2. PICK t, k : t = a.states /\ k = a.k
      OBVIOUS
    <3>3. Shape(t, k, m, P, node, label) /\ k + 1 <= Rows /\ t[node[p]][c] = 0 /\ p \in P /\ c \in Chars
      BY <3>1, <3>2, <2>2, <1>w, <1>1
    <3>4. t2 = [t EXCEPT ![node[p]][c] = k]
      BY <3>2, <2>2
    <3>5. Grown(t2, k, m, P, node, p, c)
      BY <3>3, <3>4, Grow, Zenon
    <3> QED BY <3>2, <3>5 DEF Grown
  <2>4. PICK node2, label2 :
             /\ Shape(t2, a.k + 1, m, P \cup {Ext(p, c)}, node2, label2)
             /\ node2[Ext(p, c)] = a.k /\ \A q \in P : node2[q] = node[q]
    BY <2>3
  <2>5. /\ b.states = t2 /\ b.l = a.n /\ b.c = c /\ b.n = a.k /\ b.k = a.k + 1 /\ b.is_prefix = FALSE
    BY <2>1
  <2>6. b \in Walker
    <3>1. t2 \in [AllRows -> [Columns -> Nat]]
      BY <2>4 DEF Shape, Table
    <3>2. a.n \in Nat /\ a.k + 1 \in Nat
      BY <1>w, <1>f, <1>1
    <3> QED BY <2>1, <3>1, <3>2, <1>f, <1>1 DEF Walker
  <2>7. usedstates <= b.k /\ b.k <= usedstates + (j + 1)
    BY <2>5, <1>w, <1>f, <1>0
  <2>8. b.c = f[j + 1] /\ b.l = node2[First(f, (j + 1) - 1)] /\ b.n = node2[First(f, j + 1)]
    BY <2>4, <2>5, <1>0, <1>1, <1>w DEF c, p
  <2>9. Fresh(b)
    BY <2>3, <2>5, <1>w DEF Fresh
  <2>10. Shape(b.states, b.k, m, Walking(f, m, j + 1), node2, label2)
    BY <2>4, <2>5, <1>1
  <2>11. WalkAt(b, f, m, j + 1, node2, label2)
    BY <2>5, <2>6, <2>7, <2>8, <2>9, <2>10, <1>0 DEF WalkAt
  <2> QED BY <2>11 DEF b
<1>4. CASE a.states[a.n][c] # 0
  <2>1. b = [a EXCEPT !.l = a.n, !.c = c, !.n = a.states[a.n][c]]
    BY <1>4 DEF Walked, c
  <2> HIDE DEF b
  <2>2. Ext(p, c) \in P /\ node[Ext(p, c)] = a.states[a.n][c]
    <3>1. Edges(a.states, P, node, p)
      BY <1>w, <1>1 DEF Shape
    <3> QED BY <3>1, <1>4, <1>w, <1>1 DEF Edges
  <2>3. a.is_prefix
    <3>1. ~Fresh(a)
      BY <1>4, <1>1 DEF Fresh
    <3> QED BY <3>1, <1>w
  <2>4. /\ b.states = a.states /\ b.l = a.n /\ b.c = c /\ b.n = a.states[a.n][c] /\ b.k = a.k
        /\ b.is_prefix = a.is_prefix /\ b \in Walker
    <3>1. a.n \in Nat /\ a.states[a.n][c] \in Nat
      BY <1>w, <1>f, <1>1
    <3> QED BY <3>1, <2>1, <1>1, <1>w DEF Walker
  <2>5. Walking(f, m, j + 1) = P
    BY <2>2, <1>1
  <2>6. b.c = f[j + 1] /\ b.l = node[First(f, (j + 1) - 1)] /\ b.n = node[First(f, j + 1)]
    BY <2>2, <2>4, <1>0, <1>1, <1>w DEF c, p
  <2>7. usedstates <= b.k /\ b.k <= usedstates + (j + 1)
    BY <2>4, <1>w, <1>f, <1>0
  <2>8. Shape(b.states, b.k, m, Walking(f, m, j + 1), node, label)
    BY <2>4, <2>5, <1>w
  <2>9. WalkAt(b, f, m, j + 1, node, label)
    BY <2>3, <2>4, <2>6, <2>7, <2>8, <1>0, <1>w DEF WalkAt
  <2> QED BY <2>9 DEF b
<1> QED BY <1>3, <1>4

\* The states of a walk are a function, as Walk has it.
IsWalk(t, n, z, w) == t = [k \in 0..n |-> IF k = 0 THEN z ELSE Walked(t[k - 1], w[k])]

LEMMA WalkExists ==
  ASSUME NEW n \in Nat, NEW z, NEW w
  PROVE  \E t : IsWalk(t, n, z, w)
<1> DEFINE P == {m \in Nat : \E t : t = [k \in 0..m |-> IF k = 0 THEN z ELSE Walked(t[k - 1], w[k])]}
<1>1. 0 \in P
  <2> DEFINE t == [k \in 0..0 |-> z]
  <2>1. t = [k \in 0..0 |-> IF k = 0 THEN z ELSE Walked(t[k - 1], w[k])]
    OBVIOUS
  <2> QED BY <2>1
<1>2. ASSUME NEW m \in Nat, m \in P PROVE m + 1 \in P
  <2>1. PICK t : t = [k \in 0..m |-> IF k = 0 THEN z ELSE Walked(t[k - 1], w[k])]
    BY <1>2
  <2> DEFINE u == [k \in 0..(m + 1) |-> IF k = m + 1 THEN Walked(t[m], w[k]) ELSE t[k]]
  <2>2. ASSUME NEW k \in 0..(m + 1) PROVE u[k] = IF k = 0 THEN z ELSE Walked(u[k - 1], w[k])
    <3>1. CASE k = m + 1
      <4>1. k # 0 /\ k - 1 = m /\ m \in 0..(m + 1) /\ m # m + 1
        BY <3>1
      <4> QED BY <4>1, <3>1
    <3>2. CASE k # m + 1
      <4>1. k \in 0..m /\ u[k] = t[k]
        BY <3>2
      <4>2. t[k] = IF k = 0 THEN z ELSE Walked(t[k - 1], w[k])
        BY <4>1, <2>1
      <4>3. CASE k = 0
        BY <4>1, <4>2, <4>3
      <4>4. CASE k # 0
        <5>1. k - 1 \in 0..(m + 1) /\ k - 1 # m + 1
          BY <4>1, <4>4
        <5> QED BY <5>1, <4>1, <4>2, <4>4
      <4> QED BY <4>3, <4>4
    <3> QED BY <3>1, <3>2
  <2>3. u = [k \in 0..(m + 1) |-> u[k]]
    OBVIOUS
  <2> HIDE DEF u
  <2>4. u = [k \in 0..(m + 1) |-> IF k = 0 THEN z ELSE Walked(u[k - 1], w[k])]
    BY <2>2, <2>3
  <2> QED BY <2>4
<1> HIDE DEF P
<1>3. n \in P
  BY <1>1, <1>2, SetInduction
<1> QED BY <1>3 DEF P, IsWalk

\* Where the walk of a whole word ends.
LEMMA WalkEnds ==
  ASSUME wordlist \in Seq(Words), usedstates \in Nat, NEW m \in Nat, NEW w \in Strings,
         NEW node0, NEW label0, Shape(states, usedstates, m, Known(m), node0, label0),
         usedstates + Len(w) <= Rows
  PROVE  \E node, label : WalkAt(Walk(w), Same(w), m, Len(w), node, label)
<1> DEFINE z == [states |-> states, l |-> 0, c |-> KN, n |-> 0, k |-> usedstates, is_prefix |-> TRUE]
           f == Same(w)
           a[j \in 0..Len(w)] == IF j = 0 THEN z ELSE Walked(a[j - 1], w[j])
           P == {j \in Nat : j <= Len(w) => \E node, label : WalkAt(a[j], f, m, j, node, label)}
<1>0. /\ Len(w) \in Nat /\ f \in Strings /\ Len(f) = Len(w) /\ Rows \in Nat
      /\ \A x \in 1..Len(w) : w[x] \in Chars /\ f[x] = Folded(w[x])
  BY StringFacts, FoldedFacts, ShapeFacts
<1>1. a = [j \in 0..Len(w) |-> IF j = 0 THEN z ELSE Walked(a[j - 1], w[j])]
  <2> HIDE DEF z
  <2>1. \E t : t = [k \in 0..Len(w) |-> IF k = 0 THEN z ELSE Walked(t[k - 1], w[k])]
    <3>1. Len(w) \in Nat
      BY <1>0
    <3>2. \E t : IsWalk(t, Len(w), z, w)
      BY <3>1, WalkExists, Zenon
    <3> QED BY <3>2, Zenon DEF IsWalk
  <2> QED BY <2>1
<1>2. Walk(w) = a[Len(w)]
  BY DEF Walk
<1> HIDE DEF a
<1>3. 0 \in P
  <2>1. a[0] = z
    BY <1>0, <1>1
  <2>2. Walking(f, m, 0) = Known(m)
    <3>1. 0..0 = {0} /\ First(f, 0) = <<>> /\ <<>> \in Known(m)
      BY <1>0, FirstFacts, StringFacts DEF Known
    <3> QED BY <3>1 DEF Walking
  <2>3. z \in Walker
    <3>1. states \in [AllRows -> [Columns -> Nat]]
      BY DEF Shape, Table
    <3>2. KN \in Columns
      BY DEF Columns
    <3> QED BY <3>1, <3>2 DEF Walker
  <2>4. node0[First(f, 0)] = 0
    <3>1. First(f, 0) = <<>>
      BY <1>0, FirstFacts
    <3> QED BY <3>1 DEF Shape, Nodes
  <2>5. WalkAt(z, f, m, 0, node0, label0)
    <3>1. ~(0 > 0) /\ usedstates <= usedstates /\ usedstates <= usedstates + 0
      OBVIOUS
    <3>2. z.states = states /\ z.n = 0 /\ z.k = usedstates /\ z.is_prefix = TRUE
      OBVIOUS
    <3> HIDE DEF z
    <3> QED BY <2>2, <2>3, <2>4, <3>1, <3>2 DEF WalkAt
  <2> QED BY <2>1, <2>5
<1>4. ASSUME NEW j \in Nat, j \in P PROVE j + 1 \in P
  <2> SUFFICES ASSUME j + 1 <= Len(w) PROVE \E node, label : WalkAt(a[j + 1], f, m, j + 1, node, label)
    OBVIOUS
  <2>1. j <= Len(w) /\ j \in 0..Len(f) /\ j < Len(f) /\ usedstates + j + 1 <= Rows
    BY <1>0
  <2>2. PICK node, label : WalkAt(a[j], f, m, j, node, label)
    BY <2>1, <1>4
  <2>3. j + 1 \in 0..Len(w) /\ j + 1 # 0 /\ (j + 1) - 1 = j /\ j + 1 \in 1..Len(w)
    BY <1>0
  <2>4. a[j + 1] = Walked(a[j], w[j + 1])
    BY <1>1, <2>3
  <2>5. Folded(w[j + 1]) = f[j + 1]
    BY <1>0, <2>3
  <2> HIDE DEF f, P
  <2> QED BY <1>0, <2>1, <2>2, <2>4, <2>5, WalkedStep
<1> HIDE DEF P
<1>5. Len(w) \in P
  BY <1>0, <1>3, <1>4, SetInduction
<1> QED BY <1>0, <1>2, <1>5 DEF P

\* What is known after a word is what was known before it and its prefixes.
LEMMA KnownStep ==
  ASSUME wordlist \in Seq(Words), NEW m \in Nat, m < wordsnum
  PROVE  Known(m + 1) = Walking(Word(m + 1), m, Len(Word(m + 1)))
<1> DEFINE f == Word(m + 1)
<1>1. m + 1 \in 1..wordsnum /\ f \in Strings
  <2>1. m + 1 \in 1..wordsnum
    BY WordFacts
  <2> QED BY <2>1, WordFacts, FoldedFacts DEF Word
<1> HIDE DEF f
<1>2. 1..(m + 1) = (1..m) \cup {m + 1}
  OBVIOUS
<1>3. ASSUME NEW p \in Strings
      PROVE  Pre(p, f) <=> \E i \in 0..Len(f) : p = First(f, i)
  <2>1. Pre(p, f) => Len(p) \in 0..Len(f) /\ p = First(f, Len(p))
    BY <1>1, <1>3, FirstFacts
  <2>2. \A i \in 0..Len(f) : Pre(First(f, i), f)
    BY <1>1, FirstFacts
  <2> QED BY <2>1, <2>2
<1>4. \A i \in 0..Len(f) : First(f, i) \in Strings
  BY <1>1, FirstFacts
<1>5. ASSUME NEW p \in Strings
      PROVE  p \in Known(m + 1) <=> p \in Known(m) \/ Pre(p, f)
  BY <1>2 DEF Known, f
<1>6. Known(m + 1) \subseteq Strings /\ Known(m) \subseteq Strings
  BY DEF Known
<1>7. ASSUME NEW p PROVE p \in Known(m + 1) <=> p \in Walking(f, m, Len(f))
  BY <1>3, <1>4, <1>5, <1>6 DEF Walking
<1> QED BY <1>7 DEF f

\* The last state n of a walk is given back: it is the newest, nothing follows it, and
\* only state l leads to it.
Freed(t, k, used, l, n, c) ==
  \/ used = k
  \/ /\ used = k - 1 /\ n = k - 1
     /\ \A d \in Columns : t[k - 1][d] = 0
     /\ \A s \in AllRows, d \in Columns : t[s][d] = k - 1 <=> s = l /\ d = c

\* State i comes in its place.
Placed(t2, t, i, l, n, c) ==
  \A s \in AllRows, d \in Columns :
    t2[s][d] = IF s = i THEN (IF d = KN THEN i ELSE t[n][d])
               ELSE IF s = l /\ d = c THEN i ELSE t[s][d]

Shaped(t, used, m, P) == \E node, label : Shape(t, used, m, P, node, label)

\* Word i takes the place of the last state of its walk; that state is given back if
\* nothing else needs it.
LEMMA TakePlace ==
  ASSUME wordlist \in Seq(Words), NEW t, NEW k, NEW m \in Nat, NEW P, NEW node, NEW label,
         Shape(t, k, m, P, node, label), m < wordsnum,
         NEW p \in P, NEW c \in Chars, Ext(p, c) \in P, NEW used,
         Freed(t, k, used, node[p], node[Ext(p, c)], c),
         Ext(p, c) = Word(m + 1),
         NEW t2, Table(t2), Placed(t2, t, m + 1, node[p], node[Ext(p, c)], c)
  PROVE  Shaped(t2, used, m + 1, P)
<1> DEFINE i == m + 1
           f == Ext(p, c)
           node2 == [node EXCEPT ![f] = i]
           label2 == [label EXCEPT ![i] = f]
<1>f. /\ wordsnum \in Nat /\ k \in Nat /\ wordsnum < k /\ k <= Rows /\ Rows \in Nat
      /\ \A q \in P : node[q] \in Nat /\ node[q] < k /\ node[q] \in AllRows
      /\ \A s \in AllRows, d \in Columns : t[s][d] \in Nat /\ t[s][d] < k /\ t[s][d] \in AllRows
      /\ Chars \subseteq Columns /\ KN \in Columns /\ KN \notin Chars /\ 0 \in AllRows
  BY ShapeFacts
<1>s. /\ Closed(P) /\ Table(t) /\ Nodes(k, P, node, label)
      /\ \A q \in P : Edges(t, P, node, q)
      /\ \A q \in P : node[q] \notin Later(m)
      /\ \A s \in AllRows, d \in Columns : t[s][d] < k /\ t[s][d] \notin Later(m)
      /\ \A s \in AllRows : s >= k \/ s \in Later(m) => \A d \in Columns : t[s][d] = 0
      /\ \A s \in AllRows : t[s][KN] \in {0, s} /\ t[s][KN] <= wordsnum
      /\ \A s \in AllRows, d \in Chars : t[s][d] # 0 => label[t[s][d]] = Ext(label[s], d)
  BY DEF Shape
<1>d. /\ \A q, r \in P : node[q] = node[r] => q = r
      /\ \A q \in P : node[q] = 0 => q = <<>>
  BY <1>s, NodesDiffer DEF Closed
<1>p. P \subseteq Strings /\ <<>> \in P /\ p \in Strings /\ f \in Strings /\ f \in P /\ f # <<>> /\ f # p
  BY <1>s, ExtFacts DEF Closed
<1>i. /\ i \in Later(m) /\ i \notin Later(i) /\ Later(i) \subseteq Later(m) /\ i \in AllRows /\ i \in Nat
      /\ i <= wordsnum /\ i # 0
  BY <1>f DEF Later, AllRows
<1>t. \A s \in AllRows, d \in Columns :
        t2[s][d] = IF s = i THEN (IF d = KN THEN i ELSE t[node[f]][d])
                   ELSE IF s = node[p] /\ d = c THEN i ELSE t[s][d]
  BY DEF Placed
<1>w. i = m + 1 /\ Word(i) = f
  OBVIOUS
<1>u. \/ used = k
      \/ /\ used = k - 1 /\ node[f] = k - 1
         /\ \A d \in Columns : t[k - 1][d] = 0
         /\ \A s \in AllRows, d \in Columns : t[s][d] = k - 1 <=> s = node[p] /\ d = c
  BY DEF Freed
<1> HIDE DEF i, f
<1>n. \A q \in P : node[q] # i
  BY <1>i, <1>s
<1>1. /\ used \in Nat /\ wordsnum < used /\ used <= Rows /\ i < used /\ used <= k
      /\ \A q \in P : q # f => node[q] < used
  <2>1. CASE used = k
    BY <2>1, <1>f, <1>i
  <2>2. CASE used # k
    <3>1. used = k - 1 /\ node[f] = k - 1
      BY <1>u, <2>2
    <3>2. k - 1 # wordsnum
      <4>1. wordsnum \in Later(m)
        BY <1>f, <1>i DEF Later
      <4> QED BY <4>1, <3>1, <1>s, <1>p
    <3>3. \A q \in P : q # f => node[q] # k - 1
      BY <3>1, <1>d, <1>p
    <3>4. used \in Nat /\ wordsnum < used /\ used <= Rows /\ i < used /\ used <= k
      BY <3>1, <3>2, <1>f, <1>i
    <3>5. ASSUME NEW q \in P, q # f PROVE node[q] < used
      <4>1. PICK x \in Nat : x = node[q] /\ x < k /\ x # k - 1
        BY <3>3, <3>5, <1>f
      <4>2. k \in Nat
        BY <1>f
      <4>3. x < k - 1
        BY <4>1, <4>2
      <4> QED BY <4>1, <4>3, <3>1
    <3> QED BY <3>4, <3>5
  <2> QED BY <2>1, <2>2
<1>2. node2[f] = i /\ \A q \in P : q # f => node2[q] = node[q]
  BY <1>p, <1>s DEF Nodes
<1>3. label2[i] = f /\ \A s \in AllRows : s # i => label2[s] = label[s]
  BY <1>i, <1>s DEF Nodes
<1>4. Nodes(used, P, node2, label2)
  <2>1. node2 \in [P -> 0..(used - 1)]
    <3>1. \A q \in P : node2[q] \in 0..(used - 1)
      BY <1>1, <1>2, <1>i, <1>f
    <3>2. DOMAIN node2 = P
      BY <1>s DEF Nodes
    <3> QED BY <3>1, <3>2
  <2>2. node2[<<>>] = 0
    BY <1>2, <1>p, <1>s DEF Nodes
  <2>3. label2 \in [AllRows -> Strings]
    BY <1>p, <1>i, <1>s DEF Nodes
  <2>4. ASSUME NEW q \in P PROVE label2[node2[q]] = q
    <3>1. CASE q = f
      BY <3>1, <1>2, <1>3
    <3>2. CASE q # f
      <4>1. label[node[q]] = q
        BY <1>s DEF Nodes
      <4> QED BY <4>1, <3>2, <1>2, <1>3, <1>n, <1>f
    <3> QED BY <3>1, <3>2
  <2> QED BY <2>1, <2>2, <2>3, <2>4 DEF Nodes
<1> HIDE DEF node2, label2
<1>5. ASSUME NEW q \in P PROVE Edges(t2, P, node2, q)
  <2> SUFFICES ASSUME NEW d \in Chars
               PROVE  t2[node2[q]][d] = IF Ext(q, d) \in P THEN node2[Ext(q, d)] ELSE 0
    BY DEF Edges
  <2>0. d \in Columns /\ d # KN
    BY <1>f
  <2>1. t[node[q]][d] = IF Ext(q, d) \in P THEN node[Ext(q, d)] ELSE 0
    BY <1>s DEF Edges
  <2>2. CASE q = f
    <3>1. Ext(f, d) # f
      BY <1>p, ExtFacts
    <3>2. t2[i][d] = t[node[f]][d]
      BY <2>0, <1>t, <1>i
    <3> QED BY <2>1, <2>2, <3>1, <3>2, <1>2
  <2>3. CASE q # f /\ q = p /\ d = c
    <3>1. t2[node[p]][c] = i
      BY <2>0, <2>3, <1>t, <1>n, <1>f
    <3>2. Ext(q, d) = f
      BY <2>3 DEF f
    <3> QED BY <2>3, <3>1, <3>2, <1>2, <1>p
  <2>4. CASE q # f /\ ~(q = p /\ d = c)
    <3>1. Ext(q, d) # f
      BY <2>4, <1>p, ExtFacts DEF f
    <3>2. ~(node[q] = node[p] /\ d = c)
      BY <2>4, <1>d
    <3>3. t2[node[q]][d] = t[node[q]][d]
      BY <2>0, <3>2, <1>t, <1>n, <1>f
    <3> QED BY <2>1, <2>4, <3>1, <3>3, <1>2
  <2> QED BY <2>2, <2>3, <2>4
<1>6. \A q \in P : node2[q] \notin Later(i)
  BY <1>2, <1>i, <1>s
<1>7. ASSUME NEW s \in AllRows, NEW d \in Columns PROVE t2[s][d] < used /\ t2[s][d] \notin Later(i)
  <2>1. CASE t2[s][d] = i
    BY <2>1, <1>1, <1>i
  <2>2. CASE t2[s][d] # i
    <3>1. PICK r \in AllRows : t2[s][d] = t[r][d] /\ ~(r = node[p] /\ d = c)
      <4>1. CASE s = i
        <5>1. d # KN /\ t2[s][d] = t[node[f]][d]
          BY <4>1, <2>2, <1>t
        <5>2. node[f] # node[p] /\ node[f] \in AllRows
          BY <1>d, <1>p, <1>f
        <5> QED BY <5>1, <5>2
      <4>2. CASE s # i
        BY <4>2, <2>2, <1>t
      <4> QED BY <4>1, <4>2
    <3>2. t[r][d] < used
      <4>1. CASE used = k
        BY <4>1, <1>s
      <4>2. CASE used # k
        <5>1. used = k - 1 /\ t[r][d] # k - 1
          BY <1>u, <4>2, <3>1
        <5>2. PICK x \in Nat : x = t[r][d] /\ x < k
          BY <1>f
        <5>3. k \in Nat
          BY <1>f
        <5>4. x < k - 1
          BY <5>1, <5>2, <5>3
        <5> QED BY <5>1, <5>2, <5>4
      <4> QED BY <4>1, <4>2
    <3> QED BY <3>1, <3>2, <1>s, <1>i
  <2> QED BY <2>1, <2>2
<1>8. ASSUME NEW s \in AllRows, s >= used \/ s \in Later(i), NEW d \in Columns PROVE t2[s][d] = 0
  <2>1. s # i /\ s # node[p]
    <3>1. s \in Nat /\ node[p] < used /\ node[p] \in Nat /\ node[p] \notin Later(i)
      BY <1>1, <1>f, <1>p, <1>s, <1>i DEF AllRows
    <3> QED BY <3>1, <1>8, <1>1, <1>i
  <2>2. t2[s][d] = t[s][d]
    BY <2>1, <1>t
  <2>3. t[s][d] = 0
    <3>1. CASE s >= k \/ s \in Later(m)
      BY <3>1, <1>s
    <3>2. CASE ~(s >= k \/ s \in Later(m))
      <4>1. s \in Nat /\ s >= used
        BY <3>2, <1>8, <1>i DEF AllRows
      <4>2. used # k /\ s = k - 1
        BY <4>1, <3>2, <1>1, <1>f, <1>u
      <4> QED BY <4>2, <1>u
    <3> QED BY <3>1, <3>2
  <2> QED BY <2>2, <2>3
<1>9. ASSUME NEW s \in AllRows PROVE t2[s][KN] \in {0, s} /\ t2[s][KN] <= wordsnum
  BY <1>t, <1>s, <1>f, <1>i
<1>10. ASSUME NEW s \in AllRows, NEW d \in Chars, t2[s][d] # 0
       PROVE  label2[t2[s][d]] = Ext(label2[s], d)
  <2>0. d \in Columns /\ d # KN /\ label[node[f]] = f /\ label[node[p]] = p
    BY <1>f, <1>p, <1>s DEF Nodes
  <2>1. CASE s = i
    <3>1. t2[s][d] = t[node[f]][d]
      BY <2>0, <2>1, <1>t
    <3>2. t[node[f]][d] # i /\ t[node[f]][d] \in AllRows /\ node[f] \in AllRows
      BY <2>0, <1>s, <1>i, <1>f, <1>p
    <3>3. label[t[node[f]][d]] = Ext(label[node[f]], d)
      BY <3>1, <3>2, <1>10, <1>s
    <3> QED BY <2>0, <2>1, <3>1, <3>2, <3>3, <1>3
  <2>2. CASE s # i /\ s = node[p] /\ d = c
    BY <2>0, <2>2, <1>t, <1>3 DEF f
  <2>3. CASE s # i /\ ~(s = node[p] /\ d = c)
    <3>1. t2[s][d] = t[s][d]
      BY <2>0, <2>3, <1>t
    <3>2. t[s][d] # i /\ t[s][d] \in AllRows
      BY <2>0, <1>s, <1>i, <1>f
    <3> QED BY <2>3, <3>1, <3>2, <1>10, <1>s, <1>3
  <2> QED BY <2>1, <2>2, <2>3
<1>12. Owned(i, P, node2)
  <2>1. Owned(m, P, node)
    BY DEF Shape
  <2>2. ASSUME NEW j \in 1..i PROVE Word(j) \in P /\ node2[Word(j)] \in j..wordsnum
    <3>1. CASE Word(j) = f
      BY <3>1, <1>2, <1>p, <1>i, <1>f
    <3>2. CASE Word(j) # f
      <4>1. j # i
        BY <3>2, <1>w
      <4>2. j \in 1..m
        BY <4>1, <1>w
      <4> QED BY <4>2, <3>2, <2>1, <1>2 DEF Owned
    <3> QED BY <3>1, <3>2
  <2>3. ASSUME NEW q \in P, node2[q] \in 1..wordsnum PROVE Word(node2[q]) = q
    BY <2>1, <2>3, <1>2, <1>w DEF Owned
  <2> QED BY <2>2, <2>3 DEF Owned
<1>13. Plain(t2, P, node2)
  <2> SUFFICES ASSUME NEW q \in P PROVE t2[node2[q]][KN] = Own(node2, q)
    BY DEF Plain
  <2>1. CASE q = f
    <3>1. i \in 1..wordsnum /\ t2[i][KN] = i
      BY <1>i, <1>t, <1>f
    <3> QED BY <2>1, <3>1, <1>2 DEF Own
  <2>2. CASE q # f
    <3>1. t[node[q]][KN] = Own(node, q)
      BY DEF Shape, Plain
    <3>2. t2[node[q]][KN] = t[node[q]][KN]
      BY <1>t, <1>n, <1>f
    <3> QED BY <2>2, <3>1, <3>2, <1>2 DEF Own
  <2> QED BY <2>1, <2>2
<1>11. Shape(t2, used, i, P, node2, label2)
  BY <1>12, <1>13, <1>s, <1>1, <1>4, <1>5, <1>6, <1>7, <1>8, <1>9, <1>10 DEF Shape
<1> QED BY <1>11 DEF i, Shaped
-----------------------------------------------------------------------------
(* The invariant.                                                            *)
\* A table of R rows: every entry leads inside it, and the KN column holds the words up
\* to n.
Inside(t, used, R, n) ==
  /\ t \in [0..(R - 1) -> [Columns -> Nat]]
  /\ 0 < used /\ used <= R
  /\ \A s \in 0..(R - 1), c \in Columns : t[s][c] < used
  /\ \A s \in 0..(R - 1) : t[s][KN] <= n

\* The table of the last Prepare.  More words may have been added since.
Made(R) ==
  /\ Inside(states, usedstates, R, prepared) /\ prepared >= 1
  /\ prepared = wordsnum => R = Rows

TableInv == states # <<>> => \E R \in Nat : Made(R)

PhaseInv ==
  /\ phase # "idle" => states # <<>> /\ prepared = wordsnum /\ wordsnum >= 1 /\ call = "none"
  /\ phase # "fill" => queue = <<>>
  /\ call = "none" => word = 0 /\ findword = <<>>
  /\ states = <<>> => call = "none"

\* While words are inserted each may take up as many states as it has characters, less
\* the one of its own.
Inserting ==
  phase = "insert" =>
    /\ next_word \in 1..(wordsnum + 1)
    /\ usedstates + (next_word - 1) <= wordsnum + 1 + lengths[next_word - 1]
    /\ Shaped(states, usedstates, next_word - 1, Known(next_word - 1))

\* Operators of the words stay as they are while the words do.
LEMMA Steady ==
  ASSUME wordlist' = wordlist
  PROVE  /\ wordsnum' = wordsnum /\ lengths' = lengths /\ wordslength' = wordslength
         /\ Rows' = Rows /\ AllRows' = AllRows /\ \A m : Later(m)' = Later(m)
         /\ matchcase' = matchcase => \A m : Known(m)' = Known(m) /\ Word(m)' = Word(m)
<1>1. wordsnum' = wordsnum
  BY DEF wordsnum
<1>2. lengths' = lengths
  BY <1>1 DEF lengths
<1>3. wordslength' = wordslength
  BY <1>1, <1>2 DEF wordslength
<1>4. Rows' = Rows
  BY <1>3 DEF Rows
<1>5. AllRows' = AllRows
  BY <1>4 DEF AllRows
<1>6. \A m : Later(m)' = Later(m)
  BY <1>1 DEF Later
<1>7. matchcase' = matchcase => \A m : Known(m)' = Known(m) /\ Word(m)' = Word(m)
  BY DEF Known, Word, Same, Folded
<1> QED BY <1>1, <1>2, <1>3, <1>4, <1>5, <1>6, <1>7

LEMMA ShapeSteady ==
  ASSUME wordlist' = wordlist, NEW t, NEW used, NEW m, NEW P, NEW node, NEW label,
         matchcase' = matchcase \/ m = 0, Shape(t, used, m, P, node, label)
  PROVE  Shape(t, used, m, P, node, label)'
<1>1. Owned(m, P, node)'
  <2>1. Owned(m, P, node) /\ \A p \in P : node[p] \notin Later(m)
    BY DEF Shape
  <2>2. CASE matchcase' = matchcase
    <3>1. \A i : Word(i)' = Word(i)
      BY <2>2, Steady
    <3> QED BY <2>1, <3>1, Steady DEF Owned
  <2>3. CASE m = 0
    <3>1. 1..m = {} /\ Later(m) = 1..wordsnum
      BY <2>3 DEF Later
    <3> QED BY <2>1, <3>1, Steady DEF Owned
  <2> QED BY <2>2, <2>3
<1>2. Plain(t, P, node)'
  BY Steady DEF Shape, Plain, Own
<1> QED BY <1>1, <1>2, Steady DEF Shape, Table, Nodes

\* A word is inserted.
LEMMA InsertStep ==
  ASSUME TypeOK, PhaseInv, Inserting, Insert
  PROVE  /\ next_word' \in 1..(wordsnum + 1)
         /\ usedstates' + (next_word' - 1) <= wordsnum + 1 + lengths[next_word' - 1]
         /\ Shaped(states', usedstates', next_word' - 1, Known(next_word' - 1))
<1> DEFINE i == next_word
           m == i - 1
           w == wordlist[i]
           f == Word(i)
           L == Len(w)
           a == Walk(w)
           linked == [a.states EXCEPT ![a.l][a.c] = i]
           new == a.n = a.k - 1 /\ ~a.is_prefix
           row == IF new THEN linked[i] ELSE linked[a.n]
           t2 == [linked EXCEPT ![i] = [row EXCEPT ![KN] = i]]
<1>1. /\ wordlist \in Seq(Words) /\ usedstates \in Nat /\ phase = "insert" /\ i <= wordsnum
      /\ i \in 1..(wordsnum + 1) /\ usedstates + m <= wordsnum + 1 + lengths[m]
  BY DEF TypeOK, Insert, Inserting
<1>2. /\ i \in 1..wordsnum /\ m \in Nat /\ m + 1 = i /\ m < wordsnum /\ m \in 0..wordsnum /\ i \in 0..wordsnum
      /\ wordsnum \in Nat /\ i \in Nat
  BY <1>1, WordFacts
<1>3. w \in Strings /\ L \in Nat /\ L >= 1 /\ f = Same(w)
  BY <1>1, <1>2, WordFacts DEF Word
<1>4. lengths[i] = lengths[m] + L /\ lengths[i] \in Nat /\ lengths[m] \in Nat
  BY <1>1, <1>2, LengthsFacts
<1>5. usedstates + L <= Rows
  <2>1. wordslength - lengths[i] >= wordsnum - i /\ wordslength \in Nat
    BY <1>1, <1>2, LengthsFacts
  <2> HIDE DEF L
  <2> QED BY <2>1, <1>1, <1>2, <1>3, <1>4 DEF Rows
<1>6. PICK node0, label0 : Shape(states, usedstates, m, Known(m), node0, label0)
  BY <1>1 DEF Inserting, Shaped
<1>7. PICK node, label : WalkAt(a, f, m, L, node, label)
  <2>1. \E node, label : WalkAt(Walk(w), Same(w), m, L, node, label)
    BY <1>1, <1>2, <1>3, <1>5, <1>6, WalkEnds
  <2> QED BY <2>1, <1>3
<1>8. /\ f \in Strings /\ Len(f) = L
  BY <1>3, FoldedFacts
<1>9. PICK p \in Strings, c \in Chars : p = First(f, L - 1) /\ c = f[L] /\ Ext(p, c) = f
  <2>1. L - 1 \in 0..Len(f) /\ L - 1 < Len(f) /\ (L - 1) + 1 = L
    BY <1>3, <1>8
  <2>2. First(f, L - 1) \in Strings /\ f[L] \in Chars /\ Ext(First(f, L - 1), f[L]) = First(f, L)
    BY <2>1, <1>8, FirstFacts
  <2>3. First(f, L) = f
    BY <1>8, FirstFacts
  <2> QED BY <2>2, <2>3
<1>10. Walking(f, m, L) = Known(i)
  <2>1. Known(m + 1) = Walking(Word(m + 1), m, Len(Word(m + 1)))
    BY <1>1, <1>2, KnownStep
  <2> QED BY <2>1, <1>2, <1>8
<1>11. p \in Known(i) /\ Ext(p, c) \in Known(i)
  <2>1. L - 1 \in 0..L /\ L \in 0..L
    BY <1>3
  <2>2. First(f, L - 1) \in Walking(f, m, L) /\ First(f, L) \in Walking(f, m, L)
    BY <2>1 DEF Walking
  <2>3. First(f, L) = f
    BY <1>8, FirstFacts
  <2> QED BY <2>2, <2>3, <1>9, <1>10
<1> HIDE DEF f, L, w, m, i, a
<1>12. /\ a \in Walker /\ usedstates <= a.k /\ a.k <= usedstates + L
       /\ Shape(a.states, a.k, m, Known(i), node, label)
       /\ a.n = node[Ext(p, c)] /\ a.c = c /\ a.l = node[p]
       /\ (a.is_prefix => a.k = usedstates) /\ (~a.is_prefix => Fresh(a))
  <2>1. L > 0 /\ First(f, L) = f
    BY <1>3, <1>8, FirstFacts
  <2> QED BY <2>1, <1>7, <1>9, <1>10 DEF WalkAt
<1>13. PICK t, k, n0, l0 : t = a.states /\ k = a.k /\ n0 = a.n /\ l0 = a.l
  OBVIOUS
<1>f. /\ k \in Nat /\ Rows \in Nat /\ wordsnum < k /\ k <= Rows
      /\ \A q \in Known(i) : node[q] \in Nat /\ node[q] < k /\ node[q] \in AllRows
      /\ \A s \in AllRows, d \in Columns : t[s][d] \in Nat
      /\ Chars \subseteq Columns /\ KN \in Columns /\ KN \notin Chars
  <2>1. Shape(t, k, m, Known(i), node, label)
    BY <1>12, <1>13
  <2> QED BY <2>1, <1>1, <1>2, ShapeFacts
<1>s. /\ Table(t) /\ \A q \in Known(i) : node[q] \notin Later(m)
      /\ \A s \in AllRows : s >= k \/ s \in Later(m) => \A d \in Columns : t[s][d] = 0
      /\ Closed(Known(i)) /\ Nodes(k, Known(i), node, label)
  BY <1>12, <1>13 DEF Shape
<1>14. /\ n0 = node[Ext(p, c)] /\ l0 = node[p] /\ n0 \in AllRows /\ l0 \in AllRows /\ n0 # l0
       /\ i \in AllRows /\ l0 # i /\ n0 # i /\ i \in Later(m) /\ c \in Columns
  <2>1. n0 = node[Ext(p, c)] /\ l0 = node[p] /\ n0 \in AllRows /\ l0 \in AllRows
    BY <1>11, <1>12, <1>13, <1>f
  <2>2. n0 # l0
    BY <2>1, <1>11, <1>s, ExtFacts, NodesDiffer DEF Closed
  <2>3. i \in Later(m) /\ i \in AllRows
    BY <1>2, <1>f DEF Later, AllRows
  <2> QED BY <2>1, <2>2, <2>3, <1>11, <1>s, <1>f
<1>15. \A s \in AllRows, d \in Columns : linked[s][d] = IF s = l0 /\ d = c THEN i ELSE t[s][d]
  BY <1>12, <1>13, <1>14, <1>s DEF Table
<1>16. linked \in [AllRows -> [Columns -> Nat]]
  BY <1>12, <1>13, <1>14, <1>s, <1>2 DEF Table
<1> HIDE DEF linked
<1>17. ~a.is_prefix <=> new
  BY <1>12, <1>f, <1>13 DEF Fresh, Walker
<1>18. new => /\ \A d \in Columns : t[n0][d] = 0
              /\ \A s \in AllRows, d \in Columns : t[s][d] = n0 <=> s = l0 /\ d = c
              /\ n0 = k - 1
  BY <1>12, <1>13, <1>17 DEF Fresh
<1>19. row \in [Columns -> Nat] /\ \A d \in Columns : row[d] = t[n0][d]
  <2>1. CASE new
    <3>1. row = linked[i]
      BY <2>1
    <3> HIDE DEF row, new
    <3>2. \A d \in Columns : linked[i][d] = t[i][d] /\ t[i][d] = 0
      BY <1>14, <1>15, <1>s
    <3> QED BY <2>1, <3>1, <3>2, <1>14, <1>16, <1>18
  <2>2. CASE ~new
    <3>1. row = linked[n0]
      BY <2>2, <1>13
    <3> HIDE DEF row, new
    <3> QED BY <3>1, <1>14, <1>15, <1>16
  <2> QED BY <2>1, <2>2
<1> HIDE DEF row
<1>20. /\ Table(t2)
       /\ \A s \in AllRows, d \in Columns :
            t2[s][d] = IF s = i THEN (IF d = KN THEN i ELSE t[n0][d])
                       ELSE IF s = l0 /\ d = c THEN i ELSE t[s][d]
  BY <1>2, <1>14, <1>15, <1>16, <1>19 DEF Table
<1>21. states' = t2 /\ usedstates' = (IF new THEN a.k - 1 ELSE a.k) /\ next_word' = i + 1
  BY DEF Insert, t2, row, linked, new, a, w, i
<1> HIDE DEF t2, new
<1>22. PICK used : used = usedstates' /\ used = IF new THEN k - 1 ELSE k
  BY <1>13, <1>21
<1>23. PICK u : u = t2
  OBVIOUS
<1>24. Shaped(u, used, i, Known(i))
  <2>1. Freed(t, k, used, node[p], node[Ext(p, c)], c)
    BY <1>14, <1>18, <1>22 DEF Freed
  <2>2. Placed(u, t, m + 1, node[p], node[Ext(p, c)], c)
    BY <1>2, <1>14, <1>20, <1>23 DEF Placed
  <2>3. Shape(t, k, m, Known(i), node, label) /\ m < wordsnum /\ m \in Nat /\ Table(u)
    BY <1>2, <1>12, <1>13, <1>20, <1>23
  <2>4. Shaped(u, used, m + 1, Known(i))
    <3>1. Ext(p, c) = Word(m + 1)
      BY <1>2, <1>9 DEF f
    <3> QED BY <3>1, <2>1, <2>2, <2>3, <1>1, <1>11, TakePlace, ZenonT(30)
  <2> QED BY <2>4, <1>2
<1>25. usedstates' + i <= wordsnum + 1 + lengths[i]
  <2>1. \/ used = k - 1 /\ k <= usedstates + L
        \/ used = k /\ k = usedstates
    BY <1>12, <1>13, <1>17, <1>22
  <2>2. PICK x, y : x = lengths[i] /\ y = lengths[m]
    OBVIOUS
  <2>3. x = y + L /\ y \in Nat /\ usedstates + m <= wordsnum + 1 + y
    BY <1>1, <1>4, <2>2 DEF m, i
  <2>4. used + i <= wordsnum + 1 + x
    BY <2>1, <2>3, <1>1, <1>2, <1>3, <1>f
  <2> QED BY <2>2, <2>4, <1>22
<1>26. next_word' - 1 = i /\ next_word' \in 1..(wordsnum + 1) /\ m + 1 = i
  BY <1>2, <1>21
<1> QED BY <1>21, <1>22, <1>23, <1>24, <1>25, <1>26
-----------------------------------------------------------------------------
(* The queue.  path gives each state that waits in it the prefix whose state  *)
(* it is: none of them is a prefix of another, and what follows them in the  *)
(* tree is still as the words left it.                                       *)
Bounded(t, label) ==
  /\ \A s \in AllRows, c \in Columns : t[s][c] < usedstates
  /\ \A s \in AllRows :
       /\ t[s][KN] <= wordsnum
       /\ t[s][KN] \in {0, s} \/ Len(label[t[s][KN]]) < Len(label[s])
  /\ \A s \in AllRows, c \in Chars : Len(label[t[s][c]]) <= Len(label[s]) + 1

Tree(t, P, node, label) ==
  /\ Closed(P) /\ Table(t) /\ Nodes(usedstates, P, node, label) /\ Bounded(t, label)
  /\ usedstates \in Nat /\ wordsnum < usedstates /\ usedstates <= Rows

Queued(t, q, lo, path, P, node, label) ==
  /\ q \in Seq([from : AllRows, to : AllRows]) /\ path \in [lo..Len(q) -> P]
  /\ \A x \in lo..Len(q) :
       path[x] # <<>> /\ q[x].to = node[path[x]] /\ Len(label[q[x].from]) < Len(path[x])
  /\ \A x, y \in lo..Len(q) : Pre(path[x], path[y]) => x = y
  /\ \A x \in lo..Len(q), r \in P : Pre(path[x], r) => Edges(t, P, node, r)

\* The state of p is being visited, and the characters of rem are left.
Fan(t, q, lo, path, p, rem, P, node, label) ==
  /\ Tree(t, P, node, label) /\ Queued(t, q, lo, path, P, node, label)
  /\ p \in P /\ rem \subseteq Chars
  /\ \A x \in lo..Len(q) : ~Pre(path[x], p)
  /\ \A x \in lo..Len(q), c \in rem : ~Pre(Ext(p, c), path[x])
  /\ \A c \in rem : t[node[p]][c] = IF Ext(p, c) \in P THEN node[Ext(p, c)] ELSE 0
  /\ \A c \in rem, r \in P : Pre(Ext(p, c), r) => Edges(t, P, node, r)

Fanned(t, q, lo, p, rem, P, node, label) == \E path : Fan(t, q, lo, path, p, rem, P, node, label)

\* Tree, one fact at a time.
LEMMA TreeFacts ==
  ASSUME wordlist \in Seq(Words), NEW t, NEW P, NEW node, NEW label, Tree(t, P, node, label)
  PROVE  /\ wordsnum \in Nat /\ usedstates \in Nat /\ Rows \in Nat
         /\ \A p \in P : node[p] \in Nat /\ node[p] < usedstates /\ node[p] \in AllRows
         /\ \A p \in P : label[node[p]] = p /\ p \in Strings
         /\ \A p, q \in P : node[p] = node[q] => p = q
         /\ \A s \in AllRows, c \in Columns : t[s][c] \in Nat /\ t[s][c] < usedstates /\ t[s][c] \in AllRows
         /\ \A s \in AllRows : label[s] \in Strings /\ Len(label[s]) \in Nat
         /\ Chars \subseteq Columns /\ KN \in Columns /\ KN \notin Chars
         /\ 0 \in AllRows /\ label[0] = <<>> /\ node[<<>>] = 0
<1>1. /\ Closed(P) /\ Table(t) /\ Nodes(usedstates, P, node, label) /\ Bounded(t, label)
      /\ usedstates \in Nat /\ wordsnum < usedstates /\ usedstates <= Rows
  BY DEF Tree
<1>2. wordsnum \in Nat /\ Rows \in Nat
  BY WordFacts, LengthsFacts DEF Rows
<1>3. \A x \in Nat : x < usedstates => x \in AllRows
  BY <1>1, <1>2 DEF AllRows
<1>4. \A p \in P : node[p] \in Nat /\ node[p] < usedstates
  BY <1>1 DEF Nodes
<1>5. Chars \subseteq Columns /\ KN \in Columns /\ KN \notin Chars
  BY MachineAssumption DEF Columns
<1>6. \A s \in AllRows, c \in Columns : t[s][c] \in Nat /\ t[s][c] < usedstates
  BY <1>1 DEF Table, Bounded
<1>7. \A s \in AllRows : label[s] \in Strings /\ Len(label[s]) \in Nat
  <2>1. \A s \in AllRows : label[s] \in Strings
    BY <1>1 DEF Nodes
  <2> QED BY <2>1, StringFacts
<1>8. P \subseteq Strings /\ <<>> \in P
  BY <1>1 DEF Closed
<1>9. \A p, q \in P : node[p] = node[q] => p = q
  BY <1>1, <1>8, NodesDiffer
<1>10. \A p \in P : label[node[p]] = p
  BY <1>1 DEF Nodes
<1>11. node[<<>>] = 0 /\ label[0] = <<>> /\ 0 \in AllRows
  <2>1. node[<<>>] = 0
    BY <1>1 DEF Nodes
  <2> QED BY <2>1, <1>3, <1>4, <1>8, <1>10
<1> QED BY <1>2, <1>1, <1>3, <1>4, <1>5, <1>6, <1>7, <1>8, <1>9, <1>10, <1>11

\* A column of the visited state is filled.
LEMMA FanFill ==
  ASSUME wordlist \in Seq(Words), NEW t, NEW q, NEW lo, NEW path, NEW p, NEW rem, NEW P,
         NEW node, NEW label, Fan(t, q, lo, path, p, rem, P, node, label),
         NEW c \in rem, NEW t2, Table(t2),
         \A s \in AllRows, d \in Columns :
           \/ t2[s][d] = t[s][d]
           \/ /\ s = node[p] /\ d = c
              /\ t2[s][d] < usedstates /\ Len(label[t2[s][d]]) <= Len(label[s]) + 1
  PROVE  Fan(t2, q, lo, path, p, rem \ {c}, P, node, label)
<1>1. /\ Tree(t, P, node, label) /\ Queued(t, q, lo, path, P, node, label)
      /\ p \in P /\ rem \subseteq Chars
      /\ \A x \in lo..Len(q) : ~Pre(path[x], p)
      /\ \A x \in lo..Len(q), d \in rem : ~Pre(Ext(p, d), path[x])
      /\ \A d \in rem : t[node[p]][d] = IF Ext(p, d) \in P THEN node[Ext(p, d)] ELSE 0
      /\ \A d \in rem, r \in P : Pre(Ext(p, d), r) => Edges(t, P, node, r)
  BY DEF Fan
<1>2. /\ Chars \subseteq Columns /\ KN \in Columns /\ KN \notin Chars
      /\ \A r \in P : node[r] \in AllRows
      /\ \A r \in P : node[r] = node[p] => r = p
      /\ P \subseteq Strings
  BY <1>1, TreeFacts
<1>3. \A s \in AllRows, d \in Columns : ~(s = node[p] /\ d = c) => t2[s][d] = t[s][d]
  OBVIOUS
<1>4. ASSUME NEW r \in P, r # p, Edges(t, P, node, r) PROVE Edges(t2, P, node, r)
  <2>1. \A d \in Chars : t2[node[r]][d] = t[node[r]][d]
    BY <1>2, <1>3, <1>4
  <2> QED BY <2>1, <1>4 DEF Edges
<1>5. Bounded(t2, label)
  <2>1. \A s \in AllRows, d \in Columns : t2[s][d] < usedstates
    BY <1>1 DEF Tree, Bounded
  <2>2. \A s \in AllRows : t2[s][KN] = t[s][KN]
    BY <1>1, <1>2, <1>3
  <2>3. \A s \in AllRows, d \in Chars : Len(label[t2[s][d]]) <= Len(label[s]) + 1
    BY <1>1, <1>2 DEF Tree, Bounded
  <2> QED BY <2>1, <2>2, <2>3, <1>1 DEF Tree, Bounded
<1>6. Tree(t2, P, node, label)
  BY <1>1, <1>5 DEF Tree
<1>7. Queued(t2, q, lo, path, P, node, label)
  <2>1. ASSUME NEW x \in lo..Len(q), NEW r \in P, Pre(path[x], r) PROVE Edges(t2, P, node, r)
    <3>1. r # p
      BY <1>1, <2>1
    <3> QED BY <3>1, <2>1, <1>1, <1>4 DEF Queued
  <2> QED BY <2>1, <1>1 DEF Queued
<1>8. \A d \in rem \ {c} : t2[node[p]][d] = IF Ext(p, d) \in P THEN node[Ext(p, d)] ELSE 0
  BY <1>1, <1>2, <1>3
<1>9. ASSUME NEW d \in rem \ {c}, NEW r \in P, Pre(Ext(p, d), r) PROVE Edges(t2, P, node, r)
  <2>1. r # p
    BY <1>1, <1>2, <1>9, ExtFacts
  <2> QED BY <2>1, <1>1, <1>4, <1>9
<1> QED BY <1>1, <1>6, <1>7, <1>8, <1>9 DEF Fan

\* The KN column of state l may have got a word that is shorter than what leads to l.
Linked(t2, t, label, l) ==
  \A s \in AllRows, d \in Columns :
    \/ t2[s][d] = t[s][d]
    \/ /\ s = l /\ d = KN
       /\ t2[s][d] < usedstates /\ t2[s][d] <= wordsnum
       /\ Len(label[t2[s][d]]) < Len(label[s])

\* A child of the visited state is queued, with failure state g.
LEMMA FanChild ==
  ASSUME wordlist \in Seq(Words), NEW t, NEW q, NEW lo \in Nat, NEW path, NEW p, NEW rem, NEW P,
         NEW node, NEW label, Fan(t, q, lo, path, p, rem, P, node, label), lo <= Len(q) + 1, lo >= 1,
         NEW c \in rem, Ext(p, c) \in P,
         NEW g \in AllRows, Len(label[g]) <= Len(p),
         NEW h, h = [from |-> g, to |-> node[Ext(p, c)]], NEW q2, q2 = Append(q, h),
         NEW t2, Table(t2), Linked(t2, t, label, node[Ext(p, c)])
  PROVE  Fanned(t2, q2, lo, p, rem \ {c}, P, node, label)
<1> DEFINE e == Ext(p, c)
           n == Len(q)
           path2 == [x \in lo..(n + 1) |-> IF x = n + 1 THEN e ELSE path[x]]
<1>1. /\ Tree(t, P, node, label) /\ Queued(t, q, lo, path, P, node, label)
      /\ p \in P /\ rem \subseteq Chars
      /\ \A x \in lo..n : ~Pre(path[x], p)
      /\ \A x \in lo..n, d \in rem : ~Pre(Ext(p, d), path[x])
      /\ \A d \in rem : t[node[p]][d] = IF Ext(p, d) \in P THEN node[Ext(p, d)] ELSE 0
      /\ \A d \in rem, r \in P : Pre(Ext(p, d), r) => Edges(t, P, node, r)
  BY DEF Fan
<1>q. /\ q \in Seq([from : AllRows, to : AllRows]) /\ path \in [lo..n -> P]
      /\ \A x \in lo..n :
           path[x] # <<>> /\ q[x].to = node[path[x]] /\ Len(label[q[x].from]) < Len(path[x])
      /\ \A x, y \in lo..n : Pre(path[x], path[y]) => x = y
      /\ \A x \in lo..n, r \in P : Pre(path[x], r) => Edges(t, P, node, r)
  BY <1>1 DEF Queued
<1>t. \A s \in AllRows, d \in Columns :
        \/ t2[s][d] = t[s][d]
        \/ /\ s = node[e] /\ d = KN
           /\ t2[s][d] < usedstates /\ t2[s][d] <= wordsnum
           /\ Len(label[t2[s][d]]) < Len(label[s])
  BY DEF Linked
<1>2. /\ Chars \subseteq Columns /\ KN \in Columns /\ KN \notin Chars
      /\ \A r \in P : node[r] \in AllRows
      /\ P \subseteq Strings
  BY <1>1, TreeFacts
<1>3. /\ e \in P /\ e \in Strings /\ p \in Strings /\ e # <<>> /\ c \in Chars /\ e # p /\ ~Pre(e, p)
      /\ Len(e) = Len(p) + 1 /\ Len(p) \in Nat
      /\ \A r \in Strings : Pre(r, e) <=> Pre(r, p) \/ r = e
      /\ \A r \in Strings : Pre(e, r) => Pre(p, r)
      /\ Pre(e, e)
  <2>1. e \in P /\ e \in Strings /\ p \in Strings /\ c \in Chars
    BY <1>1, <1>2
  <2>2. Len(e) = Len(p) + 1 /\ Len(p) \in Nat /\ Pre(e, e)
    BY <2>1, StringFacts, PreFacts
  <2>3. e # <<>> /\ e # p /\ ~Pre(e, p)
    <3>1. Len(<<>>) = 0 /\ ~(Len(e) <= Len(p)) /\ Len(e) # 0
      BY <2>2, StringFacts
    <3> QED BY <3>1 DEF Pre
  <2>4. \A r \in Strings : Pre(r, e) <=> Pre(r, p) \/ r = e
    BY <2>1, ExtFacts, PreExt
  <2>5. \A r \in Strings : Pre(e, r) => Pre(p, r)
    <3>1. Pre(p, e)
      BY <2>1, <2>4, PreFacts
    <3> QED BY <3>1, <2>1, PreFacts
  <2> QED BY <2>1, <2>2, <2>3, <2>4, <2>5
<1>h. h \in [from : AllRows, to : AllRows] /\ h.from = g /\ h.to = node[e]
  BY <1>2, <1>3
<1> HIDE DEF e, n
<1>4. n \in Nat /\ Len(q2) = n + 1 /\ q2[n + 1] = h /\ \A x \in 1..n : q2[x] = q[x]
  BY <1>q DEF n
<1>5. q2 \in Seq([from : AllRows, to : AllRows])
  BY <1>q, <1>h
<1>6. \A x \in lo..(n + 1) : x # n + 1 => x \in lo..n /\ x \in 1..n
  BY <1>4
<1>7. n + 1 \in lo..(n + 1)
  BY <1>4 DEF n
<1>8. path2 \in [lo..(n + 1) -> P]
  BY <1>q, <1>3, <1>6
<1>9. path2[n + 1] = e /\ \A x \in lo..(n + 1) : x # n + 1 => path2[x] = path[x]
  BY <1>7
<1> HIDE DEF path2
<1>10. ASSUME NEW r \in P, Edges(t, P, node, r) PROVE Edges(t2, P, node, r)
  <2>1. \A d \in Chars : t2[node[r]][d] = t[node[r]][d]
    BY <1>2, <1>t
  <2> QED BY <2>1, <1>10 DEF Edges
<1>11. Bounded(t2, label)
  <2>1. \A s \in AllRows, d \in Columns : t2[s][d] < usedstates
    BY <1>1, <1>t DEF Tree, Bounded
  <2>2. ASSUME NEW s \in AllRows
        PROVE  t2[s][KN] <= wordsnum /\ (t2[s][KN] \in {0, s} \/ Len(label[t2[s][KN]]) < Len(label[s]))
    BY <1>1, <1>2, <1>t DEF Tree, Bounded
  <2>3. \A s \in AllRows, d \in Chars : t2[s][d] = t[s][d]
    BY <1>2, <1>t
  <2>4. \A s \in AllRows, d \in Chars : Len(label[t2[s][d]]) <= Len(label[s]) + 1
    BY <2>3, <1>1 DEF Tree, Bounded
  <2> QED BY <2>1, <2>2, <2>4 DEF Bounded
<1>12. Tree(t2, P, node, label)
  BY <1>1, <1>11 DEF Tree
<1>13. ASSUME NEW x \in lo..(n + 1)
       PROVE  /\ path2[x] # <<>> /\ q2[x].to = node[path2[x]]
              /\ Len(label[q2[x].from]) < Len(path2[x])
  <2>1. CASE x = n + 1
    <3>1. Len(label[g]) \in Nat
      BY <1>1, TreeFacts
    <3> QED BY <3>1, <2>1, <1>3, <1>4, <1>9, <1>h
  <2>2. CASE x # n + 1
    BY <2>2, <1>4, <1>6, <1>9, <1>q
  <2> QED BY <2>1, <2>2
<1>14. \A x \in lo..n : ~Pre(path[x], e) /\ ~Pre(e, path[x])
  <2> SUFFICES ASSUME NEW x \in lo..n PROVE ~Pre(path[x], e) /\ ~Pre(e, path[x])
    OBVIOUS
  <2>1. path[x] \in P /\ path[x] \in Strings
    BY <1>q, <1>2
  <2>2. ~Pre(e, path[x]) /\ ~Pre(path[x], p)
    BY <1>1 DEF e
  <2> QED BY <2>1, <2>2, <1>3
<1>15. ASSUME NEW x \in lo..(n + 1), NEW y \in lo..(n + 1), Pre(path2[x], path2[y]) PROVE x = y
  BY <1>15, <1>6, <1>9, <1>14, <1>q
<1>16. ASSUME NEW x \in lo..(n + 1), NEW r \in P, Pre(path2[x], r) PROVE Edges(t2, P, node, r)
  <2>1. CASE x = n + 1
    <3>1. Pre(Ext(p, c), r)
      BY <2>1, <1>9, <1>16 DEF e
    <3> QED BY <3>1, <1>1, <1>10
  <2>2. CASE x # n + 1
    BY <2>2, <1>6, <1>9, <1>10, <1>16, <1>q
  <2> QED BY <2>1, <2>2
<1>17. Queued(t2, q2, lo, path2, P, node, label)
  BY <1>4, <1>5, <1>8, <1>13, <1>15, <1>16 DEF Queued
<1>18. \A x \in lo..(n + 1) : ~Pre(path2[x], p)
  BY <1>1, <1>3, <1>6, <1>9
<1>19. ASSUME NEW x \in lo..(n + 1), NEW d \in rem \ {c} PROVE ~Pre(Ext(p, d), path2[x])
  <2>1. CASE x = n + 1
    <3>1. ~Pre(Ext(p, d), Ext(p, c))
      BY <1>1, <1>3, ExtFacts
    <3> QED BY <3>1, <2>1, <1>9 DEF e
  <2>2. CASE x # n + 1
    BY <2>2, <1>1, <1>6, <1>9
  <2> QED BY <2>1, <2>2
<1>20. \A d \in rem \ {c} : t2[node[p]][d] = IF Ext(p, d) \in P THEN node[Ext(p, d)] ELSE 0
  <2>1. \A d \in Chars : t2[node[p]][d] = t[node[p]][d]
    BY <1>1, <1>2, <1>t
  <2> QED BY <2>1, <1>1
<1>21. \A d \in rem \ {c}, r \in P : Pre(Ext(p, d), r) => Edges(t2, P, node, r)
  BY <1>1, <1>10
<1>22. Fan(t2, q2, lo, path2, p, rem \ {c}, P, node, label)
  BY <1>1, <1>4, <1>12, <1>17, <1>18, <1>19, <1>20, <1>21 DEF Fan
<1> QED BY <1>22 DEF Fanned
-----------------------------------------------------------------------------
(* A state is visited.                                                       *)
Entries == [from : AllRows, to : AllRows]
Visitor == [states : [AllRows -> [Columns -> Nat]], queue : Seq(Entries)]

\* The state of p is visited, with h still at the head of the queue; rem is left.
VisitAt(a, p, rem, P, node, label) ==
  /\ a \in Visitor /\ Len(a.queue) >= 1
  /\ Fanned(a.states, a.queue, 2, p, rem, P, node, label)

\* One column.
LEMMA ColumnStep ==
  ASSUME wordlist \in Seq(Words), NEW a, NEW p, NEW rem, NEW P, NEW node, NEW label,
         VisitAt(a, p, rem, P, node, label), NEW c \in rem,
         NEW h \in Entries, h.to = node[p], Len(label[h.from]) < Len(p)
  PROVE  VisitAt(Column(a, h, c), p, rem \ {c}, P, node, label)
<1>1. a \in Visitor /\ Len(a.queue) >= 1
  BY DEF VisitAt
<1>2. PICK t, q, g, f : t = a.states /\ q = a.queue /\ g = h.from /\ f = t[g][c]
  OBVIOUS
<1>3. PICK path : Fan(t, q, 2, path, p, rem, P, node, label)
  BY <1>2 DEF VisitAt, Fanned
<1>4. /\ Tree(t, P, node, label) /\ p \in P /\ c \in Chars /\ Table(t)
      /\ t[node[p]][c] = IF Ext(p, c) \in P THEN node[Ext(p, c)] ELSE 0
      /\ Bounded(t, label)
  BY <1>3 DEF Fan, Tree
<1>5. /\ wordsnum \in Nat /\ usedstates \in Nat
      /\ \A s \in AllRows, d \in Columns : t[s][d] \in Nat /\ t[s][d] < usedstates /\ t[s][d] \in AllRows
      /\ \A s \in AllRows : label[s] \in Strings /\ Len(label[s]) \in Nat
      /\ \A r \in P : node[r] \in AllRows /\ label[node[r]] = r /\ r \in Strings
      /\ c \in Columns /\ KN \in Columns /\ KN \notin Chars /\ label[0] = <<>>
      /\ \A r \in P : node[r] \in Nat
  BY <1>4, TreeFacts
<1>6. g \in AllRows /\ Len(label[g]) < Len(p) /\ Len(p) \in Nat
  BY <1>2, <1>4, <1>5, StringFacts DEF Entries
<1>7. f \in AllRows /\ f \in Nat /\ f < usedstates /\ Len(label[f]) <= Len(p) /\ Len(label[f]) \in Nat
  <2>1. Len(label[f]) <= Len(label[g]) + 1
    BY <1>2, <1>4, <1>6 DEF Bounded
  <2>2. f \in AllRows /\ f \in Nat /\ f < usedstates
    BY <1>2, <1>5, <1>6
  <2> QED BY <2>1, <2>2, <1>5, <1>6
<1>8. t \in [AllRows -> [Columns -> Nat]] /\ q \in Seq(Entries)
  BY <1>1, <1>2 DEF Visitor
<1>9. CASE t[node[p]][c] # 0
  <2>1. PICK l : l = node[Ext(p, c)] /\ l = t[node[p]][c] /\ Ext(p, c) \in P
    BY <1>9, <1>4
  <2>2. l \in AllRows /\ label[l] = Ext(p, c) /\ Len(label[l]) = Len(p) + 1
    <3>1. Len(Ext(p, c)) = Len(p) + 1
      BY <1>4, <1>5, StringFacts
    <3> QED BY <2>1, <1>5, <3>1
  <2>3. PICK v : v = IF f \in 1..wordsnum THEN f ELSE t[f][KN]
    OBVIOUS
  <2>4. PICK t2 : t2 = IF t[f][KN] = 0 THEN t ELSE [t EXCEPT ![l][KN] = v]
    OBVIOUS
  <2>5. PICK e : e = [from |-> f, to |-> l]
    OBVIOUS
  <2>6. Column(a, h, c) = [states |-> t2, queue |-> Append(q, e)]
    <3>1. Column(a, h, c) = Child(a, l, f)
      BY <1>2, <1>9, <2>1 DEF Column
    <3> QED BY <3>1, <1>2, <2>3, <2>4, <2>5 DEF Child
  <2>7. t[f][KN] # 0 => v \in Nat /\ v < usedstates /\ v <= wordsnum /\ Len(label[v]) < Len(label[l])
    <3> SUFFICES ASSUME t[f][KN] # 0
                 PROVE  v \in Nat /\ v < usedstates /\ v <= wordsnum /\ Len(label[v]) < Len(label[l])
      OBVIOUS
    <3>1. PICK y : y = t[f][KN] /\ y \in Nat /\ y < usedstates /\ y \in AllRows
      BY <1>5, <1>7
    <3>2. y <= wordsnum /\ (y = f \/ Len(label[y]) < Len(label[f])) /\ Len(label[y]) \in Nat
      BY <3>1, <1>4, <1>5, <1>7 DEF Bounded
    <3>3. (v = f /\ f \in 1..wordsnum) \/ v = y
      BY <2>3, <3>1
    <3>4. v \in Nat /\ v < usedstates /\ v <= wordsnum
      BY <3>1, <3>2, <3>3, <1>5, <1>7
    <3>5. PICK x : x = Len(label[f])
      OBVIOUS
    <3>6. x \in Nat /\ x <= Len(p) /\ (y = f \/ Len(label[y]) < x)
      BY <3>2, <3>5, <1>7
    <3>7. v = f => Len(label[v]) < Len(p) + 1
      BY <3>5, <3>6, <1>6
    <3>8. v = y => Len(label[v]) < Len(p) + 1
      BY <3>2, <3>5, <3>6, <1>6
    <3> QED BY <3>3, <3>4, <3>7, <3>8, <2>2
  <2>8. Table(t2)
    BY <2>2, <2>4, <2>7, <1>4, <1>5 DEF Table
  <2>9. \A s \in AllRows, d \in Columns :
          \/ t2[s][d] = t[s][d]
          \/ /\ s = l /\ d = KN /\ t2[s][d] < usedstates /\ t2[s][d] <= wordsnum
             /\ Len(label[t2[s][d]]) < Len(label[s])
    <3>1. CASE t[f][KN] = 0
      BY <3>1, <2>4
    <3>2. CASE t[f][KN] # 0
      <4>1. \A s \in AllRows, d \in Columns : t2[s][d] = IF s = l /\ d = KN THEN v ELSE t[s][d]
        BY <3>2, <2>2, <2>4, <1>5, <1>8
      <4> QED BY <4>1, <3>2, <2>7
    <3> QED BY <3>1, <3>2
  <2>10. PICK q2 : q2 = Append(q, e)
    OBVIOUS
  <2>11. Fanned(t2, q2, 2, p, rem \ {c}, P, node, label)
    <3>1. 2 <= Len(q) + 1 /\ 2 >= 1 /\ 2 \in Nat
      BY <1>1, <1>2, <1>8
    <3>2. Linked(t2, t, label, node[Ext(p, c)])
      BY <2>1, <2>9 DEF Linked
    <3>3. e = [from |-> f, to |-> node[Ext(p, c)]] /\ Ext(p, c) \in P
      BY <2>1, <2>5
    <3> QED BY <3>1, <3>2, <3>3, <2>8, <2>10, <1>3, <1>7, FanChild, ZenonT(30)
  <2>12. e \in Entries /\ q2 \in Seq(Entries) /\ Len(q2) >= 1
    BY <2>2, <2>5, <2>10, <1>7, <1>8 DEF Entries
  <2>13. Column(a, h, c).states = t2 /\ Column(a, h, c).queue = q2 /\ Column(a, h, c) \in Visitor
    BY <2>6, <2>8, <2>10, <2>12 DEF Table, Visitor
  <2> QED BY <2>11, <2>12, <2>13 DEF VisitAt
<1>10. CASE t[node[p]][c] = 0
  <2>1. PICK t2 : t2 = [t EXCEPT ![node[p]][c] = f]
    OBVIOUS
  <2>2. Column(a, h, c) \in Visitor /\ Column(a, h, c).states = t2 /\ Column(a, h, c).queue = q
    BY <2>1, <1>1, <1>2, <1>4, <1>5, <1>7, <1>10 DEF Column, Visitor
  <2>3. Table(t2)
    BY <2>1, <1>4, <1>5, <1>7 DEF Table
  <2>4. \A s \in AllRows, d \in Columns : t2[s][d] = IF s = node[p] /\ d = c THEN f ELSE t[s][d]
    BY <2>1, <1>4, <1>5, <1>8
  <2>5. \A s \in AllRows, d \in Columns :
          \/ t2[s][d] = t[s][d]
          \/ /\ s = node[p] /\ d = c
             /\ t2[s][d] < usedstates /\ Len(label[t2[s][d]]) <= Len(label[s]) + 1
    <3>1. Len(label[f]) <= Len(label[node[p]]) + 1
      BY <1>4, <1>5, <1>6, <1>7
    <3> QED BY <3>1, <2>4, <1>7
  <2>6. Fan(t2, q, 2, path, p, rem \ {c}, P, node, label)
    BY <2>3, <2>5, <1>3, FanFill
  <2> QED BY <2>2, <2>6, <1>1, <1>2 DEF VisitAt, Fanned
<1> QED BY <1>9, <1>10

\* The characters of the alphabet behind the first j.
Left(j) == {Alphabet[k] : k \in (j + 1)..Len(Alphabet)}

LEMMA LeftFacts ==
  /\ Len(Alphabet) \in Nat /\ Left(0) = Chars /\ Left(Len(Alphabet)) = {}
  /\ \A j \in Nat : j < Len(Alphabet) =>
       Alphabet[j + 1] \in Left(j) /\ Left(j) \ {Alphabet[j + 1]} = Left(j + 1)
<1>1. /\ Len(Alphabet) \in Nat /\ DOMAIN Alphabet = 1..Len(Alphabet)
      /\ \A x, y \in 1..Len(Alphabet) : Alphabet[x] = Alphabet[y] => x = y
  BY MachineAssumption DEF IsInjective
<1>2. Left(0) = Chars
  <2>1. (0 + 1)..Len(Alphabet) = DOMAIN Alphabet
    BY <1>1
  <2> QED BY <2>1 DEF Left, Chars, ToSet
<1>3. Left(Len(Alphabet)) = {}
  BY <1>1 DEF Left
<1>4. ASSUME NEW j \in Nat, j < Len(Alphabet)
      PROVE  Alphabet[j + 1] \in Left(j) /\ Left(j) \ {Alphabet[j + 1]} = Left(j + 1)
  <2>1. /\ j + 1 \in (j + 1)..Len(Alphabet) /\ j + 1 \notin ((j + 1) + 1)..Len(Alphabet)
        /\ (j + 1)..Len(Alphabet) = {j + 1} \cup (((j + 1) + 1)..Len(Alphabet))
        /\ (j + 1)..Len(Alphabet) \subseteq 1..Len(Alphabet)
    BY <1>1, <1>4
  <2>2. \A x \in ((j + 1) + 1)..Len(Alphabet) : Alphabet[x] # Alphabet[j + 1]
    BY <1>1, <2>1
  <2> QED BY <2>1, <2>2 DEF Left
<1> QED BY <1>1, <1>2, <1>3, <1>4

\* The columns of a visit are a function, as Visit has it.
IsVisit(t, n, z, h) == t = [k \in 0..n |-> IF k = 0 THEN z ELSE Column(t[k - 1], h, Alphabet[k])]

LEMMA VisitExists ==
  ASSUME NEW n \in Nat, NEW z, NEW h
  PROVE  \E t : IsVisit(t, n, z, h)
<1> DEFINE P == {m \in Nat : \E t : t = [k \in 0..m |-> IF k = 0 THEN z ELSE Column(t[k - 1], h, Alphabet[k])]}
<1>1. 0 \in P
  <2> DEFINE t == [k \in 0..0 |-> z]
  <2>1. t = [k \in 0..0 |-> IF k = 0 THEN z ELSE Column(t[k - 1], h, Alphabet[k])]
    OBVIOUS
  <2> QED BY <2>1
<1>2. ASSUME NEW m \in Nat, m \in P PROVE m + 1 \in P
  <2>1. PICK t : t = [k \in 0..m |-> IF k = 0 THEN z ELSE Column(t[k - 1], h, Alphabet[k])]
    BY <1>2
  <2> DEFINE u == [k \in 0..(m + 1) |-> IF k = m + 1 THEN Column(t[m], h, Alphabet[k]) ELSE t[k]]
  <2>2. ASSUME NEW k \in 0..(m + 1) PROVE u[k] = IF k = 0 THEN z ELSE Column(u[k - 1], h, Alphabet[k])
    <3>1. CASE k = m + 1
      <4>1. k # 0 /\ k - 1 = m /\ m \in 0..(m + 1) /\ m # m + 1
        BY <3>1
      <4> QED BY <4>1, <3>1
    <3>2. CASE k # m + 1
      <4>1. k \in 0..m /\ u[k] = t[k]
        BY <3>2
      <4>2. t[k] = IF k = 0 THEN z ELSE Column(t[k - 1], h, Alphabet[k])
        BY <4>1, <2>1
      <4>3. CASE k = 0
        BY <4>1, <4>2, <4>3
      <4>4. CASE k # 0
        <5>1. k - 1 \in 0..(m + 1) /\ k - 1 # m + 1
          BY <4>1, <4>4
        <5> QED BY <5>1, <4>1, <4>2, <4>4
      <4> QED BY <4>3, <4>4
    <3> QED BY <3>1, <3>2
  <2>3. u = [k \in 0..(m + 1) |-> u[k]]
    OBVIOUS
  <2> HIDE DEF u
  <2>4. u = [k \in 0..(m + 1) |-> IF k = 0 THEN z ELSE Column(u[k - 1], h, Alphabet[k])]
    BY <2>2, <2>3
  <2> QED BY <2>4
<1> HIDE DEF P
<1>3. n \in P
  BY <1>1, <1>2, SetInduction
<1> QED BY <1>3 DEF P, IsVisit

\* Where a visit ends.
LEMMA VisitEnds ==
  ASSUME wordlist \in Seq(Words), NEW p, NEW P, NEW node, NEW label,
         VisitAt([states |-> states, queue |-> queue], p, Chars, P, node, label),
         NEW h \in Entries, h.to = node[p], Len(label[h.from]) < Len(p)
  PROVE  VisitAt(Visit(h), p, {}, P, node, label)
<1> DEFINE z == [states |-> states, queue |-> queue]
           n == Len(Alphabet)
           a[j \in 0..n] == IF j = 0 THEN z ELSE Column(a[j - 1], h, Alphabet[j])
           S == {j \in Nat : j <= n => VisitAt(a[j], p, Left(j), P, node, label)}
<1>0. n \in Nat
  BY LeftFacts
<1>1. a = [j \in 0..n |-> IF j = 0 THEN z ELSE Column(a[j - 1], h, Alphabet[j])]
  <2> HIDE DEF z
  <2>1. \E t : t = [k \in 0..n |-> IF k = 0 THEN z ELSE Column(t[k - 1], h, Alphabet[k])]
    <3>1. \E t : IsVisit(t, n, z, h)
      BY <1>0, VisitExists, Zenon
    <3> QED BY <3>1, Zenon DEF IsVisit
  <2> QED BY <2>1
<1>2. Visit(h) = a[n]
  BY DEF Visit
<1> HIDE DEF a, n
<1>3. 0 \in S
  <2>1. a[0] = z
    BY <1>0, <1>1
  <2> QED BY <2>1, LeftFacts
<1>4. ASSUME NEW j \in Nat, j \in S PROVE j + 1 \in S
  <2> SUFFICES ASSUME j + 1 <= n PROVE VisitAt(a[j + 1], p, Left(j + 1), P, node, label)
    OBVIOUS
  <2>1. j <= n /\ j < n /\ j + 1 \in 0..n /\ j + 1 # 0 /\ (j + 1) - 1 = j
    BY <1>0
  <2>2. VisitAt(a[j], p, Left(j), P, node, label)
    BY <2>1, <1>4
  <2>3. a[j + 1] = Column(a[j], h, Alphabet[j + 1])
    BY <1>1, <2>1
  <2>4. Alphabet[j + 1] \in Left(j) /\ Left(j) \ {Alphabet[j + 1]} = Left(j + 1)
    BY <2>1, LeftFacts DEF n
  <2> HIDE DEF S
  <2>5. VisitAt(Column(a[j], h, Alphabet[j + 1]), p, Left(j) \ {Alphabet[j + 1]}, P, node, label)
    BY <2>2, <2>4, ColumnStep, Zenon
  <2> QED BY <2>3, <2>4, <2>5
<1> HIDE DEF S
<1>5. n \in S
  BY <1>0, <1>3, <1>4, SetInduction
<1>6. VisitAt(a[n], p, Left(n), P, node, label)
  BY <1>0, <1>5 DEF S
<1> QED BY <1>2, <1>6, LeftFacts DEF n
-----------------------------------------------------------------------------
(* The walk through the tree.                                                *)
Waiting(t, q, P, node, label) ==
  Tree(t, P, node, label) /\ \E path : Queued(t, q, 1, path, P, node, label)

Filling == phase = "fill" => \E node, label : Waiting(states, queue, Known(wordsnum), node, label)

\* A visit begins at the head of the queue.
LEMMA VisitBegins ==
  ASSUME wordlist \in Seq(Words), NEW t, NEW q, NEW path, NEW P, NEW node, NEW label,
         Tree(t, P, node, label), Queued(t, q, 1, path, P, node, label), Len(q) # 0
  PROVE  /\ Fanned(t, q, 2, path[1], Chars, P, node, label) /\ Table(t)
         /\ q[1] \in Entries /\ q[1].to = node[path[1]] /\ Len(label[q[1].from]) < Len(path[1])
         /\ Len(q) >= 1 /\ q \in Seq(Entries)
<1> DEFINE n == Len(q)
           p == path[1]
           path2 == [x \in 2..n |-> path[x]]
<1>1. /\ q \in Seq(Entries) /\ path \in [1..n -> P]
      /\ \A x \in 1..n :
           path[x] # <<>> /\ q[x].to = node[path[x]] /\ Len(label[q[x].from]) < Len(path[x])
      /\ \A x, y \in 1..n : Pre(path[x], path[y]) => x = y
      /\ \A x \in 1..n, r \in P : Pre(path[x], r) => Edges(t, P, node, r)
  BY DEF Queued, Entries
<1>2. n \in Nat /\ n >= 1 /\ 1 \in 1..n /\ \A x \in 2..n : x \in 1..n /\ x # 1
  BY <1>1
<1>3. P \subseteq Strings /\ p \in P
  BY <1>1, <1>2 DEF Tree, Closed
<1>4. path2 \in [2..n -> P] /\ \A x \in 2..n : path2[x] = path[x]
  BY <1>1, <1>2
<1>5. q[1] \in Entries
  BY <1>1, <1>2
<1> HIDE DEF n, path2
<1>6. Queued(t, q, 2, path2, P, node, label)
  BY <1>1, <1>2, <1>4 DEF Queued, n, Entries
<1>7. \A x \in 2..n : ~Pre(path2[x], p)
  BY <1>1, <1>2, <1>4
<1>8. \A c \in Chars, r \in P : Pre(Ext(p, c), r) => Pre(p, r)
  BY <1>3, PreExt
<1> HIDE DEF p
<1>9. ASSUME NEW x \in 2..n, NEW c \in Chars PROVE ~Pre(Ext(p, c), path2[x])
  <2>1. path2[x] \in P /\ ~Pre(p, path2[x])
    BY <1>1, <1>2, <1>4 DEF p
  <2> QED BY <2>1, <1>8
<1>10. \A c \in Chars : t[node[p]][c] = IF Ext(p, c) \in P THEN node[Ext(p, c)] ELSE 0
  <2>1. Pre(p, p)
    BY <1>3, PreFacts
  <2>2. Edges(t, P, node, p)
    BY <2>1, <1>1, <1>2, <1>3 DEF p
  <2> QED BY <2>2 DEF Edges
<1>11. \A c \in Chars, r \in P : Pre(Ext(p, c), r) => Edges(t, P, node, r)
  BY <1>1, <1>2, <1>8 DEF p
<1>12. Fan(t, q, 2, path2, p, Chars, P, node, label)
  BY <1>3, <1>6, <1>7, <1>9, <1>10, <1>11 DEF Fan, n
<1> QED BY <1>1, <1>2, <1>5, <1>12 DEF Fanned, Tree, n, p

\* After it the state is no longer in the queue.
LEMMA VisitOver ==
  ASSUME NEW t, NEW q, NEW p, NEW rem, NEW P, NEW node, NEW label,
         Fanned(t, q, 2, p, rem, P, node, label), Len(q) >= 1
  PROVE  Waiting(t, Tail(q), P, node, label)
<1>1. PICK path : Fan(t, q, 2, path, p, rem, P, node, label)
  BY DEF Fanned
<1>2. Tree(t, P, node, label) /\ Queued(t, q, 2, path, P, node, label)
  BY <1>1 DEF Fan
<1> DEFINE n == Len(q)
           r == Tail(q)
           path2 == [x \in 1..(n - 1) |-> path[x + 1]]
<1>3. /\ q \in Seq(Entries) /\ path \in [2..n -> P]
      /\ \A x \in 2..n :
           path[x] # <<>> /\ q[x].to = node[path[x]] /\ Len(label[q[x].from]) < Len(path[x])
      /\ \A x, y \in 2..n : Pre(path[x], path[y]) => x = y
      /\ \A x \in 2..n, s \in P : Pre(path[x], s) => Edges(t, P, node, s)
  BY <1>2 DEF Queued, Entries
<1>4. n \in Nat /\ n >= 1 /\ \A x \in 1..(n - 1) : x + 1 \in 2..n
  BY <1>3
<1>5. r \in Seq(Entries) /\ Len(r) = n - 1 /\ \A x \in 1..(n - 1) : r[x] = q[x + 1]
  <2>1. q # <<>>
    BY <1>4
  <2> QED BY <2>1, <1>3
<1>6. path2 \in [1..(n - 1) -> P] /\ \A x \in 1..(n - 1) : path2[x] = path[x + 1]
  BY <1>3, <1>4
<1> HIDE DEF n, r, path2
<1>7. \A x, y \in 1..(n - 1) : Pre(path2[x], path2[y]) => x = y
  <2> SUFFICES ASSUME NEW x \in 1..(n - 1), NEW y \in 1..(n - 1), Pre(path2[x], path2[y]) PROVE x = y
    OBVIOUS
  <2>1. x + 1 = y + 1
    BY <1>3, <1>4, <1>6
  <2> QED BY <2>1
<1>8. Queued(t, r, 1, path2, P, node, label)
  <2>1. \A x \in 1..(n - 1) :
          path2[x] # <<>> /\ r[x].to = node[path2[x]] /\ Len(label[r[x].from]) < Len(path2[x])
    <3> TAKE x \in 1..(n - 1)
    <3>1. r[x] = q[x + 1] /\ path2[x] = path[x + 1] /\ x + 1 \in 2..n
      BY <1>4, <1>5, <1>6
    <3>2. \A y \in 2..n : path[y] # <<>> /\ q[y].to = node[path[y]] /\ Len(label[q[y].from]) < Len(path[y])
      BY <1>3
    <3> HIDE DEF n
    <3> QED BY <3>1, <3>2, Zenon
  <2>2. \A x \in 1..(n - 1), s \in P : Pre(path2[x], s) => Edges(t, P, node, s)
    BY <1>3, <1>4, <1>6
  <2> QED BY <2>1, <2>2, <1>5, <1>6, <1>7 DEF Queued, Entries
<1> QED BY <1>2, <1>8 DEF Waiting, r

\* No more states wait than there are words: each waits on the way to another word.
LEMMA FewWait ==
  ASSUME wordlist \in Seq(Words), NEW t, NEW q, NEW node, NEW label,
         Waiting(t, q, Known(wordsnum), node, label)
  PROVE  Len(q) <= wordsnum
<1>1. PICK path : Queued(t, q, 1, path, Known(wordsnum), node, label)
  BY DEF Waiting
<1>2. /\ q \in Seq(Entries) /\ path \in [1..Len(q) -> Known(wordsnum)]
      /\ \A x \in 1..Len(q) : path[x] # <<>>
      /\ \A x, y \in 1..Len(q) : Pre(path[x], path[y]) => x = y
  BY <1>1 DEF Queued, Entries
<1>3. Len(q) \in Nat /\ wordsnum \in Nat
  BY <1>2, WordFacts
<1>4. \A x \in 1..Len(q) : path[x] \in Strings /\ \E i \in 1..wordsnum : Pre(path[x], Word(i))
  BY <1>2 DEF Known
<1>5. \A i \in 1..wordsnum : Word(i) \in Strings
  BY WordFacts, FoldedFacts DEF Word
<1> DEFINE g == [x \in 1..Len(q) |-> CHOOSE i \in 1..wordsnum : Pre(path[x], Word(i))]
<1>6. \A x \in 1..Len(q) : g[x] \in 1..wordsnum /\ Pre(path[x], Word(g[x]))
  BY <1>4
<1> HIDE DEF g
<1>7. ASSUME NEW x \in 1..Len(q), NEW y \in 1..Len(q), g[x] = g[y] PROVE x = y
  <2>1. Pre(path[x], path[y]) \/ Pre(path[y], path[x])
    BY <1>4, <1>5, <1>6, <1>7, PreFacts
  <2> QED BY <2>1, <1>2
<1>8. ~(Len(q) > wordsnum)
  <2>1. g \in [1..Len(q) -> 1..wordsnum]
    BY <1>6 DEF g
  <2>2. ASSUME NEW m \in Nat PROVE IsFiniteSet(1..m) /\ Cardinality(1..m) = m
    <3>1. 1 \in Int /\ m \in Int /\ m - 1 + 1 = m /\ (1 > m => m = 0)
      OBVIOUS
    <3> QED BY <3>1, FS_Interval
  <2>3. ~(Cardinality(1..wordsnum) < Cardinality(1..Len(q)))
    <3> SUFFICES ASSUME Cardinality(1..wordsnum) < Cardinality(1..Len(q)) PROVE FALSE
      OBVIOUS
    <3>1. IsFiniteSet(1..wordsnum) /\ IsFiniteSet(1..Len(q))
      BY <2>2, <1>3
    <3>2. \E x, y \in 1..Len(q) : x # y /\ g[x] = g[y]
      BY <2>1, <3>1, FS_PigeonHole
    <3> QED BY <3>2, <1>7
  <2> QED BY <2>2, <2>3, <1>3
<1> QED BY <1>3, <1>8

\* One character of FirstStates.
FirstOf(q, j) ==
  LET l == states[0][Alphabet[j]]
  IN  IF l = 0 THEN q ELSE Append(q, [from |-> 0, to |-> l])

IsFirst(t, n) == t = [k \in 0..n |-> IF k = 0 THEN <<>> ELSE FirstOf(t[k - 1], k)]

LEMMA FirstExists ==
  ASSUME NEW n \in Nat
  PROVE  \E t : IsFirst(t, n)
<1> DEFINE P == {m \in Nat : \E t : t = [k \in 0..m |-> IF k = 0 THEN <<>> ELSE FirstOf(t[k - 1], k)]}
<1>1. 0 \in P
  <2> DEFINE t == [k \in 0..0 |-> <<>>]
  <2>1. t = [k \in 0..0 |-> IF k = 0 THEN <<>> ELSE FirstOf(t[k - 1], k)]
    OBVIOUS
  <2> QED BY <2>1
<1>2. ASSUME NEW m \in Nat, m \in P PROVE m + 1 \in P
  <2>1. PICK t : t = [k \in 0..m |-> IF k = 0 THEN <<>> ELSE FirstOf(t[k - 1], k)]
    BY <1>2
  <2> DEFINE u == [k \in 0..(m + 1) |-> IF k = m + 1 THEN FirstOf(t[m], k) ELSE t[k]]
  <2>2. ASSUME NEW k \in 0..(m + 1) PROVE u[k] = IF k = 0 THEN <<>> ELSE FirstOf(u[k - 1], k)
    <3>1. CASE k = m + 1
      <4>1. k # 0 /\ k - 1 = m /\ m \in 0..(m + 1) /\ m # m + 1
        BY <3>1
      <4> QED BY <4>1, <3>1
    <3>2. CASE k # m + 1
      <4>1. k \in 0..m /\ u[k] = t[k]
        BY <3>2
      <4>2. t[k] = IF k = 0 THEN <<>> ELSE FirstOf(t[k - 1], k)
        BY <4>1, <2>1
      <4>3. CASE k = 0
        BY <4>1, <4>2, <4>3
      <4>4. CASE k # 0
        <5>1. k - 1 \in 0..(m + 1) /\ k - 1 # m + 1
          BY <4>1, <4>4
        <5> QED BY <5>1, <4>1, <4>2, <4>4
      <4> QED BY <4>3, <4>4
    <3> QED BY <3>1, <3>2
  <2>3. u = [k \in 0..(m + 1) |-> u[k]]
    OBVIOUS
  <2> HIDE DEF u
  <2>4. u = [k \in 0..(m + 1) |-> IF k = 0 THEN <<>> ELSE FirstOf(u[k - 1], k)]
    BY <2>2, <2>3
  <2> QED BY <2>4
<1> HIDE DEF P
<1>3. n \in P
  BY <1>1, <1>2, SetInduction
<1> QED BY <1>3 DEF P, IsFirst

\* One character: the child of state 0 is queued.
LEMMA FirstStep ==
  ASSUME wordlist \in Seq(Words), NEW q \in Seq(Entries), NEW rem, NEW P, NEW node, NEW label,
         Fanned(states, q, 1, <<>>, rem, P, node, label),
         NEW j, Alphabet[j] \in rem
  PROVE  /\ FirstOf(q, j) \in Seq(Entries)
         /\ Fanned(states, FirstOf(q, j), 1, <<>>, rem \ {Alphabet[j]}, P, node, label)
<1>1. PICK c, p, g : c = Alphabet[j] /\ p = <<>> /\ g = 0
  OBVIOUS
<1>2. PICK path : Fan(states, q, 1, path, p, rem, P, node, label)
  BY <1>1 DEF Fanned
<1>3. PICK t : t = states
  OBVIOUS
<1>4. /\ Tree(t, P, node, label) /\ p \in P /\ c \in rem /\ c \in Chars /\ Table(t)
      /\ t[node[p]][c] = IF Ext(p, c) \in P THEN node[Ext(p, c)] ELSE 0
  BY <1>1, <1>2, <1>3 DEF Fan, Tree
<1>5. /\ \A r \in P : node[r] \in AllRows
      /\ g \in AllRows /\ label[g] = <<>> /\ node[p] = 0 /\ Len(p) = 0 /\ Len(label[g]) <= Len(p)
      /\ \A s \in AllRows : Len(label[s]) \in Nat
  BY <1>1, <1>4, TreeFacts
<1>6. CASE t[0][c] = 0
  <2>1. FirstOf(q, j) = q
    BY <1>1, <1>3, <1>6 DEF FirstOf
  <2>2. Fan(t, q, 1, path, p, rem \ {c}, P, node, label)
    <3>1. \A s \in AllRows, d \in Columns : t[s][d] = t[s][d]
      OBVIOUS
    <3> QED BY <3>1, <1>2, <1>3, <1>4, FanFill
  <2> QED BY <2>1, <2>2, <1>1, <1>3 DEF Fanned
<1>7. CASE t[0][c] # 0
  <2>1. Ext(p, c) \in P /\ t[0][c] = node[Ext(p, c)]
    BY <1>4, <1>5, <1>7
  <2>2. PICK h : h = [from |-> g, to |-> node[Ext(p, c)]]
    OBVIOUS
  <2>3. PICK q2 : q2 = Append(q, h)
    OBVIOUS
  <2>4. h \in Entries /\ q2 \in Seq(Entries)
    BY <2>1, <2>2, <2>3, <1>5 DEF Entries
  <2>5. FirstOf(q, j) = q2
    BY <2>1, <2>2, <2>3, <1>1, <1>3, <1>7 DEF FirstOf
  <2>6. 1 <= Len(q) + 1 /\ 1 >= 1 /\ 1 \in Nat
    OBVIOUS
  <2>7. Linked(t, t, label, node[Ext(p, c)])
    BY DEF Linked
  <2>8. Fan(t, q, 1, path, p, rem, P, node, label)
    BY <1>2, <1>3
  <2>9. Fanned(t, q2, 1, p, rem \ {c}, P, node, label)
    BY <2>1, <2>2, <2>3, <2>6, <2>7, <2>8, <1>4, <1>5, FanChild, ZenonT(30)
  <2> QED BY <2>4, <2>5, <2>9, <1>1, <1>3
<1> QED BY <1>6, <1>7

\* The states of depth 1, all of them.
LEMMA FirstEnds ==
  ASSUME wordlist \in Seq(Words), NEW P, NEW node, NEW label,
         Fanned(states, <<>>, 1, <<>>, Chars, P, node, label)
  PROVE  Fanned(states, FirstStates, 1, <<>>, {}, P, node, label)
<1> DEFINE n == Len(Alphabet)
           a[j \in 0..n] == IF j = 0 THEN <<>> ELSE FirstOf(a[j - 1], j)
           At(j) == a[j] \in Seq(Entries) /\ Fanned(states, a[j], 1, <<>>, Left(j), P, node, label)
           S == {j \in Nat : j <= n => At(j)}
<1>0. n \in Nat
  BY LeftFacts
<1>1. a = [j \in 0..n |-> IF j = 0 THEN <<>> ELSE FirstOf(a[j - 1], j)]
  <2>1. \E t : t = [k \in 0..n |-> IF k = 0 THEN <<>> ELSE FirstOf(t[k - 1], k)]
    <3>1. \E t : IsFirst(t, n)
      BY <1>0, FirstExists, Zenon
    <3> QED BY <3>1, Zenon DEF IsFirst
  <2> QED BY <2>1
<1>2. FirstStates = a[n]
  BY DEF FirstStates, FirstOf
<1> HIDE DEF a, n
<1>3. 0 \in S
  <2>1. a[0] = <<>> /\ <<>> \in Seq(Entries)
    BY <1>0, <1>1
  <2> QED BY <2>1, LeftFacts
<1>4. ASSUME NEW j \in Nat, j \in S PROVE j + 1 \in S
  <2> SUFFICES ASSUME j + 1 <= n PROVE At(j + 1)
    OBVIOUS
  <2>1. j <= n /\ j < n /\ j + 1 \in 0..n /\ j + 1 # 0 /\ (j + 1) - 1 = j
    BY <1>0
  <2>2. At(j)
    BY <2>1, <1>4
  <2>3. a[j + 1] = FirstOf(a[j], j + 1)
    BY <1>1, <2>1
  <2>4. Alphabet[j + 1] \in Left(j) /\ Left(j) \ {Alphabet[j + 1]} = Left(j + 1)
    BY <2>1, LeftFacts DEF n
  <2>5. /\ FirstOf(a[j], j + 1) \in Seq(Entries)
        /\ Fanned(states, FirstOf(a[j], j + 1), 1, <<>>, Left(j) \ {Alphabet[j + 1]}, P, node, label)
    BY <2>2, <2>4, FirstStep, Zenon
  <2> QED BY <2>3, <2>4, <2>5
<1> HIDE DEF S, At
<1>5. n \in S
  BY <1>0, <1>3, <1>4, SetInduction
<1>6. At(n)
  BY <1>0, <1>5 DEF S
<1> QED BY <1>2, <1>6, LeftFacts DEF n, At

\* When the words are inserted, their states are a tree.
LEMMA ShapeTree ==
  ASSUME wordlist \in Seq(Words), NEW t, NEW node, NEW label,
         Shape(t, usedstates, wordsnum, Known(wordsnum), node, label)
  PROVE  /\ Tree(t, Known(wordsnum), node, label)
         /\ Fanned(t, <<>>, 1, <<>>, Chars, Known(wordsnum), node, label)
<1> DEFINE P == Known(wordsnum)
<1>1. /\ Closed(P) /\ Table(t) /\ Nodes(usedstates, P, node, label)
      /\ \A p \in P : Edges(t, P, node, p)
      /\ usedstates \in Nat /\ wordsnum < usedstates /\ usedstates <= Rows
      /\ \A s \in AllRows, c \in Columns : t[s][c] < usedstates
      /\ \A s \in AllRows : t[s][KN] \in {0, s} /\ t[s][KN] <= wordsnum
      /\ \A s \in AllRows, c \in Chars : t[s][c] # 0 => label[t[s][c]] = Ext(label[s], c)
  BY DEF Shape
<1>2. /\ <<>> \in P /\ label[0] = <<>> /\ Len(<<>>) = 0
      /\ \A s \in AllRows : label[s] \in Strings /\ Len(label[s]) \in Nat
  <2>1. <<>> \in P
    BY <1>1 DEF Closed
  <2>2. label[0] = <<>>
    BY <2>1, <1>1 DEF Nodes
  <2>3. \A s \in AllRows : label[s] \in Strings
    BY <1>1 DEF Nodes
  <2> QED BY <2>1, <2>2, <2>3, StringFacts
<1> HIDE DEF P
<1>3. ASSUME NEW s \in AllRows, NEW c \in Chars PROVE Len(label[t[s][c]]) <= Len(label[s]) + 1
  <2>1. CASE t[s][c] = 0
    BY <2>1, <1>2
  <2>2. CASE t[s][c] # 0
    <3>1. label[t[s][c]] = Ext(label[s], c)
      BY <2>2, <1>1
    <3>2. Len(Ext(label[s], c)) = Len(label[s]) + 1
      BY <1>2, StringFacts
    <3> QED BY <3>1, <3>2, <1>2
  <2> QED BY <2>1, <2>2
<1>4. Tree(t, P, node, label)
  BY <1>1, <1>3 DEF Tree, Bounded
<1>5. PICK path : path = [x \in 1..0 |-> <<>>]
  OBVIOUS
<1>6. \A x : x \notin 1..Len(<<>>)
  BY <1>2
<1>7. Queued(t, <<>>, 1, path, P, node, label)
  <2>1. path \in [1..Len(<<>>) -> P]
    BY <1>2, <1>5
  <2> QED BY <2>1, <1>6 DEF Queued
<1>8. Fan(t, <<>>, 1, path, <<>>, Chars, P, node, label)
  BY <1>1, <1>2, <1>4, <1>6, <1>7 DEF Fan, Edges
<1> QED BY <1>4, <1>8 DEF Fanned, P
-----------------------------------------------------------------------------
(* The phases of Prepare.                                                    *)
\* What the words leave and what the walk keeps are tables that lead nowhere outside.
LEMMA ShapeInside ==
  ASSUME wordlist \in Seq(Words), NEW t, NEW used, NEW m \in Nat, NEW P, Shaped(t, used, m, P)
  PROVE  Inside(t, used, Rows, wordsnum) /\ used \in Nat
<1>1. PICK node, label : Shape(t, used, m, P, node, label)
  BY DEF Shaped
<1>2. wordsnum \in Nat
  BY WordFacts
<1> QED BY <1>1, <1>2 DEF Shape, Inside, Table, AllRows

LEMMA TreeInside ==
  ASSUME wordlist \in Seq(Words), NEW t, NEW P, NEW node, NEW label, Tree(t, P, node, label)
  PROVE  Inside(t, usedstates, Rows, wordsnum)
<1>1. wordsnum \in Nat
  BY WordFacts
<1> QED BY <1>1 DEF Tree, Bounded, Inside, Table, AllRows

\* The empty table holds no word.
LEMMA ZeroShape ==
  ASSUME wordlist \in Seq(Words), NEW t, t = [s \in 0..(Rows - 1) |-> [c \in Columns |-> 0]]
  PROVE  Shaped(t, wordsnum + 1, 0, {<<>>})
<1> DEFINE node == [p \in {<<>>} |-> 0]
           label == [s \in AllRows |-> <<>>]
           k == wordsnum + 1
<1>1. /\ wordsnum \in Nat /\ k \in Nat /\ wordsnum < k /\ k <= Rows /\ 0 \in AllRows /\ Rows \in Nat
  <2>1. wordsnum \in Nat /\ wordslength \in Nat /\ lengths[0] = 0 /\ wordslength - lengths[0] >= wordsnum - 0
    BY WordFacts, LengthsFacts
  <2> QED BY <2>1 DEF Rows, AllRows
<1>2. Table(t) /\ \A s \in AllRows, c \in Columns : t[s][c] = 0
  BY DEF Table, AllRows
<1>3. Closed({<<>>})
  BY StringFacts, ExtFacts DEF Closed
<1>4. Nodes(k, {<<>>}, node, label)
  BY <1>1, StringFacts DEF Nodes
<1>5. \A p \in {<<>>} : Edges(t, {<<>>}, node, p)
  <2>1. Chars \subseteq Columns
    BY DEF Columns
  <2>2. \A c \in Chars : Ext(<<>>, c) \notin {<<>>}
    BY StringFacts, ExtFacts
  <2> QED BY <2>1, <2>2, <1>1, <1>2 DEF Edges
<1>6. 0 \notin Later(0)
  BY DEF Later
<1>7. KN \in Columns /\ Chars \subseteq Columns
  BY DEF Columns
<1> HIDE DEF node, label, k
<1>8. \A p \in {<<>>} : node[p] \notin Later(0)
  BY <1>4, <1>6 DEF Nodes
<1>9. /\ \A s \in AllRows, c \in Columns : t[s][c] < k /\ t[s][c] \notin Later(0)
      /\ \A s \in AllRows : t[s][KN] = 0 /\ t[s][KN] <= wordsnum
      /\ \A s \in AllRows, c \in Chars : t[s][c] = 0
  <2>1. 0 < k /\ 0 <= wordsnum
    BY <1>1 DEF k
  <2>2. \A s \in AllRows, c \in Columns : t[s][c] = 0 /\ 0 < k /\ 0 \notin Later(0)
    BY <2>1, <1>2, <1>6
  <2> QED BY <2>1, <2>2, <1>7, Zenon
<1>11. Owned(0, {<<>>}, node) /\ Plain(t, {<<>>}, node)
  <2>1. 1..0 = {} /\ 0 \notin 1..wordsnum /\ node[<<>>] = 0
    BY DEF node
  <2> QED BY <2>1, <1>1, <1>2, <1>7 DEF Owned, Plain, Own
<1>10. Shape(t, k, 0, {<<>>}, node, label)
  BY <1>11, <1>1, <1>2, <1>3, <1>4, <1>5, <1>8, <1>9 DEF Shape
<1> QED BY <1>10 DEF Shaped, k

\* Along the KN column the words get shorter.
Ranked(t) ==
  \E rank \in [DOMAIN t -> Nat] :
    \A s \in DOMAIN t : t[s][KN] = s \/ (t[s][KN] \in DOMAIN t /\ rank[t[s][KN]] < rank[s])

Idling == phase = "idle" /\ states # <<>> => Ranked(states)

LEMMA TreeRanked ==
  ASSUME wordlist \in Seq(Words), NEW t, NEW P, NEW node, NEW label, Tree(t, P, node, label)
  PROVE  Ranked(t)
<1> DEFINE rank == [s \in AllRows |-> IF s = 0 THEN 0 ELSE Len(label[s]) + 1]
<1>1. /\ \A s \in AllRows : t[s][KN] \in AllRows /\ Len(label[s]) \in Nat
      /\ 0 \in AllRows /\ Len(label[0]) = 0
  BY TreeFacts, StringFacts
<1>2. /\ DOMAIN t = AllRows
      /\ \A s \in AllRows : t[s][KN] \in {0, s} \/ Len(label[t[s][KN]]) < Len(label[s])
  BY DEF Tree, Bounded, Table
<1>3. rank \in [AllRows -> Nat] /\ rank[0] = 0 /\ \A s \in AllRows : s # 0 => rank[s] = Len(label[s]) + 1
  BY <1>1
<1> HIDE DEF rank
<1>4. ASSUME NEW s \in AllRows PROVE t[s][KN] = s \/ (t[s][KN] \in AllRows /\ rank[t[s][KN]] < rank[s])
  <2>1. PICK n : n = t[s][KN] /\ n \in AllRows
    BY <1>1
  <2>2. CASE n = s
    BY <2>1, <2>2
  <2>3. CASE n # s /\ n = 0
    <3>1. rank[s] = Len(label[s]) + 1 /\ Len(label[s]) \in Nat
      BY <2>3, <1>1, <1>3
    <3> QED BY <3>1, <2>1, <2>3, <1>3
  <2>4. CASE n # s /\ n # 0
    <3>1. Len(label[n]) < Len(label[s]) /\ Len(label[n]) \in Nat /\ Len(label[s]) \in Nat
      BY <2>1, <2>4, <1>1, <1>2
    <3>2. s # 0
      BY <3>1, <1>1
    <3> QED BY <3>1, <3>2, <2>1, <2>4, <1>3
  <2> QED BY <2>2, <2>3, <2>4
<1> QED BY <1>2, <1>3, <1>4 DEF Ranked
-----------------------------------------------------------------------------
(* The inductive invariant, and the steps of Prepare.                        *)
IInv ==
  /\ TypeOK /\ TableInv /\ PhaseInv /\ Inserting /\ Filling /\ Idling
  /\ findword \in Seq(Nat)

\* A table with a row is not the empty one.
LEMMA NotEmpty ==
  ASSUME NEW R \in Nat, R >= 1, NEW S, NEW t \in [0..(R - 1) -> S]
  PROVE  t # <<>>
<1>1. 0 \in DOMAIN t /\ 0 \notin DOMAIN <<>>
  OBVIOUS
<1> QED BY <1>1

LEMMA ShapedSteady ==
  ASSUME wordlist' = wordlist, NEW t, NEW used, NEW m, NEW P, Shaped(t, used, m, P),
         matchcase' = matchcase \/ m = 0
  PROVE  Shaped(t, used, m, P)'
BY ShapeSteady DEF Shaped

LEMMA TreeSteady ==
  ASSUME wordlist' = wordlist, usedstates' = usedstates, NEW t, NEW P, NEW node, NEW label
  PROVE  /\ Tree(t, P, node, label) => Tree(t, P, node, label)'
         /\ \A q : Waiting(t, q, P, node, label) => Waiting(t, q, P, node, label)'
<1>1. Tree(t, P, node, label) => Tree(t, P, node, label)'
  BY Steady DEF Tree, Table, Nodes, Bounded
<1>2. \A q, path : Queued(t, q, 1, path, P, node, label) => Queued(t, q, 1, path, P, node, label)'
  BY Steady DEF Queued
<1> QED BY <1>1, <1>2 DEF Waiting

\* A table inside its rows is one that Made describes.
LEMMA TableStep ==
  ASSUME TypeOK, wordlist' = wordlist, prepared' = wordsnum, wordsnum >= 1, usedstates' \in Nat,
         Inside(states', usedstates', Rows, wordsnum)
  PROVE  /\ TableInv' /\ states' # <<>> /\ DOMAIN states' = AllRows
         /\ \A s \in DOMAIN states' : states'[s] \in [Columns -> Nat]
<1>1. Rows \in Nat /\ Rows >= 1 /\ wordsnum \in Nat
  <2>1. wordsnum \in Nat /\ wordslength \in Nat
    BY WordFacts, LengthsFacts DEF TypeOK
  <2> QED BY <2>1 DEF Rows
<1>2. states' \in [0..(Rows - 1) -> [Columns -> Nat]]
  BY DEF Inside
<1>3. states' # <<>>
  BY <1>1, <1>2, NotEmpty
<1>4. Made(Rows)'
  <2>1. Rows' = Rows /\ wordsnum' = wordsnum
    BY Steady
  <2> QED BY <2>1, <1>1 DEF Made, Inside
<1>5. TableInv'
  <2>1. Rows' = Rows
    BY Steady
  <2> QED BY <2>1, <1>1, <1>4 DEF TableInv
<1> QED BY <1>2, <1>3, <1>5 DEF AllRows

\* Prepare begins.
LEMMA PrepareInv ==
  ASSUME IInv, NEW b \in Models, Prepare(b)
  PROVE  IInv'
<1>1. /\ TypeOK /\ PhaseInv /\ wordlist \in Seq(Words)
      /\ phase = "idle" /\ call = "none" /\ queue = <<>> /\ findword \in Seq(Nat)
  BY DEF IInv, TypeOK, PhaseInv, Prepare, Idle
<1>2. /\ wordlist' = wordlist /\ findnum' = findnum /\ totalfind' = totalfind /\ queue' = queue
      /\ usedstates' = wordsnum + 1 /\ matchcase' = b /\ phase' = "insert" /\ next_word' = 1
      /\ prepared' = wordsnum /\ wordsnum >= 1
      /\ call' = call /\ state' = state /\ text' = text /\ word' = word /\ findword' = findword
      /\ full' = full /\ undefined' = undefined
      /\ states' = [s \in 0..(Rows - 1) |-> [c \in Columns |-> 0]]
  BY DEF Prepare, entry, search
<1>3. wordsnum' = wordsnum /\ Rows' = Rows /\ lengths' = lengths
  BY <1>2, Steady
<1>4. PICK t : t = states'
  OBVIOUS
<1>5. Shaped(t, wordsnum + 1, 0, {<<>>})
  BY <1>1, <1>2, <1>4, ZeroShape
<1>6. Inside(t, wordsnum + 1, Rows, wordsnum) /\ wordsnum + 1 \in Nat
  <2>1. 0 \in Nat
    OBVIOUS
  <2> QED BY <2>1, <1>1, <1>5, ShapeInside
<1>7. /\ TableInv' /\ states' # <<>> /\ DOMAIN states' = AllRows
      /\ \A s \in DOMAIN states' : states'[s] \in [Columns -> Nat]
  BY <1>1, <1>2, <1>4, <1>6, TableStep
<1>8. Inserting'
  <2>1. wordsnum \in Nat /\ lengths[0] = 0
    BY <1>1, WordFacts, LengthsFacts
  <2>2. Known(0)' = {<<>>}
    <3>1. 1..0 = {} /\ <<>> \in Strings
      BY StringFacts
    <3> QED BY <3>1 DEF Known
  <2>3. PICK k : k = wordsnum + 1
    OBVIOUS
  <2>7. Shaped(t, k, 0, {<<>>})'
    BY <2>3, <1>2, <1>5, ShapedSteady
  <2>4. Shaped(states, usedstates, next_word - 1, Known(next_word - 1))'
    <3>1. next_word' - 1 = 0
      BY <1>2
    <3> QED BY <3>1, <2>2, <2>3, <2>7, <1>2, <1>3, <1>4
  <2>5. next_word' \in 1..(wordsnum' + 1)
    BY <2>1, <1>2, <1>3
  <2>6. usedstates' + (next_word' - 1) <= wordsnum' + 1 + lengths'[next_word' - 1]
    <3>1. next_word' - 1 = 0 /\ lengths'[next_word' - 1] = 0
      BY <2>1, <1>2, <1>3
    <3> QED BY <3>1, <2>1, <1>2, <1>3
  <2> QED BY <2>4, <2>5, <2>6 DEF Inserting
<1>9. PhaseInv' /\ Filling' /\ Idling'
  BY <1>1, <1>2, <1>3, <1>7 DEF PhaseInv, Filling, Idling
<1>10. TypeOK'
  <2>1. wordsnum \in Nat /\ Models \subseteq BOOLEAN
    BY <1>1, WordFacts, MachineAssumption
  <2>2. /\ wordlist' \in Seq(Words) /\ findnum' \in [1..wordsnum' -> Nat] /\ totalfind' \in Nat
        /\ text' \in Seq(Chars) /\ word' \in 0..wordsnum' /\ full' \in BOOLEAN /\ undefined' \in BOOLEAN
        /\ \A j \in 1..Len(findword') : findword'[j] \in 1..wordsnum'
    BY <1>1, <1>2, <1>3 DEF TypeOK
  <2>3. \A j \in 1..Len(queue') : {queue'[j].from, queue'[j].to} \subseteq DOMAIN states'
    <3>1. 1..Len(queue') = {}
      BY <1>1, <1>2
    <3> QED BY <3>1
  <2>4. /\ usedstates' \in Nat /\ matchcase' \in BOOLEAN /\ prepared' \in 0..wordsnum'
        /\ phase' = "insert" /\ next_word' \in Nat /\ call' = "none"
    BY <2>1, <1>1, <1>2, <1>3
  <2> QED BY <2>2, <2>3, <2>4, <1>7 DEF TypeOK
<1> QED BY <1>1, <1>2, <1>7, <1>8, <1>9, <1>10 DEF IInv

\* What every later step of Prepare leaves as it is.
LEMMA BuildStep ==
  ASSUME IInv, phase # "idle", UNCHANGED <<entry, matchcase, prepared, search>>,
         phase' \in {"idle", "insert", "fill"}, next_word' \in Nat, usedstates' \in Nat,
         Inside(states', usedstates', Rows, wordsnum), queue' \in Seq(Entries)
  PROVE  /\ TypeOK' /\ TableInv' /\ findword' \in Seq(Nat)
         /\ (phase' # "fill" => queue' = <<>>) => PhaseInv'
<1>1. /\ TypeOK /\ PhaseInv /\ wordlist \in Seq(Words) /\ findword \in Seq(Nat)
      /\ call = "none" /\ word = 0 /\ findword = <<>>
      /\ prepared = wordsnum /\ wordsnum >= 1 /\ matchcase \in BOOLEAN
  BY DEF IInv, TypeOK, PhaseInv
<1>2. /\ wordlist' = wordlist /\ findnum' = findnum /\ totalfind' = totalfind
      /\ matchcase' = matchcase /\ prepared' = prepared
      /\ call' = call /\ state' = state /\ text' = text /\ word' = word /\ findword' = findword
      /\ full' = full /\ undefined' = undefined
  BY DEF entry, search
<1>3. wordsnum' = wordsnum /\ wordsnum \in Nat
  BY <1>1, <1>2, Steady, WordFacts
<1>4. /\ TableInv' /\ states' # <<>> /\ DOMAIN states' = AllRows
      /\ \A s \in DOMAIN states' : states'[s] \in [Columns -> Nat]
  BY <1>1, <1>2, TableStep
<1>5. TypeOK'
  <2>1. /\ wordlist' \in Seq(Words) /\ findnum' \in [1..wordsnum' -> Nat] /\ totalfind' \in Nat
        /\ text' \in Seq(Chars) /\ word' \in 0..wordsnum' /\ full' \in BOOLEAN /\ undefined' \in BOOLEAN
        /\ \A j \in 1..Len(findword') : findword'[j] \in 1..wordsnum'
    BY <1>1, <1>2, <1>3 DEF TypeOK
  <2>2. \A j \in 1..Len(queue') : queue'[j].from \in AllRows /\ queue'[j].to \in AllRows
    <3>1. \A j \in 1..Len(queue') : queue'[j] \in Entries
      OBVIOUS
    <3> QED BY <3>1 DEF Entries
  <2>3. matchcase' \in BOOLEAN /\ prepared' \in 0..wordsnum' /\ call' = "none"
    BY <1>1, <1>2, <1>3
  <2> QED BY <2>1, <2>2, <2>3, <1>4 DEF TypeOK
<1>6. (phase' # "fill" => queue' = <<>>) => PhaseInv'
  BY <1>1, <1>2, <1>3, <1>4 DEF PhaseInv
<1> QED BY <1>1, <1>2, <1>4, <1>5, <1>6

LEMMA InsertInv ==
  ASSUME IInv, Insert
  PROVE  IInv'
<1>1. /\ TypeOK /\ PhaseInv /\ Inserting /\ wordlist \in Seq(Words)
      /\ phase = "insert" /\ queue = <<>> /\ next_word \in 1..(wordsnum + 1)
  BY DEF IInv, TypeOK, PhaseInv, Inserting, Insert
<1>2. UNCHANGED <<entry, matchcase, prepared, search>> /\ phase' = phase /\ queue' = queue
  BY DEF Insert
<1>3. /\ next_word' \in 1..(wordsnum + 1)
      /\ usedstates' + (next_word' - 1) <= wordsnum + 1 + lengths[next_word' - 1]
      /\ Shaped(states', usedstates', next_word' - 1, Known(next_word' - 1))
  BY <1>1, InsertStep
<1>4. PICK t, k, m, P : /\ t = states' /\ k = usedstates' /\ m = next_word' - 1
                        /\ P = Known(next_word' - 1)
  OBVIOUS
<1>5. wordsnum \in Nat /\ m \in Nat /\ next_word' \in Nat
  <2>1. wordsnum \in Nat
    BY <1>1, WordFacts
  <2>2. PICK x, y : x = next_word' /\ y = wordsnum + 1
    OBVIOUS
  <2>3. x \in 1..y /\ y \in Nat
    BY <2>1, <2>2, <1>3
  <2>4. x \in Nat /\ x - 1 \in Nat
    BY <2>3
  <2> QED BY <2>1, <2>2, <2>4, <1>4
<1>6. Shaped(t, k, m, P)
  BY <1>3, <1>4
<1>7. Inside(t, k, Rows, wordsnum) /\ k \in Nat
  BY <1>1, <1>5, <1>6, ShapeInside
<1>8. /\ TypeOK' /\ TableInv' /\ findword' \in Seq(Nat) /\ PhaseInv'
  <2>1. queue' \in Seq(Entries) /\ queue' = <<>>
    BY <1>1, <1>2
  <2>2. phase' \in {"idle", "insert", "fill"} /\ phase # "idle"
    BY <1>1, <1>2
  <2>3. Inside(states', usedstates', Rows, wordsnum) /\ usedstates' \in Nat
    BY <1>4, <1>7
  <2> QED BY <2>1, <2>2, <2>3, <1>2, <1>5, BuildStep
<1>9. Inserting'
  <2>1. wordlist' = wordlist /\ matchcase' = matchcase
    BY <1>2 DEF entry
  <2>2. /\ wordsnum' = wordsnum /\ lengths' = lengths /\ \A n : Known(n)' = Known(n)
    BY <2>1, Steady
  <2>3. Known(m)' = P
    BY <2>2, <1>4
  <2>4. Shaped(t, k, m, P)'
    BY <2>1, <1>6, ShapedSteady
  <2>5. Shaped(states, usedstates, next_word - 1, Known(next_word - 1))'
    BY <2>3, <2>4, <1>4
  <2> QED BY <2>2, <2>5, <1>3 DEF Inserting
<1>10. Filling' /\ Idling'
  BY <1>1, <1>2 DEF Filling, Idling
<1> QED BY <1>8, <1>9, <1>10 DEF IInv

LEMMA InsertedInv ==
  ASSUME IInv, Inserted
  PROVE  IInv'
<1>1. /\ TypeOK /\ Inserting /\ wordlist \in Seq(Words) /\ usedstates \in Nat
      /\ phase = "insert" /\ next_word \in 1..(wordsnum + 1) /\ next_word > wordsnum
  BY DEF IInv, TypeOK, Inserting, Inserted
<1>2. /\ UNCHANGED <<entry, matchcase, prepared, search>> /\ phase' = "fill" /\ queue' = FirstStates
      /\ states' = states /\ usedstates' = usedstates /\ next_word' = next_word
  BY DEF Inserted, table
<1>3. wordsnum \in Nat /\ next_word - 1 = wordsnum /\ next_word \in Nat
  <2>1. wordsnum \in Nat
    BY <1>1, WordFacts
  <2> QED BY <2>1, <1>1
<1>4. PICK P : P = Known(wordsnum)
  OBVIOUS
<1>5. PICK node, label : Shape(states, usedstates, wordsnum, Known(wordsnum), node, label)
  BY <1>1, <1>3 DEF Inserting, Shaped
<1>6. Tree(states, P, node, label) /\ Fanned(states, <<>>, 1, <<>>, Chars, P, node, label)
  BY <1>1, <1>4, <1>5, ShapeTree
<1>7. Fanned(states, FirstStates, 1, <<>>, {}, P, node, label)
  BY <1>1, <1>6, FirstEnds
<1>8. PICK path : Queued(states, FirstStates, 1, path, P, node, label)
  BY <1>7 DEF Fanned, Fan
<1>9. PICK t, q : t = states /\ q = FirstStates
  OBVIOUS
<1>10. Waiting(t, q, P, node, label) /\ q \in Seq(Entries)
  BY <1>6, <1>8, <1>9 DEF Waiting, Queued, Entries
<1>11. Inside(states, usedstates, Rows, wordsnum)
  BY <1>1, <1>6, TreeInside
<1>12. TypeOK' /\ TableInv' /\ findword' \in Seq(Nat) /\ PhaseInv'
  BY <1>1, <1>2, <1>3, <1>9, <1>10, <1>11, BuildStep
<1>13. Filling'
  <2>1. wordlist' = wordlist /\ matchcase' = matchcase
    BY <1>2 DEF entry
  <2>2. wordsnum' = wordsnum /\ \A n : Known(n)' = Known(n)
    BY <2>1, Steady
  <2>3. Known(wordsnum)' = P
    BY <2>2, <1>4
  <2>4. Waiting(t, q, P, node, label)'
    BY <2>1, <1>2, <1>10, TreeSteady
  <2> QED BY <2>3, <2>4, <1>2, <1>9 DEF Filling
<1>14. Inserting' /\ Idling'
  BY <1>2 DEF Inserting, Idling
<1> QED BY <1>12, <1>13, <1>14 DEF IInv

LEMMA FillInv ==
  ASSUME IInv, Fill
  PROVE  IInv'
<1>1. /\ TypeOK /\ Filling /\ wordlist \in Seq(Words) /\ usedstates \in Nat /\ next_word \in Nat
      /\ phase = "fill" /\ queue # <<>>
  BY DEF IInv, TypeOK, Fill
<1>2. PICK P : P = Known(wordsnum)
  OBVIOUS
<1>3. PICK node, label : Waiting(states, queue, P, node, label)
  BY <1>1, <1>2 DEF Filling
<1>4. PICK path : Tree(states, P, node, label) /\ Queued(states, queue, 1, path, P, node, label)
  BY <1>3 DEF Waiting
<1>5. PICK p, h, t, q : p = path[1] /\ h = queue[1] /\ t = Visit(h).states /\ q = Tail(Visit(h).queue)
  OBVIOUS
<1>6. Len(queue) # 0 /\ Head(queue) = h
  BY <1>1, <1>4, <1>5 DEF Queued
<1>7. /\ UNCHANGED <<entry, matchcase, prepared, search>> /\ phase' = phase /\ next_word' = next_word
      /\ usedstates' = usedstates /\ states' = t /\ queue' = q
  BY <1>5, <1>6 DEF Fill
<1>8. /\ Fanned(states, queue, 2, p, Chars, P, node, label) /\ Table(states)
      /\ h \in Entries /\ h.to = node[p] /\ Len(label[h.from]) < Len(p)
      /\ Len(queue) >= 1 /\ queue \in Seq(Entries)
  BY <1>1, <1>4, <1>5, <1>6, VisitBegins
<1>9. VisitAt([states |-> states, queue |-> queue], p, Chars, P, node, label)
  BY <1>8 DEF VisitAt, Visitor, Table
<1>10. VisitAt(Visit(h), p, {}, P, node, label)
  BY <1>1, <1>8, <1>9, VisitEnds, Zenon
<1>11. Waiting(t, q, P, node, label)
  BY <1>5, <1>10, VisitOver DEF VisitAt
<1>12. Tree(t, P, node, label) /\ q \in Seq(Entries)
  BY <1>11 DEF Waiting, Queued, Entries
<1>13. Inside(t, usedstates, Rows, wordsnum)
  BY <1>1, <1>12, TreeInside
<1>14. TypeOK' /\ TableInv' /\ findword' \in Seq(Nat) /\ PhaseInv'
  BY <1>1, <1>7, <1>12, <1>13, BuildStep
<1>15. Filling'
  <2>1. wordlist' = wordlist /\ matchcase' = matchcase
    BY <1>7 DEF entry
  <2>2. wordsnum' = wordsnum /\ \A n : Known(n)' = Known(n)
    BY <2>1, Steady
  <2>3. Known(wordsnum)' = P
    BY <2>2, <1>2
  <2>4. Waiting(t, q, P, node, label)'
    BY <2>1, <1>7, <1>11, TreeSteady
  <2> QED BY <2>3, <2>4, <1>7 DEF Filling
<1>16. Inserting' /\ Idling'
  BY <1>1, <1>7 DEF Inserting, Idling
<1> QED BY <1>14, <1>15, <1>16 DEF IInv

LEMMA FilledInv ==
  ASSUME IInv, Filled
  PROVE  IInv'
<1>1. /\ TypeOK /\ Filling /\ wordlist \in Seq(Words) /\ usedstates \in Nat /\ next_word \in Nat
      /\ phase = "fill" /\ queue = <<>>
  BY DEF IInv, TypeOK, Filled
<1>2. PICK t, k : t = states /\ k = usedstates
  OBVIOUS
<1>3. PICK P, node, label : Tree(t, P, node, label)
  BY <1>1, <1>2 DEF Filling, Waiting
<1>4. PICK t2 : t2 = states'
  OBVIOUS
<1>5. /\ UNCHANGED <<entry, matchcase, prepared, search>> /\ phase' = "idle" /\ next_word' = next_word
      /\ usedstates' = usedstates /\ queue' = queue
      /\ t2 = [s \in DOMAIN t |-> [c \in Columns |-> IF c = KN \/ s >= k THEN t[s][c] ELSE t[s][Folded(c)]]]
  BY <1>2, <1>4 DEF Filled
<1>6. Inside(t, k, Rows, wordsnum) /\ Ranked(t)
  BY <1>1, <1>2, <1>3, TreeInside, TreeRanked
<1>7. DOMAIN t = 0..(Rows - 1) /\ t \in [0..(Rows - 1) -> [Columns -> Nat]]
  BY <1>6 DEF Inside
<1>8. \A c \in Columns : c # KN => Folded(c) \in Columns
  BY FoldedFacts DEF Columns
<1>9. \A s \in 0..(Rows - 1), c \in Columns : \E d \in Columns : t2[s][c] = t[s][d]
  BY <1>5, <1>7, <1>8
<1>10. KN \in Columns /\ \A s \in 0..(Rows - 1) : t2[s][KN] = t[s][KN]
  BY <1>5, <1>7 DEF Columns
<1>11. t2 \in [0..(Rows - 1) -> [Columns -> Nat]]
  <2>1. \A s \in 0..(Rows - 1), c \in Columns :
          (IF c = KN \/ s >= k THEN t[s][c] ELSE t[s][Folded(c)]) \in Nat
    BY <1>7, <1>8
  <2> QED BY <2>1, <1>5, <1>7
<1>12. Inside(t2, k, Rows, wordsnum)
  <2>1. /\ 0 < k /\ k <= Rows
        /\ \A s \in 0..(Rows - 1), c \in Columns : t[s][c] < k
        /\ \A s \in 0..(Rows - 1) : t[s][KN] <= wordsnum
    BY <1>6 DEF Inside
  <2>2. \A s \in 0..(Rows - 1), c \in Columns : t2[s][c] < k
    BY <2>1, <1>9
  <2> QED BY <2>1, <2>2, <1>10, <1>11 DEF Inside
<1>13. Ranked(t2)
  <2>1. DOMAIN t2 = DOMAIN t /\ \A s \in DOMAIN t : t2[s][KN] = t[s][KN]
    BY <1>5, <1>7, <1>10
  <2> QED BY <2>1, <1>6 DEF Ranked
<1>14. TypeOK' /\ TableInv' /\ findword' \in Seq(Nat) /\ PhaseInv'
  <2>1. queue' \in Seq(Entries) /\ queue' = <<>>
    BY <1>1, <1>5
  <2> QED BY <2>1, <1>1, <1>2, <1>4, <1>5, <1>12, BuildStep
<1>15. Idling' /\ Inserting' /\ Filling'
  BY <1>4, <1>5, <1>13 DEF Idling, Inserting, Filling, Ranked
<1> QED BY <1>14, <1>15 DEF IInv
-----------------------------------------------------------------------------
(* The searches.                                                             *)
IsFollowing(F, ws) ==
  F = [w \in DOMAIN states |->
         IF states[w][KN] = w THEN <<>>
         ELSE (IF states[w][KN] \in ws THEN <<states[w][KN]>> ELSE <<>>) \o F[states[w][KN]]]

\* The chains of the KN column end, whatever words are kept of them.
LEMMA FollowingExists ==
  ASSUME Ranked(states), NEW R \in Nat, DOMAIN states = 0..(R - 1), NEW ws
  PROVE  \E F : IsFollowing(F, ws)
<1> DEFINE D == DOMAIN states
           next(s) == states[s][KN]
           Body(F, s) == IF next(s) = s THEN <<>>
                         ELSE (IF next(s) \in ws THEN <<next(s)>> ELSE <<>>) \o F[next(s)]
<1>1. PICK rank \in [D -> Nat] : \A s \in D : next(s) = s \/ (next(s) \in D /\ rank[next(s)] < rank[s])
  BY DEF Ranked
<1>2. PICK B \in Nat : \A s \in D : rank[s] < B
  <2> DEFINE S == {n \in Nat : \E b \in Nat : \A s \in D : s < n => rank[s] < b}
  <2>1. 0 \in S
    BY DEF S
  <2>2. ASSUME NEW n \in Nat, n \in S PROVE n + 1 \in S
    <3>1. PICK b \in Nat : \A s \in D : s < n => rank[s] < b
      BY <2>2
    <3>2. CASE n \in D
      <4>1. PICK m \in Nat : m >= b /\ m > rank[n]
        <5>1. rank[n] \in Nat
          BY <3>2, <1>1
        <5>2. b + rank[n] + 1 \in Nat /\ b + rank[n] + 1 >= b /\ b + rank[n] + 1 > rank[n]
          BY <5>1
        <5> QED BY <5>2
      <4>2. ASSUME NEW s \in D, s < n + 1 PROVE rank[s] < m
        <5>1. s = n \/ s < n
          BY <4>2
        <5>2. rank[s] \in Nat
          BY <1>1
        <5>3. CASE s = n
          BY <5>3, <4>1
        <5>4. CASE s < n
          BY <5>2, <5>4, <3>1, <4>1
        <5> QED BY <5>1, <5>3, <5>4
      <4> QED BY <4>2
    <3>3. CASE n \notin D
      <4>1. \A s \in D : s < n + 1 => s < n
        BY <3>3
      <4> QED BY <4>1, <3>1
    <3> QED BY <3>2, <3>3
  <2> HIDE DEF S
  <2>3. R \in S
    BY <2>1, <2>2, SetInduction
  <2>4. \A s \in D : s < R
    OBVIOUS
  <2> QED BY <2>3, <2>4 DEF S
<1> DEFINE Low(n) == {s \in D : rank[s] < n}
           S == {n \in Nat : \E F : F = [s \in Low(n) |-> Body(F, s)]}
<1>3. 0 \in S
  <2> DEFINE F == [s \in Low(0) |-> <<>>]
  <2>1. Low(0) = {}
    BY <1>1
  <2>2. F = [s \in Low(0) |-> Body(F, s)]
    BY <2>1
  <2> QED BY <2>2
<1>4. ASSUME NEW n \in Nat, n \in S PROVE n + 1 \in S
  <2>1. PICK F : F = [s \in Low(n) |-> Body(F, s)]
    BY <1>4
  <2> DEFINE G == [s \in Low(n + 1) |-> Body(F, s)]
  <2>2. \A s \in Low(n + 1) : next(s) = s \/ next(s) \in Low(n)
    <3>1. \A s \in Low(n + 1) : next(s) \in D => rank[next(s)] \in Nat /\ rank[s] \in Nat
      BY <1>1
    <3> QED BY <3>1, <1>1
  <2>3. \A s \in Low(n) : s \in Low(n + 1)
    BY <1>1
  <2> HIDE DEF Body, Low
  <2>4. \A s \in Low(n) : G[s] = F[s]
    <3>1. \A s \in Low(n) : F[s] = Body(F, s)
      BY <2>1
    <3> QED BY <3>1, <2>3
  <2>5. \A s \in Low(n + 1) : Body(F, s) = Body(G, s)
    <3> TAKE s \in Low(n + 1)
    <3>1. CASE next(s) = s
      BY <3>1 DEF Body
    <3>2. CASE next(s) # s
      <4>1. F[next(s)] = G[next(s)]
        BY <3>2, <2>2, <2>4
      <4> HIDE DEF G
      <4> QED BY <4>1 DEF Body
    <3> QED BY <3>1, <3>2
  <2>6. G = [s \in Low(n + 1) |-> Body(G, s)]
    BY <2>5
  <2> HIDE DEF G
  <2>7. n + 1 \in Nat
    OBVIOUS
  <2> QED BY <2>6, <2>7
<1> HIDE DEF S
<1>5. B \in S
  BY <1>3, <1>4, SetInduction
<1>6. Low(B) = D
  BY <1>2
<1> HIDE DEF Low
<1>7. PICK F : F = [s \in D |-> Body(F, s)]
  <2>1. \E F : F = [s \in Low(B) |-> Body(F, s)]
    BY <1>5 DEF S
  <2> QED BY <2>1, <1>6
<1> QED BY <1>7 DEF IsFollowing

\* Each is a sequence of numbers.
LEMMA FollowingFacts ==
  ASSUME Ranked(states), NEW R \in Nat, DOMAIN states = 0..(R - 1),
         \A s \in DOMAIN states : states[s][KN] \in Nat, NEW ws
  PROVE  \A s \in DOMAIN states : Following(ws)[s] \in Seq(Nat)
<1>1. PICK F : F = Following(ws)
  OBVIOUS
<1>2. IsFollowing(F, ws)
  <2>1. \E G : IsFollowing(G, ws)
    BY FollowingExists, Zenon
  <2>2. Following(ws) = CHOOSE G : IsFollowing(G, ws)
    BY DEF Following, IsFollowing
  <2> QED BY <1>1, <2>1, <2>2
<1> DEFINE D == DOMAIN states
           next(s) == states[s][KN]
<1>3. \A s \in D : \/ next(s) = s /\ F[s] = <<>>
                   \/ next(s) # s /\ (F[s] = <<next(s)>> \o F[next(s)] \/ F[s] = <<>> \o F[next(s)])
  BY <1>2 DEF IsFollowing
<1>4. PICK rank \in [D -> Nat] : \A s \in D : next(s) = s \/ (next(s) \in D /\ rank[next(s)] < rank[s])
  BY DEF Ranked
<1> DEFINE S == {n \in Nat : \A s \in D : rank[s] < n => F[s] \in Seq(Nat)}
<1>5. 0 \in S
  BY <1>4
<1>6. ASSUME NEW n \in Nat, n \in S PROVE n + 1 \in S
  <2>1. \A s \in D : rank[s] < n => F[s] \in Seq(Nat)
    BY <1>6
  <2>2. ASSUME NEW s \in D, rank[s] < n + 1 PROVE F[s] \in Seq(Nat)
    <3>1. CASE next(s) = s
      <4>1. F[s] = <<>>
        BY <3>1, <1>3
      <4> QED BY <4>1
    <3>2. CASE next(s) # s
      <4>1. next(s) \in D /\ rank[next(s)] < rank[s] /\ rank[next(s)] \in Nat /\ rank[s] \in Nat
        BY <3>2, <1>4
      <4>2. rank[next(s)] < n
        BY <4>1, <2>2
      <4>3. F[next(s)] \in Seq(Nat) /\ next(s) \in Nat
        BY <4>1, <4>2, <2>1
      <4>4. PICK x, f : x = next(s) /\ f = F[next(s)]
        OBVIOUS
      <4>5. <<x>> \o f \in Seq(Nat) /\ <<>> \o f \in Seq(Nat)
        BY <4>3, <4>4
      <4> QED BY <4>4, <4>5, <3>2, <1>3
    <3> QED BY <3>1, <3>2
  <2> QED BY <2>2
<1> HIDE DEF S
<1>7. Nat \subseteq S
  BY <1>5, <1>6, SetInduction
<1>8. ASSUME NEW s \in D PROVE F[s] \in Seq(Nat)
  <2>1. rank[s] \in Nat /\ rank[s] + 1 \in Nat /\ rank[s] < rank[s] + 1
    BY <1>4
  <2> QED BY <2>1, <1>7 DEF S
<1> QED BY <1>1, <1>8

\* How often a word was found stays a number.
LEMMA CountFacts ==
  ASSUME wordlist \in Seq(Words), findnum \in [1..wordsnum -> Nat], NEW ws \in Seq(Nat), Count(ws)
  PROVE  findnum' \in [1..wordsnum -> Nat]
<1>1. ASSUME NEW i PROVE Cardinality({j \in 1..Len(ws) : ws[j] = i}) \in Nat
  <2>1. Len(ws) \in Nat /\ 1 \in Int /\ Len(ws) \in Int
    OBVIOUS
  <2>2. IsFiniteSet(1..Len(ws))
    BY <2>1, FS_Interval
  <2>3. {j \in 1..Len(ws) : ws[j] = i} \subseteq 1..Len(ws)
    OBVIOUS
  <2>4. IsFiniteSet({j \in 1..Len(ws) : ws[j] = i})
    BY <2>2, <2>3, FS_Subset
  <2> QED BY <2>4, FS_CardinalityType
<1>2. DOMAIN findnum' = 1..wordsnum
  BY DEF Count
<1>3. findnum' = [i \in 1..wordsnum |-> findnum[i] + Cardinality({j \in 1..Len(ws) : ws[j] = i})]
  BY DEF Count
<1>4. ASSUME NEW i \in 1..wordsnum
      PROVE  findnum[i] + Cardinality({j \in 1..Len(ws) : ws[j] = i}) \in Nat
  <2>1. PICK x, y : x = findnum[i] /\ y = Cardinality({j \in 1..Len(ws) : ws[j] = i})
    OBVIOUS
  <2>2. x \in Nat /\ y \in Nat
    BY <2>1, <1>1
  <2>3. x + y \in Nat
    BY <2>2
  <2> QED BY <2>1, <2>3
<1> QED BY <1>3, <1>4

\* What is known when a search reads a character.
LEMMA ReadFacts ==
  ASSUME IInv, call # "none", NEW c \in Chars, state' = states[state][c]
  PROVE  /\ phase = "idle" /\ states # <<>> /\ wordsnum \in Nat
         /\ state' \in DOMAIN states /\ state' \in Nat
         /\ \A s \in DOMAIN states :
              /\ s \in Nat /\ states[s][KN] \in Nat /\ states[s][KN] \in 0..wordsnum
              /\ states[s][KN] \in DOMAIN states
              /\ \A ws : Following(ws)[s] \in Seq(Nat)
<1>1. /\ TypeOK /\ PhaseInv /\ TableInv /\ Idling /\ wordlist \in Seq(Words)
      /\ state \in DOMAIN states /\ prepared \in 0..wordsnum /\ usedstates \in Nat
  BY DEF IInv, TypeOK
<1>2. phase = "idle" /\ states # <<>>
  BY <1>1 DEF PhaseInv
<1>3. PICK R \in Nat : Made(R)
  BY <1>1, <1>2 DEF TableInv
<1>4. /\ states \in [0..(R - 1) -> [Columns -> Nat]] /\ usedstates <= R
      /\ \A s \in 0..(R - 1), d \in Columns : states[s][d] < usedstates
      /\ \A s \in 0..(R - 1) : states[s][KN] <= prepared
  BY <1>3 DEF Made, Inside
<1>5. wordsnum \in Nat /\ c \in Columns /\ KN \in Columns /\ DOMAIN states = 0..(R - 1)
  BY <1>1, <1>4, WordFacts DEF Columns
<1>6. \A s \in 0..(R - 1), d \in Columns : states[s][d] \in Nat /\ states[s][d] \in 0..(R - 1)
  <2> TAKE s \in 0..(R - 1), d \in Columns
  <2>1. PICK x : x = states[s][d]
    OBVIOUS
  <2>2. x \in Nat /\ x < usedstates
    BY <2>1, <1>4
  <2>3. x \in 0..(R - 1)
    BY <2>2, <1>1, <1>4
  <2> QED BY <2>1, <2>2, <2>3
<1>7. ASSUME NEW s \in 0..(R - 1) PROVE states[s][KN] \in 0..wordsnum
  <2>1. PICK x : x = states[s][KN]
    OBVIOUS
  <2>2. x \in Nat /\ x <= prepared
    BY <2>1, <1>4, <1>5, <1>6
  <2>3. x \in 0..wordsnum
    BY <2>2, <1>1, <1>5
  <2> QED BY <2>1, <2>3
<1>8. Ranked(states)
  BY <1>1, <1>2 DEF Idling
<1>9. ASSUME NEW ws PROVE \A s \in DOMAIN states : Following(ws)[s] \in Seq(Nat)
  BY <1>5, <1>6, <1>8, FollowingFacts
<1>10. state' \in DOMAIN states /\ state' \in Nat
  BY <1>1, <1>5, <1>6
<1> QED BY <1>2, <1>5, <1>6, <1>7, <1>9, <1>10

\* What every step of a search leaves as it is.
LEMMA SearchStep ==
  ASSUME IInv, call # "none", NEW c \in Chars, state' = states[state][c], text' = Append(text, c),
         UNCHANGED <<wordlist, table, building, call>>,
         findnum' \in [1..wordsnum -> Nat], totalfind' \in Nat, word' \in 0..wordsnum,
         findword' \in Seq(Nat), \A j \in 1..Len(findword') : findword'[j] \in 1..wordsnum,
         full' \in BOOLEAN, undefined' \in BOOLEAN
  PROVE  IInv'
<1>1. /\ TypeOK /\ PhaseInv /\ TableInv /\ Idling /\ Inserting /\ Filling
  BY DEF IInv
<1>2. /\ wordlist' = wordlist /\ states' = states /\ usedstates' = usedstates /\ matchcase' = matchcase
      /\ prepared' = prepared /\ phase' = phase /\ next_word' = next_word /\ queue' = queue /\ call' = call
  BY DEF table, building
<1>3. phase = "idle" /\ states # <<>> /\ state' \in DOMAIN states
  BY ReadFacts
<1>4. wordsnum' = wordsnum /\ Rows' = Rows
  BY <1>2, Steady
<1>5. TypeOK'
  <2>1. text' \in Seq(Chars)
    BY <1>1 DEF TypeOK
  <2> QED BY <2>1, <1>1, <1>2, <1>3, <1>4 DEF TypeOK
<1>6. TableInv'
  BY <1>1, <1>2, <1>4 DEF TableInv, Made, Inside
<1>7. PhaseInv' /\ Inserting' /\ Filling'
  BY <1>1, <1>2, <1>3, <1>4 DEF PhaseInv, Inserting, Filling
<1>8. Idling'
  BY <1>1, <1>2 DEF Idling, Ranked
<1> QED BY <1>5, <1>6, <1>7, <1>8 DEF IInv

LEMMA UntilInv ==
  ASSUME IInv, NEW c \in Chars, FindUntilNull(c) \/ FindUntilLen(c)
  PROVE  IInv'
<1>1. /\ call # "none" /\ state' = states[state][c] /\ text' = Append(text, c)
      /\ UNCHANGED <<entry, table, building, call, findword, full, undefined>>
      /\ \/ word' = states[state'][KN]
         \/ word' = IF states[state'][KN] = 0 THEN 0
                    ELSE IF state' <= wordsnum THEN state' ELSE states[state'][KN]
  BY DEF FindUntilNull, FindUntilLen, Reading
<1>2. /\ wordsnum \in Nat /\ state' \in Nat /\ state' \in DOMAIN states
      /\ states[state'][KN] \in 0..wordsnum
  BY <1>1, ReadFacts
<1>3. word' \in 0..wordsnum
  <2>1. PICK x, s, w : x = states[state'][KN] /\ s = state' /\ w = word'
    OBVIOUS
  <2>2. w = x \/ w = IF x = 0 THEN 0 ELSE IF s <= wordsnum THEN s ELSE x
    BY <2>1, <1>1
  <2>3. x \in 0..wordsnum /\ s \in Nat
    BY <2>1, <1>2
  <2>4. w \in 0..wordsnum
    BY <2>2, <2>3, <1>2
  <2> QED BY <2>1, <2>4
<1>4. /\ findnum' \in [1..wordsnum -> Nat] /\ totalfind' \in Nat /\ findword' \in Seq(Nat)
      /\ \A j \in 1..Len(findword') : findword'[j] \in 1..wordsnum
      /\ full' \in BOOLEAN /\ undefined' \in BOOLEAN /\ UNCHANGED <<wordlist, table, building, call>>
  BY <1>1 DEF IInv, TypeOK, entry
<1> QED BY <1>1, <1>3, <1>4, SearchStep

LEMMA AllUntilLenInv ==
  ASSUME IInv, NEW c \in Chars, FindAllUntilLen(c)
  PROVE  IInv'
<1> DEFINE w == states[state'][KN]
           ws == IF w = 0 THEN <<>> ELSE <<w>> \o Following(Nat)[w]
<1>1. /\ call # "none" /\ state' = states[state][c] /\ text' = Append(text, c)
      /\ Count(ws) /\ totalfind' = totalfind + Len(ws)
      /\ UNCHANGED <<wordlist, table, building, call, word, findword, full, undefined>>
  BY DEF FindAllUntilLen, Reading
<1>2. w \in Nat /\ Following(Nat)[w] \in Seq(Nat)
  BY <1>1, ReadFacts
<1> HIDE DEF w
<1>3. ws \in Seq(Nat) /\ Len(ws) \in Nat
  <2>1. PICK f : f = Following(Nat)[w]
    OBVIOUS
  <2>2. <<w>> \o f \in Seq(Nat) /\ <<>> \in Seq(Nat)
    BY <2>1, <1>2
  <2>3. ws \in Seq(Nat)
    BY <2>1, <2>2
  <2> HIDE DEF ws
  <2> QED BY <2>3
<1> HIDE DEF ws
<1>4. /\ wordlist \in Seq(Words) /\ findnum \in [1..wordsnum -> Nat] /\ totalfind \in Nat
      /\ word \in 0..wordsnum /\ findword \in Seq(Nat)
      /\ \A j \in 1..Len(findword) : findword[j] \in 1..wordsnum
      /\ full \in BOOLEAN /\ undefined \in BOOLEAN
  BY DEF IInv, TypeOK
<1>5. findnum' \in [1..wordsnum -> Nat]
  BY <1>1, <1>3, <1>4, CountFacts
<1>6. totalfind' \in Nat
  BY <1>1, <1>3, <1>4
<1>7. /\ word' \in 0..wordsnum /\ findword' \in Seq(Nat)
      /\ \A j \in 1..Len(findword') : findword'[j] \in 1..wordsnum
      /\ full' \in BOOLEAN /\ undefined' \in BOOLEAN /\ UNCHANGED <<wordlist, table, building, call>>
  BY <1>1, <1>4
<1> QED BY <1>1, <1>5, <1>6, <1>7, SearchStep

LEMMA FindAllInv ==
  ASSUME IInv, NEW c \in Chars, NEW f, f # "none", NEW limited \in BOOLEAN, FindAll(f, c, limited)
  PROVE  IInv'
<1> DEFINE ws == Ending(state')
           len == IF state' <= wordsnum THEN Len(wordlist[state']) ELSE 0
           listed == {j \in 1..Len(ws) :
                        limited => Listed + (j - 1) * (len + 1) + len <= MaxFindLen - 2}
           n == Cardinality(listed)
           out == SubSeq(ws, 1, IF full' THEN n + 1 ELSE n)
           row == [j \in 1..n |-> state']
<1>1. /\ call # "none" /\ state' = states[state][c] /\ text' = Append(text, c)
      /\ UNCHANGED <<wordlist, table, building, call, word>>
      /\ IF ws # <<>> /\ state' \notin 1..wordsnum
         THEN undefined' = TRUE /\ UNCHANGED <<findnum, totalfind, findword, full>>
         ELSE /\ full' = (n < Len(ws)) /\ Count(out) /\ totalfind' = totalfind + n
              /\ findword' = findword \o row /\ UNCHANGED undefined
  BY DEF FindAll, Reading
<1>2. /\ wordsnum \in Nat /\ state' \in Nat /\ state' \in DOMAIN states
      /\ Following(0..wordsnum)[state'] \in Seq(Nat)
  BY <1>1, ReadFacts
<1>3. ws \in Seq(Nat) /\ Len(ws) \in Nat
  <2>1. PICK g, s : g = Following(0..wordsnum)[state'] /\ s = state'
    OBVIOUS
  <2>2. <<s>> \o g \in Seq(Nat) /\ <<>> \o g \in Seq(Nat) /\ <<>> \in Seq(Nat)
    BY <2>1, <1>2
  <2>3. ws \in {<<>>, <<s>> \o g, <<>> \o g}
    BY <2>1 DEF Ending
  <2> HIDE DEF ws
  <2>4. ws \in Seq(Nat)
    BY <2>2, <2>3
  <2> QED BY <2>4
<1>4. n \in Nat /\ n <= Len(ws)
  <2> HIDE DEF ws
  <2>1. listed \subseteq 1..Len(ws)
    OBVIOUS
  <2> HIDE DEF listed
  <2>2. PICK m \in Nat : m = Len(ws)
    BY <1>3
  <2>3. IsFiniteSet(1..m) /\ Cardinality(1..m) = m
    <3>1. 1 \in Int /\ m \in Int /\ m - 1 + 1 = m /\ (1 > m => m = 0)
      OBVIOUS
    <3> QED BY <3>1, FS_Interval
  <2>4. IsFiniteSet(listed) /\ Cardinality(listed) <= Cardinality(1..m)
    BY <2>1, <2>2, <2>3, FS_Subset
  <2> QED BY <2>2, <2>3, <2>4, FS_CardinalityType
<1>5. /\ wordlist \in Seq(Words) /\ findnum \in [1..wordsnum -> Nat] /\ totalfind \in Nat
      /\ word \in 0..wordsnum /\ findword \in Seq(Nat)
      /\ \A j \in 1..Len(findword) : findword[j] \in 1..wordsnum
      /\ full \in BOOLEAN /\ undefined \in BOOLEAN
  BY DEF IInv, TypeOK
<1> HIDE DEF n, listed, len
<1>6. word' \in 0..wordsnum /\ UNCHANGED <<wordlist, table, building, call>>
  BY <1>1, <1>5
<1>7. CASE ws # <<>> /\ state' \notin 1..wordsnum
  <2>1. /\ findnum' \in [1..wordsnum -> Nat] /\ totalfind' \in Nat /\ findword' \in Seq(Nat)
        /\ \A j \in 1..Len(findword') : findword'[j] \in 1..wordsnum
        /\ full' \in BOOLEAN /\ undefined' \in BOOLEAN
    BY <1>1, <1>5, <1>7
  <2> QED BY <2>1, <1>1, <1>6, SearchStep
<1>8. CASE ~(ws # <<>> /\ state' \notin 1..wordsnum)
  <2> HIDE DEF ws, out, row
  <2>1. /\ full' = (n < Len(ws)) /\ Count(out) /\ totalfind' = totalfind + n
        /\ findword' = findword \o row /\ undefined' = undefined
    BY <1>1, <1>8
  <2>2. out \in Seq(Nat)
    <3>1. PICK k : k = IF full' THEN n + 1 ELSE n
      OBVIOUS
    <3>2. k \in Nat /\ k <= Len(ws)
      <4>1. PICK m \in Nat : m = Len(ws)
        BY <1>3
      <4>2. k = n \/ (k = n + 1 /\ n < m)
        BY <4>1, <3>1, <2>1
      <4>3. n \in Nat /\ n <= m
        BY <4>1, <1>4
      <4>4. k \in Nat /\ k <= m
        BY <4>2, <4>3
      <4> QED BY <4>1, <4>4
    <3>3. SubSeq(ws, 1, k) \in Seq(Nat)
      BY <3>2, <1>3
    <3> QED BY <3>1, <3>3 DEF out
  <2>3. findnum' \in [1..wordsnum -> Nat]
    BY <2>1, <2>2, <1>5, CountFacts
  <2>4. totalfind' \in Nat
    BY <2>1, <1>4, <1>5
  <2>5. row \in Seq(Nat) /\ Len(row) = n /\ \A j \in 1..n : row[j] \in 1..wordsnum
    <3>1. PICK s \in Nat : s = state'
      BY <1>2
    <3>2. row = [j \in 1..n |-> s]
      BY <3>1 DEF row
    <3>3. n # 0 => s \in 1..wordsnum
      BY <3>1, <1>3, <1>4, <1>8
    <3> QED BY <3>2, <3>3, <1>4
  <2>6. findword' \in Seq(Nat) /\ \A j \in 1..Len(findword') : findword'[j] \in 1..wordsnum
    <3>1. PICK x, y : x = findword /\ y = row
      OBVIOUS
    <3>4. /\ x \in Seq(Nat) /\ y \in Seq(Nat)
          /\ \A j \in 1..Len(x) : x[j] \in 1..wordsnum
          /\ \A j \in 1..Len(y) : y[j] \in 1..wordsnum
      BY <3>1, <2>5, <1>5, Zenon
    <3>5. x \o y \in Seq(Nat) /\ Len(x \o y) = Len(x) + Len(y)
      BY <3>4
    <3>2. /\ x \in Seq(Nat) /\ y \in Seq(Nat) /\ x \o y \in Seq(Nat) /\ Len(x \o y) = Len(x) + Len(y)
          /\ \A j \in 1..Len(x) : x[j] \in 1..wordsnum
          /\ \A j \in 1..Len(y) : y[j] \in 1..wordsnum
      BY <3>4, <3>5
    <3>3. ASSUME NEW j \in 1..Len(x \o y) PROVE (x \o y)[j] \in 1..wordsnum
      <4>1. CASE j <= Len(x)
        <5>1. j \in 1..Len(x) /\ (x \o y)[j] = x[j]
          BY <4>1, <3>2
        <5> QED BY <5>1, <3>2
      <4>2. CASE j > Len(x)
        <5>1. j - Len(x) \in 1..Len(y) /\ (x \o y)[j] = y[j - Len(x)]
          BY <4>2, <3>2
        <5> QED BY <5>1, <3>2
      <4> QED BY <4>1, <4>2, <3>2
    <3> QED BY <3>1, <3>2, <3>3, <2>1
  <2>7. full' \in BOOLEAN /\ undefined' \in BOOLEAN
    BY <2>1, <1>5
  <2> QED BY <2>3, <2>4, <2>6, <2>7, <1>1, <1>6, SearchStep
<1> QED BY <1>7, <1>8

\* A search begins, and returns.
LEMMA FindInv ==
  ASSUME IInv, Return \/ \E f \in Calls : Find(f)
  PROVE  IInv'
<1>1. /\ TypeOK /\ PhaseInv /\ TableInv /\ Idling /\ Inserting /\ Filling
  BY DEF IInv
<1>2. /\ wordlist' = wordlist /\ findnum' = findnum /\ totalfind' = totalfind
      /\ states' = states /\ usedstates' = usedstates /\ matchcase' = matchcase
      /\ prepared' = prepared /\ phase' = phase /\ next_word' = next_word /\ queue' = queue
      /\ state' = 0 /\ text' = <<>> /\ word' = 0 /\ findword' = <<>> /\ full' = FALSE
      /\ undefined' = undefined /\ phase = "idle"
      /\ call' = "none" \/ (call' \in Calls /\ states # <<>>)
  BY <1>1 DEF PhaseInv, Return, Find, Idle, entry, table, building
<1>3. wordsnum' = wordsnum /\ Rows' = Rows /\ wordsnum \in Nat
  BY <1>1, <1>2, Steady, WordFacts DEF TypeOK
<1>4. states # <<>> => 0 \in DOMAIN states
  <2>1. \A R \in Nat : Made(R) => 0 \in DOMAIN states
    <3> SUFFICES ASSUME NEW R \in Nat, Made(R) PROVE 0 \in DOMAIN states
      OBVIOUS
    <3>1. DOMAIN states = 0..(R - 1) /\ 0 < usedstates /\ usedstates <= R /\ usedstates \in Nat
      BY <1>1 DEF Made, Inside, TypeOK
    <3> QED BY <3>1
  <2> QED BY <2>1, <1>1 DEF TableInv
<1>5. TypeOK'
  <2>1. text' \in Seq(Chars) /\ \A j \in 1..Len(findword') : findword'[j] \in 1..wordsnum
    BY <1>2
  <2>2. call' \in Calls \cup {"none"} /\ (call' # "none" => state' \in DOMAIN states)
    BY <1>2, <1>4
  <2>3. word' \in 0..wordsnum
    BY <1>2, <1>3
  <2> QED BY <2>1, <2>2, <2>3, <1>1, <1>2, <1>3 DEF TypeOK
<1>6. TableInv'
  BY <1>1, <1>2, <1>3 DEF TableInv, Made, Inside
<1>7. PhaseInv'
  BY <1>1, <1>2, <1>3 DEF PhaseInv
<1>8. Idling' /\ findword' \in Seq(Nat)
  BY <1>1, <1>2 DEF Idling, Ranked
<1>9. Inserting' /\ Filling'
  BY <1>2 DEF Inserting, Filling
<1> QED BY <1>5, <1>6, <1>7, <1>8, <1>9 DEF IInv

\* Words are added or dropped.
LEMMA AddwordInv ==
  ASSUME IInv, NEW w \in Words, Addword(w)
  PROVE  IInv'
<1>1. /\ TypeOK /\ PhaseInv /\ TableInv /\ Idling /\ findword \in Seq(Nat) /\ wordlist \in Seq(Words)
      /\ phase = "idle" /\ call = "none" /\ queue = <<>> /\ findword = <<>> /\ word = 0
  BY DEF IInv, TypeOK, PhaseInv, Addword, Idle
<1>2. /\ wordlist' = Append(wordlist, w) /\ findnum' = Append(findnum, 0) /\ totalfind' = totalfind
      /\ states' = states /\ usedstates' = usedstates /\ matchcase' = matchcase /\ prepared' = prepared
      /\ phase' = phase /\ next_word' = next_word /\ queue' = queue
      /\ call' = call /\ state' = state /\ text' = text /\ word' = word /\ findword' = findword
      /\ full' = full /\ undefined' = undefined
  BY DEF Addword, table, building, search
<1>3. wordsnum \in Nat /\ wordsnum' = wordsnum + 1 /\ wordlist' \in Seq(Words)
  BY <1>1, <1>2 DEF wordsnum
<1>4. findnum' \in [1..wordsnum' -> Nat]
  <2>1. findnum \in [1..wordsnum -> Nat]
    BY <1>1 DEF TypeOK
  <2>2. findnum \in Seq(Nat) /\ Len(findnum) = wordsnum
    BY <2>1, <1>3
  <2>4. PICK x, y : x = findnum /\ y = Append(findnum, 0)
    OBVIOUS
  <2>5. x \in Seq(Nat) /\ Len(x) = wordsnum /\ y = Append(x, 0)
    BY <2>2, <2>4
  <2>6. y \in Seq(Nat) /\ Len(y) = wordsnum + 1
    BY <2>5
  <2>3. findnum' \in Seq(Nat) /\ Len(findnum') = wordsnum + 1
    BY <2>4, <2>6, <1>2
  <2> QED BY <2>3, <1>3
<1>5. TypeOK'
  <2>1. prepared' \in 0..wordsnum' /\ word' \in 0..wordsnum'
    <3>1. prepared \in 0..wordsnum
      BY <1>1 DEF TypeOK
    <3> QED BY <3>1, <1>1, <1>2, <1>3
  <2>2. \A j \in 1..Len(findword') : findword'[j] \in 1..wordsnum'
    BY <1>1, <1>2
  <2> QED BY <2>1, <2>2, <1>1, <1>2, <1>3, <1>4 DEF TypeOK
<1>6. TableInv'
  <2>1. prepared' # wordsnum'
    <3>1. prepared \in 0..wordsnum
      BY <1>1 DEF TypeOK
    <3> QED BY <3>1, <1>2, <1>3
  <2>2. \A R \in Nat : Made(R) => Made(R)'
    BY <2>1, <1>2 DEF Made, Inside
  <2> QED BY <2>2, <1>1, <1>2 DEF TableInv
<1>7. PhaseInv' /\ Inserting' /\ Filling' /\ Idling' /\ findword' \in Seq(Nat)
  BY <1>1, <1>2 DEF PhaseInv, Inserting, Filling, Idling, Ranked
<1> QED BY <1>5, <1>6, <1>7 DEF IInv

LEMMA ClearInv ==
  ASSUME IInv, Clear
  PROVE  IInv'
<1>1. /\ TypeOK /\ PhaseInv /\ findword \in Seq(Nat)
      /\ phase = "idle" /\ call = "none" /\ queue = <<>> /\ findword = <<>> /\ word = 0
  BY DEF IInv, PhaseInv, Clear, Idle
<1>2. /\ wordlist' = <<>> /\ findnum' = <<>> /\ totalfind' = 0
      /\ states' = <<>> /\ usedstates' = 0 /\ matchcase' = matchcase /\ prepared' = 0
      /\ phase' = phase /\ next_word' = next_word /\ queue' = queue
      /\ call' = call /\ state' = state /\ text' = text /\ word' = word /\ findword' = findword
      /\ full' = full /\ undefined' = undefined
  BY DEF Clear, building, search
<1>3. wordsnum' = 0
  BY <1>2 DEF wordsnum
<1>4. findnum' \in [1..wordsnum' -> Nat] /\ wordlist' \in Seq(Words)
  BY <1>2, <1>3
<1>5. TypeOK'
  <2>1. \A j \in 1..Len(findword') : findword'[j] \in 1..wordsnum'
    BY <1>1, <1>2
  <2>2. /\ \A s \in DOMAIN states' : states'[s] \in [Columns -> Nat]
        /\ \A j \in 1..Len(queue') : {queue'[j].from, queue'[j].to} \subseteq DOMAIN states'
    BY <1>1, <1>2
  <2>3. prepared' \in 0..wordsnum' /\ word' \in 0..wordsnum'
    BY <1>1, <1>2, <1>3
  <2> QED BY <2>1, <2>2, <2>3, <1>1, <1>2, <1>4 DEF TypeOK
<1>6. TableInv' /\ PhaseInv' /\ Inserting' /\ Filling' /\ Idling' /\ findword' \in Seq(Nat)
  BY <1>1, <1>2 DEF TableInv, PhaseInv, Inserting, Filling, Idling
<1> QED BY <1>5, <1>6 DEF IInv
-----------------------------------------------------------------------------
LEMMA InitInv == Init => IInv
<1> SUFFICES ASSUME Init PROVE IInv
  OBVIOUS
<1>1. wordsnum = 0
  BY DEF Init, wordsnum
<1>2. /\ findnum \in [1..wordsnum -> Nat] /\ wordlist \in Seq(Words) /\ findword \in Seq(Nat)
      /\ \A s \in DOMAIN states : states[s] \in [Columns -> Nat]
      /\ \A j \in 1..Len(queue) : {queue[j].from, queue[j].to} \subseteq DOMAIN states
      /\ \A j \in 1..Len(findword) : findword[j] \in 1..wordsnum
  BY <1>1 DEF Init
<1>3. TypeOK
  <2>1. prepared \in 0..wordsnum /\ word \in 0..wordsnum /\ text \in Seq(Chars) /\ next_word \in Nat
    BY <1>1 DEF Init
  <2>2. /\ totalfind \in Nat /\ usedstates \in Nat /\ matchcase \in BOOLEAN /\ phase = "idle"
        /\ call = "none" /\ full \in BOOLEAN /\ undefined \in BOOLEAN
    BY DEF Init
  <2> QED BY <2>1, <2>2, <1>2 DEF TypeOK
<1>4. TableInv /\ PhaseInv /\ Inserting /\ Filling /\ Idling
  BY DEF Init, TableInv, PhaseInv, Inserting, Filling, Idling
<1> QED BY <1>2, <1>3, <1>4 DEF IInv

LEMMA StepInv == IInv /\ [Next]_vars => IInv'
<1> SUFFICES ASSUME IInv, [Next]_vars PROVE IInv'
  OBVIOUS
<1>1. CASE \E w \in Words : Addword(w)
  BY <1>1, AddwordInv
<1>2. CASE Clear
  BY <1>2, ClearInv
<1>3. CASE \E m \in Models : Prepare(m)
  BY <1>3, PrepareInv
<1>4. CASE PrepareStep
  BY <1>4, InsertInv, InsertedInv, FillInv, FilledInv DEF PrepareStep
<1>5. CASE \E f \in Calls : Find(f)
  BY <1>5, FindInv
<1>6. CASE \E c \in Chars : FindUntilNull(c) \/ FindUntilLen(c)
  BY <1>6, UntilInv
<1>7. CASE \E c \in Chars : FindAllUntilLen(c)
  BY <1>7, AllUntilLenInv
<1>8. CASE \E c \in Chars : FindAllUntilNull(c) \/ FindAllUntilNullWithID(c)
  BY <1>8, FindAllInv DEF FindAllUntilNull, FindAllUntilNullWithID
<1>9. CASE Return
  BY <1>9, FindInv
<1>10. CASE UNCHANGED vars
  <2>1. /\ UNCHANGED <<wordlist, findnum, totalfind, states, usedstates, matchcase, prepared>>
        /\ UNCHANGED <<phase, next_word, queue, call, state, text, word, findword, full, undefined>>
    BY <1>10 DEF vars, entry, table, building, search
  <2>2. IInv
    OBVIOUS
  <2>3. /\ wordsnum' = wordsnum /\ Rows' = Rows /\ lengths' = lengths /\ \A n : Known(n)' = Known(n)
    BY <2>1, Steady
  <2>4. TypeOK' /\ findword' \in Seq(Nat)
    BY <2>1, <2>2, <2>3 DEF IInv, TypeOK
  <2>5. TableInv' /\ PhaseInv' /\ Idling'
    BY <2>1, <2>2, <2>3 DEF IInv, TableInv, PhaseInv, Idling, Made, Inside, Ranked
  <2>6. Inserting'
    <3> SUFFICES ASSUME phase = "insert" PROVE Inserting'
      BY <2>1 DEF Inserting
    <3>1. PICK t, k, m, P : t = states /\ k = usedstates /\ m = next_word - 1 /\ P = Known(next_word - 1)
      OBVIOUS
    <3>2. Shaped(t, k, m, P)
      BY <2>2, <3>1 DEF IInv, Inserting
    <3>3. Shaped(t, k, m, P)'
      BY <2>1, <3>2, ShapedSteady
    <3>4. Shaped(states, usedstates, next_word - 1, Known(next_word - 1))'
      BY <2>1, <2>3, <3>1, <3>3
    <3> QED BY <2>1, <2>2, <2>3, <3>4 DEF IInv, Inserting
  <2>7. Filling'
    <3> SUFFICES ASSUME phase = "fill" PROVE Filling'
      BY <2>1 DEF Filling
    <3>1. PICK P, node, label : P = Known(wordsnum) /\ Waiting(states, queue, P, node, label)
      BY <2>2 DEF IInv, Filling
    <3>2. PICK t, q : t = states /\ q = queue
      OBVIOUS
    <3>3. Waiting(t, q, P, node, label)'
      BY <2>1, <3>1, <3>2, TreeSteady
    <3>4. Known(wordsnum)' = P
      BY <2>3, <3>1
    <3> QED BY <2>1, <3>2, <3>3, <3>4 DEF Filling
  <2> QED BY <2>4, <2>5, <2>6, <2>7 DEF IInv
<1> QED BY <1>1, <1>2, <1>3, <1>4, <1>5, <1>6, <1>7, <1>8, <1>9, <1>10 DEF Next

\* The invariant says that the arrays are large enough.
LEMMA InvArrays == IInv => ArraysFit
<1> SUFFICES ASSUME IInv PROVE ArraysFit
  OBVIOUS
<1>1. TypeOK /\ TableInv /\ PhaseInv /\ Filling /\ wordlist \in Seq(Words) /\ wordsnum \in Nat
  BY WordFacts DEF IInv, TypeOK
<1>2. RowsFit
  <2> SUFFICES ASSUME states # <<>>, prepared = wordsnum
               PROVE  /\ usedstates <= Rows
                      /\ \A s \in 0..(usedstates - 1), c \in Columns : states[s][c] < usedstates
    BY DEF RowsFit
  <2>1. Rows \in Nat /\ Made(Rows) /\ usedstates \in Nat
    BY <1>1 DEF TableInv, Made, TypeOK
  <2>2. /\ usedstates <= Rows
        /\ \A s \in 0..(Rows - 1), c \in Columns : states[s][c] < usedstates
    BY <2>1 DEF Made, Inside
  <2>3. 0..(usedstates - 1) \subseteq 0..(Rows - 1)
    BY <2>1, <2>2
  <2> QED BY <2>2, <2>3
<1>3. QueueFits
  <2>1. CASE phase = "fill"
    BY <2>1, <1>1, FewWait DEF Filling, QueueFits
  <2>2. CASE phase # "fill"
    BY <2>2, <1>1 DEF PhaseInv, QueueFits
  <2> QED BY <2>1, <2>2
<1> QED BY <1>1, <1>2, <1>3 DEF ArraysFit

\* Whatever words are added, in whatever order and with whatever letters in common, the
\* rows and the queue that Prepare allocates are enough, and neither Prepare nor a search
\* leaves them.
THEOREM ArraysFitHolds == Spec => []ArraysFit
BY InitInv, StepInv, InvArrays, PTL DEF Spec
-----------------------------------------------------------------------------
(* Suffixes.                                                                 *)
Suf(s, u) == Len(s) <= Len(u) /\ \A x \in 1..Len(s) : s[x] = u[Len(u) - Len(s) + x]

LEMMA SufFacts ==
  /\ \A p \in Strings : Suf(p, p) /\ Suf(<<>>, p)
  /\ \A p, q, r \in Strings : Suf(p, q) /\ Suf(q, r) => Suf(p, r)
  /\ \A p, q, r \in Strings : Suf(p, r) /\ Suf(q, r) /\ Len(p) <= Len(q) => Suf(p, q)
  /\ \A p, q \in Strings : Suf(p, q) /\ Len(q) <= Len(p) => p = q
<1>1. ASSUME NEW p \in Strings PROVE Suf(p, p) /\ Suf(<<>>, p)
  <2>1. Len(p) \in Nat /\ Len(<<>>) = 0
    BY StringFacts
  <2>2. \A x \in 1..Len(p) : Len(p) - Len(p) + x = x
    BY <2>1
  <2>3. 1..0 = {}
    OBVIOUS
  <2> QED BY <2>1, <2>2, <2>3 DEF Suf
<1>2. ASSUME NEW p \in Strings, NEW q \in Strings, NEW r \in Strings, Suf(p, q), Suf(q, r) PROVE Suf(p, r)
  <2>1. PICK a, b, c \in Nat : a = Len(p) /\ b = Len(q) /\ c = Len(r)
    BY StringFacts
  <2>2. a <= b /\ b <= c
    BY <1>2, <2>1 DEF Suf
  <2>3. ASSUME NEW x \in 1..a PROVE p[x] = r[c - a + x]
    <3>1. b - a + x \in 1..b /\ c - b + (b - a + x) = c - a + x
      BY <2>2
    <3>2. p[x] = q[b - a + x]
      BY <1>2, <2>1 DEF Suf
    <3>3. \A y \in 1..b : q[y] = r[c - b + y]
      BY <1>2, <2>1 DEF Suf
    <3> QED BY <3>1, <3>2, <3>3
  <2> QED BY <2>1, <2>2, <2>3 DEF Suf
<1>3. ASSUME NEW p \in Strings, NEW q \in Strings, NEW r \in Strings, Suf(p, r), Suf(q, r), Len(p) <= Len(q)
      PROVE  Suf(p, q)
  <2>1. PICK a, b, c \in Nat : a = Len(p) /\ b = Len(q) /\ c = Len(r)
    BY StringFacts
  <2>2. a <= b /\ b <= c
    BY <1>3, <2>1 DEF Suf
  <2>3. ASSUME NEW x \in 1..a PROVE p[x] = q[b - a + x]
    <3>1. b - a + x \in 1..b /\ c - b + (b - a + x) = c - a + x
      BY <2>2
    <3>2. p[x] = r[c - a + x]
      BY <1>3, <2>1 DEF Suf
    <3>3. \A y \in 1..b : q[y] = r[c - b + y]
      BY <1>3, <2>1 DEF Suf
    <3> QED BY <3>1, <3>2, <3>3
  <2> QED BY <2>1, <2>2, <2>3 DEF Suf
<1>4. ASSUME NEW p \in Strings, NEW q \in Strings, Suf(p, q), Len(q) <= Len(p) PROVE p = q
  <2>1. PICK a, b \in Nat : a = Len(p) /\ b = Len(q)
    BY StringFacts
  <2>2. a = b
    BY <1>4, <2>1 DEF Suf
  <2>3. \A x \in 1..a : b - a + x = x
    BY <2>2
  <2>4. \A x \in 1..a : p[x] = q[x]
    BY <1>4, <2>1, <2>3 DEF Suf
  <2> QED BY <2>1, <2>2, <2>4, StringFacts
<1> QED BY <1>1, <1>2, <1>3, <1>4

\* A string that is not empty has a last character, and its suffixes, but for the
\* empty one, have it too.
LEMMA LastFacts ==
  \A s \in Strings : s # <<>> => \E r \in Strings, c \in Chars : s = Ext(r, c)
<1> SUFFICES ASSUME NEW s \in Strings, s # <<>> PROVE \E r \in Strings, c \in Chars : s = Ext(r, c)
  OBVIOUS
<1>1. Len(s) \in Nat /\ Len(s) # 0
  BY StringFacts DEF Strings
<1>2. Len(s) - 1 \in 0..Len(s) /\ Len(s) - 1 < Len(s) /\ (Len(s) - 1) + 1 = Len(s)
  BY <1>1
<1>3. First(s, Len(s) - 1) \in Strings /\ s[Len(s)] \in Chars
  BY <1>2, FirstFacts
<1>4. Ext(First(s, Len(s) - 1), s[Len(s)]) = s
  BY <1>2, FirstFacts
<1> QED BY <1>3, <1>4

LEMMA SufExt ==
  \A r, u \in Strings, c, d \in Chars : Suf(Ext(r, d), Ext(u, c)) <=> d = c /\ Suf(r, u)
<1> SUFFICES ASSUME NEW r \in Strings, NEW u \in Strings, NEW c \in Chars, NEW d \in Chars
             PROVE  Suf(Ext(r, d), Ext(u, c)) <=> d = c /\ Suf(r, u)
  OBVIOUS
<1>1. PICK e, v \in Strings : e = Ext(r, d) /\ v = Ext(u, c)
  BY StringFacts
<1>2. PICK a, b \in Nat : a = Len(r) /\ b = Len(u)
  BY StringFacts
<1>3. /\ Len(e) = a + 1 /\ e[a + 1] = d /\ \A x \in 1..a : e[x] = r[x]
      /\ Len(v) = b + 1 /\ v[b + 1] = c /\ \A x \in 1..b : v[x] = u[x]
  <2>1. /\ Len(Ext(r, d)) = Len(r) + 1 /\ Ext(r, d)[Len(r) + 1] = d
        /\ \A x \in 1..Len(r) : Ext(r, d)[x] = r[x]
    BY StringFacts, Zenon
  <2>2. /\ Len(Ext(u, c)) = Len(u) + 1 /\ Ext(u, c)[Len(u) + 1] = c
        /\ \A x \in 1..Len(u) : Ext(u, c)[x] = u[x]
    BY StringFacts, Zenon
  <2> QED BY <2>1, <2>2, <1>1, <1>2
<1>4. a <= b => \A x \in 1..a : (b + 1) - (a + 1) + x = b - a + x /\ b - a + x \in 1..b /\ x \in 1..(a + 1)
  OBVIOUS
<1>5. (b + 1) - (a + 1) + (a + 1) = b + 1 /\ a + 1 \in 1..(a + 1)
  OBVIOUS
<1>6. ASSUME Suf(e, v) PROVE d = c /\ Suf(r, u)
  <2>1. a <= b /\ \A x \in 1..(a + 1) : e[x] = v[(b + 1) - (a + 1) + x]
    BY <1>3, <1>6 DEF Suf
  <2>2. d = c
    BY <2>1, <1>3, <1>5
  <2>3. \A x \in 1..a : r[x] = u[b - a + x]
    BY <2>1, <1>3, <1>4
  <2> QED BY <2>1, <2>2, <2>3, <1>2 DEF Suf
<1>7. ASSUME d = c, Suf(r, u) PROVE Suf(e, v)
  <2>1. a <= b /\ a + 1 <= b + 1 /\ \A x \in 1..a : r[x] = u[b - a + x]
    BY <1>2, <1>7 DEF Suf
  <2>2. ASSUME NEW x \in 1..(a + 1) PROVE e[x] = v[(b + 1) - (a + 1) + x]
    <3>1. CASE x = a + 1
      BY <3>1, <1>3, <1>5, <1>7
    <3>2. CASE x # a + 1
      <4>1. x \in 1..a
        BY <3>2
      <4> QED BY <4>1, <2>1, <1>3, <1>4
    <3> QED BY <3>1, <3>2
  <2> QED BY <2>1, <2>2, <1>3 DEF Suf
<1> QED BY <1>1, <1>6, <1>7

\* The suffixes of u with c behind it.
LEMMA SufOfExt ==
  ASSUME NEW u \in Strings, NEW c \in Chars, NEW s \in Strings, Suf(s, Ext(u, c))
  PROVE  s = <<>> \/ \E r \in Strings : s = Ext(r, c) /\ Suf(r, u)
<1> SUFFICES ASSUME s # <<>> PROVE \E r \in Strings : s = Ext(r, c) /\ Suf(r, u)
  OBVIOUS
<1>1. PICK r \in Strings, d \in Chars : s = Ext(r, d)
  BY LastFacts
<1>2. Suf(Ext(r, d), Ext(u, c))
  BY <1>1
<1>3. d = c /\ Suf(r, u)
  BY <1>2, SufExt
<1> QED BY <1>1, <1>3
-----------------------------------------------------------------------------
(* The longest suffix in P of what was read, and of a prefix other than itself. *)
Longest(u, q, P) == q \in P /\ Suf(q, u) /\ \A r \in P : Suf(r, u) => Len(r) <= Len(q)
Fails(p, g, P) == g \in P /\ Suf(g, p) /\ g # p /\ \A r \in P : Suf(r, p) /\ r # p => Len(r) <= Len(g)

\* A suffix of g with c behind it, g being a suffix of u.
LEMMA SufMore ==
  ASSUME NEW P, Closed(P), NEW u \in Strings, NEW c \in Chars, NEW g \in P, Suf(g, u),
         NEW q, Longest(Ext(g, c), q, P)
  PROVE  /\ q \in P /\ q \in Strings /\ Suf(q, Ext(u, c)) /\ Len(q) <= Len(g) + 1
         /\ \A s \in Strings : Ext(s, c) \in P /\ Suf(s, g) => Len(Ext(s, c)) <= Len(q)
<1>1. g \in Strings /\ q \in P /\ q \in Strings /\ Ext(g, c) \in Strings /\ Ext(u, c) \in Strings
  BY StringFacts DEF Closed, Longest
<1>2. Suf(q, Ext(g, c)) /\ Suf(Ext(g, c), Ext(u, c)) /\ Len(Ext(g, c)) = Len(g) + 1
  BY <1>1, SufExt, StringFacts DEF Longest
<1>3. Suf(q, Ext(u, c))
  BY <1>1, <1>2, SufFacts
<1>4. Len(q) <= Len(g) + 1
  BY <1>2 DEF Suf
<1>5. ASSUME NEW s \in Strings, Ext(s, c) \in P, Suf(s, g) PROVE Len(Ext(s, c)) <= Len(q)
  <2>1. Suf(Ext(s, c), Ext(g, c))
    BY <1>1, <1>5, SufExt
  <2> QED BY <2>1, <1>5 DEF Longest
<1> QED BY <1>1, <1>3, <1>4, <1>5

\* One character more is read.
LEMMA ReadLongest ==
  ASSUME NEW P, Closed(P), NEW u \in Strings, NEW c \in Chars, NEW g, Longest(u, g, P),
         NEW q, Longest(Ext(g, c), q, P)
  PROVE  Longest(Ext(u, c), q, P)
<1>1. g \in P /\ g \in Strings /\ Suf(g, u)
  BY DEF Closed, Longest
<1>2. /\ q \in P /\ q \in Strings /\ Suf(q, Ext(u, c))
      /\ \A s \in Strings : Ext(s, c) \in P /\ Suf(s, g) => Len(Ext(s, c)) <= Len(q)
  BY <1>1, SufMore
<1>3. ASSUME NEW r \in P, Suf(r, Ext(u, c)) PROVE Len(r) <= Len(q)
  <2>1. r \in Strings
    BY DEF Closed
  <2>2. CASE r = <<>>
    BY <2>2, <1>2, StringFacts
  <2>3. CASE r # <<>>
    <3>1. PICK s \in Strings : r = Ext(s, c) /\ Suf(s, u)
      BY <2>1, <2>3, <1>3, SufOfExt
    <3>2. s \in P
      BY <3>1 DEF Closed
    <3>3. Len(s) <= Len(g)
      BY <3>1, <3>2 DEF Longest
    <3>4. Suf(s, g)
      BY <3>1, <3>3, <1>1, SufFacts
    <3> QED BY <3>1, <3>4, <1>2
  <2> QED BY <2>2, <2>3
<1> QED BY <1>2, <1>3 DEF Longest

\* The failure state of p with c behind it, and what is read when there is no such state.
LEMMA FailNext ==
  ASSUME NEW P, Closed(P), NEW p \in P, NEW c \in Chars, NEW g, Fails(p, g, P),
         NEW q, Longest(Ext(g, c), q, P)
  PROVE  /\ Ext(p, c) \in P => Fails(Ext(p, c), q, P)
         /\ Ext(p, c) \notin P => Longest(Ext(p, c), q, P)
         /\ Len(q) <= Len(p)
<1>1. /\ g \in P /\ g \in Strings /\ Suf(g, p) /\ g # p /\ p \in Strings /\ Ext(p, c) \in Strings
      /\ Len(Ext(p, c)) = Len(p) + 1 /\ Len(p) \in Nat /\ Len(g) \in Nat
  BY StringFacts DEF Closed, Fails
<1>2. /\ q \in P /\ q \in Strings /\ Suf(q, Ext(p, c)) /\ Len(q) <= Len(g) + 1
      /\ \A s \in Strings : Ext(s, c) \in P /\ Suf(s, g) => Len(Ext(s, c)) <= Len(q)
  BY <1>1, SufMore
<1>3. Len(q) <= Len(p) /\ q # Ext(p, c)
  <2>1. ~(Len(p) <= Len(g))
    BY <1>1, SufFacts
  <2>2. Len(q) \in Nat
    BY <1>2, StringFacts
  <2> QED BY <2>1, <2>2, <1>1, <1>2
<1>4. ASSUME NEW r \in P, Suf(r, Ext(p, c)), r # Ext(p, c) PROVE Len(r) <= Len(q)
  <2>1. r \in Strings
    BY DEF Closed
  <2>2. CASE r = <<>>
    BY <2>2, <1>2, StringFacts
  <2>3. CASE r # <<>>
    <3>1. PICK s \in Strings : r = Ext(s, c) /\ Suf(s, p)
      BY <2>1, <2>3, <1>1, <1>4, SufOfExt
    <3>2. s \in P /\ s # p
      BY <3>1, <1>4 DEF Closed
    <3>3. Len(s) <= Len(g)
      BY <3>1, <3>2 DEF Fails
    <3>4. Suf(s, g)
      BY <3>1, <3>3, <1>1, SufFacts
    <3> QED BY <3>1, <3>4, <1>2
  <2> QED BY <2>2, <2>3
<1> QED BY <1>2, <1>3, <1>4 DEF Fails, Longest

\* A string in P is the longest suffix of itself; of one character only the empty string
\* is another suffix.
LEMMA LongestSelf ==
  ASSUME NEW P, Closed(P), NEW p \in P
  PROVE  Longest(p, p, P)
BY SufFacts DEF Longest, Suf, Closed

LEMMA LongestOne ==
  ASSUME NEW P, Closed(P), NEW c \in Chars
  PROVE  /\ Ext(<<>>, c) \notin P => Longest(Ext(<<>>, c), <<>>, P)
         /\ Fails(Ext(<<>>, c), <<>>, P)
<1>1. /\ <<>> \in P /\ <<>> \in Strings /\ Ext(<<>>, c) \in Strings /\ Suf(<<>>, Ext(<<>>, c))
      /\ Len(<<>>) = 0 /\ <<>> # Ext(<<>>, c)
  BY StringFacts, ExtFacts, SufFacts DEF Closed
<1>2. ASSUME NEW r \in P, Suf(r, Ext(<<>>, c)), r # Ext(<<>>, c) PROVE Len(r) <= Len(<<>>)
  <2>1. r \in Strings
    BY DEF Closed
  <2>2. CASE r # <<>>
    <3>1. PICK s \in Strings : r = Ext(s, c) /\ Suf(s, <<>>)
      BY <2>1, <2>2, <1>1, <1>2, SufOfExt
    <3>2. Len(<<>>) <= Len(s)
      BY <3>1, <1>1, StringFacts
    <3>3. s = <<>>
      BY <3>1, <3>2, <1>1, SufFacts
    <3> QED BY <3>1, <3>3, <1>2
  <2> QED BY <2>2, <1>1
<1> QED BY <1>1, <1>2 DEF Fails, Longest
-----------------------------------------------------------------------------
(* What the table means.  The column of a character leads to the state of the *)
(* longest suffix that is a prefix of a word, and the KN column to the longest *)
(* word that ends inside, or, if none does, to the prefix's own word.         *)
Spelled == {Word(i) : i \in 1..wordsnum}

\* v is the state that p goes to at c; Goes says it of every character.
Leads(v, p, c, P, node) == \E q \in P : v = node[q] /\ Longest(Ext(p, c), q, P)
Goes(t, p, P, node) == \A c \in Chars : Leads(t[node[p]][c], p, c, P, node)

\* v is what the KN column of p holds.
Tells(v, p, node) ==
  \/ \E g : v = node[g] /\ Fails(p, g, Spelled)
  \/ v = Own(node, p) /\ \A r \in Spelled : Suf(r, p) => r = p

\* The words have their own numbers, and no other prefix has one.
LEMMA OwnFacts ==
  ASSUME wordlist \in Seq(Words), NEW P, Closed(P), NEW node, Owned(wordsnum, P, node)
  PROVE  /\ Spelled \subseteq P /\ P \subseteq Strings /\ <<>> \notin Spelled /\ <<>> \in P
         /\ \A p \in Spelled : node[p] \in 1..wordsnum /\ Word(node[p]) = p /\ Own(node, p) = node[p]
         /\ \A p \in P \ Spelled : node[p] \notin 1..wordsnum /\ Own(node, p) = 0
         /\ 0 \notin 1..wordsnum
<1>1. wordsnum \in Nat /\ \A i \in 1..wordsnum : Word(i) \in Strings /\ Word(i) # <<>>
  <2>1. wordsnum \in Nat
    BY WordFacts
  <2>2. ASSUME NEW i \in 1..wordsnum PROVE Word(i) \in Strings /\ Word(i) # <<>>
    <3>1. wordlist[i] \in Strings /\ Len(wordlist[i]) >= 1 /\ Len(wordlist[i]) \in Nat
      BY WordFacts
    <3>2. Word(i) \in Strings /\ Len(Word(i)) = Len(wordlist[i])
      BY <3>1, FoldedFacts DEF Word
    <3>3. Len(wordlist[i]) # 0
      BY <3>1
    <3> QED BY <3>2, <3>3, StringFacts
  <2> QED BY <2>1, <2>2
<1>2. Spelled \subseteq P /\ <<>> \notin Spelled
  BY <1>1 DEF Owned, Spelled
<1>3. ASSUME NEW p \in Spelled PROVE node[p] \in 1..wordsnum
  <2>1. PICK i \in 1..wordsnum : p = Word(i)
    BY DEF Spelled
  <2>2. node[p] \in i..wordsnum
    BY <2>1 DEF Owned
  <2> QED BY <2>2, <1>1
<1>4. \A p \in P \ Spelled : node[p] \notin 1..wordsnum
  BY DEF Owned, Spelled
<1> QED BY <1>1, <1>2, <1>3, <1>4 DEF Owned, Own, Closed

\* What the KN column of e gets from its failure state f.
LEMMA TellsNext ==
  ASSUME wordlist \in Seq(Words), NEW P, Closed(P), NEW node, Owned(wordsnum, P, node),
         NEW e \in P, NEW f, Fails(e, f, P), NEW v, Tells(v, f, node)
  PROVE  Tells(IF v = 0 THEN Own(node, e) ELSE IF node[f] \in 1..wordsnum THEN node[f] ELSE v, e, node)
<1>o. /\ Spelled \subseteq P /\ P \subseteq Strings
      /\ \A p \in Spelled : node[p] \in 1..wordsnum /\ Own(node, p) = node[p]
      /\ \A p \in P \ Spelled : node[p] \notin 1..wordsnum /\ Own(node, p) = 0
      /\ 0 \notin 1..wordsnum
  BY OwnFacts
<1>f. /\ f \in P /\ f \in Strings /\ e \in Strings /\ Suf(f, e) /\ f # e
      /\ \A r \in Spelled : Suf(r, e) /\ r # e => Len(r) <= Len(f) /\ Suf(r, f)
  <2>1. f \in P /\ f \in Strings /\ e \in Strings /\ Suf(f, e) /\ f # e
    BY <1>o DEF Fails
  <2>2. ASSUME NEW r \in Spelled, Suf(r, e), r # e PROVE Len(r) <= Len(f) /\ Suf(r, f)
    <3>1. r \in P /\ r \in Strings
      BY <1>o
    <3>2. Len(r) <= Len(f)
      BY <3>1, <2>2 DEF Fails
    <3> QED BY <3>1, <3>2, <2>1, <2>2, SufFacts
  <2> QED BY <2>1, <2>2
<1>1. CASE f \in Spelled
  <2>1. v # 0
    BY <1>1, <1>o DEF Tells, Fails
  <2>2. Fails(e, f, Spelled)
    BY <1>1, <1>f DEF Fails
  <2> QED BY <2>1, <2>2, <1>1, <1>o DEF Tells
<1>2. CASE f \notin Spelled
  <2>0. node[f] \notin 1..wordsnum /\ Own(node, f) = 0
    BY <1>2, <1>f, <1>o
  <2>1. CASE v = 0
    <3>1. ~ \E g : v = node[g] /\ Fails(f, g, Spelled)
      BY <2>1, <1>o DEF Fails
    <3>2. \A r \in Spelled : Suf(r, f) => r = f
      BY <3>1 DEF Tells
    <3>3. \A r \in Spelled : Suf(r, e) => r = e
      BY <3>2, <1>2, <1>f
    <3> QED BY <3>3, <2>1 DEF Tells
  <2>2. CASE v # 0
    <3>1. PICK g : v = node[g] /\ Fails(f, g, Spelled)
      BY <2>0, <2>2 DEF Tells
    <3>2. g \in Spelled /\ g \in Strings /\ Suf(g, f) /\ g # f
      BY <3>1, <1>o DEF Fails
    <3>3. Suf(g, e)
      BY <3>2, <1>f, SufFacts
    <3>4. g # e
      <4>1. Len(f) <= Len(e)
        BY <1>f DEF Suf
      <4> QED BY <4>1, <3>2, <1>f, SufFacts
    <3>5. \A r \in Spelled : Suf(r, e) /\ r # e => Len(r) <= Len(g)
      BY <3>1, <1>2, <1>f DEF Fails
    <3>6. Fails(e, g, Spelled)
      BY <3>2, <3>3, <3>4, <3>5 DEF Fails
    <3> QED BY <3>1, <3>6, <2>0, <2>2 DEF Tells
  <2> QED BY <2>1, <2>2
<1> QED BY <1>1, <1>2
-----------------------------------------------------------------------------
(* What it means during the walk.  W holds the prefixes that wait, p is being *)
(* visited and the characters of rem are left.                               *)
\* The prefixes that a visit has still to come to: those under one that waits, and
\* those behind p with a character of rem.
Under(W, r) == \E w \in W : Pre(w, r)
Below(W, r) == \E w \in W : Pre(w, r) /\ w # r
Rest(p, rem, r) == \E c \in rem : Pre(Ext(p, c), r)

\* The rows behind the visit go where they shall, and the row of p does in the columns
\* done.  The KN column is right one step earlier, in the rows that wait, and holds the
\* prefix's own word elsewhere.
Sense(t, W, p, rem, P, node) ==
  /\ \A r \in P : r # p /\ ~Under(W, r) /\ ~Rest(p, rem, r) => Goes(t, r, P, node)
  /\ \A c \in Chars \ rem : Leads(t[node[p]][c], p, c, P, node)
  /\ \A r \in P : ~Below(W, r) /\ ~Rest(p, rem, r) => Tells(t[node[r]][KN], r, node)
  /\ \A r \in P : Below(W, r) \/ Rest(p, rem, r) => t[node[r]][KN] = Own(node, r)
  /\ \A w \in W : Len(p) <= Len(w) /\ Len(w) <= Len(p) + 1

\* Every prefix of a member is a member.
PreClosed(P) == P \subseteq Strings /\ \A r \in P, a \in Strings : Pre(a, r) => a \in P

LEMMA KnownClosed ==
  ASSUME wordlist \in Seq(Words)
  PROVE  \A m \in 0..wordsnum : PreClosed(Known(m))
<1>1. \A i \in 1..wordsnum : Word(i) \in Strings
  BY WordFacts, FoldedFacts DEF Word
<1>2. ASSUME NEW m \in 0..wordsnum, NEW r \in Known(m), NEW a \in Strings, Pre(a, r) PROVE a \in Known(m)
  <2>1. CASE r = <<>>
    <3>1. Len(r) <= Len(a)
      BY <2>1, StringFacts
    <3>2. a = r
      BY <3>1, <1>2, <2>1, StringFacts, PreFacts
    <3> QED BY <3>2
  <2>2. CASE r # <<>>
    <3>1. PICK i \in 1..m : Pre(r, Word(i))
      BY <2>2 DEF Known
    <3>2. i \in 1..wordsnum /\ r \in Strings
      BY WordFacts DEF Known
    <3>3. Pre(a, Word(i))
      BY <3>1, <3>2, <1>1, <1>2, PreFacts
    <3> QED BY <3>1, <3>3 DEF Known
  <2> QED BY <2>1, <2>2
<1>3. \A m : Known(m) \subseteq Strings
  BY DEF Known
<1> QED BY <1>2, <1>3 DEF PreClosed

\* A string that begins with p and is longer has a character behind p.
LEMMA PreMore ==
  ASSUME NEW p \in Strings, NEW r \in Strings, Pre(p, r), p # r
  PROVE  \E c \in Chars : Pre(Ext(p, c), r)
<1>1. PICK a, b \in Nat : a = Len(p) /\ b = Len(r)
  BY StringFacts
<1>2. a < b
  <2>1. a <= b /\ ~(b <= a)
    BY <1>1, PreFacts DEF Pre
  <2> QED BY <2>1
<1>3. PICK c \in Chars : c = r[a + 1]
  <2>1. a + 1 \in 1..b
    BY <1>2
  <2> QED BY <2>1, <1>1, StringFacts
<1>4. Len(Ext(p, c)) = a + 1 /\ Ext(p, c)[a + 1] = c /\ \A x \in 1..a : Ext(p, c)[x] = p[x]
  <2>1. /\ Len(Ext(p, c)) = Len(p) + 1 /\ Ext(p, c)[Len(p) + 1] = c
        /\ \A x \in 1..Len(p) : Ext(p, c)[x] = p[x]
    BY StringFacts, Zenon
  <2> QED BY <2>1, <1>1
<1>5. ASSUME NEW x \in 1..(a + 1) PROVE Ext(p, c)[x] = r[x]
  <2>1. CASE x = a + 1
    BY <2>1, <1>3, <1>4
  <2>2. CASE x # a + 1
    <3>1. x \in 1..a
      BY <2>2
    <3>2. p[x] = r[x]
      BY <3>1, <1>1 DEF Pre
    <3> QED BY <3>1, <3>2, <1>4
  <2> QED BY <2>1, <2>2
<1> QED BY <1>1, <1>2, <1>4, <1>5 DEF Pre

\* No row of a prefix but that of r differs, and that only in column d.
Kept(t2, t, r, d, P, node) ==
  \A s \in P, x \in Columns : t2[node[s]][x] = t[node[s]][x] \/ (s = r /\ x = d)

\* Nothing that waits is p or a prefix of it.
Ahead(W, p, P) == W \subseteq P /\ \A w \in W : ~Pre(w, p)

\* A column with no child is filled.
LEMMA SenseFill ==
  ASSUME NEW P, PreClosed(P), NEW p \in P, NEW W, NEW rem, rem \subseteq Chars, NEW c \in rem,
         Ext(p, c) \notin P, NEW node, NEW t, Sense(t, W, p, rem, P, node),
         NEW t2, Kept(t2, t, p, c, P, node),
         Leads(t2[node[p]][c], p, c, P, node)
  PROVE  Sense(t2, W, p, rem \ {c}, P, node)
<1>0. Chars \subseteq Columns /\ KN \in Columns /\ KN \notin Chars
  BY MachineAssumption DEF Columns
<1>1. ASSUME NEW r \in P PROVE Rest(p, rem, r) <=> Rest(p, rem \ {c}, r)
  <2>1. ~Pre(Ext(p, c), r)
    BY StringFacts DEF PreClosed
  <2> QED BY <2>1 DEF Rest
<1>2. \A r \in P : t2[node[r]][KN] = t[node[r]][KN]
  BY <1>0 DEF Kept
<1>3. ASSUME NEW r \in P, r # p, Goes(t, r, P, node) PROVE Goes(t2, r, P, node)
  <2>1. \A d \in Chars : t2[node[r]][d] = t[node[r]][d]
    BY <1>0, <1>3 DEF Kept
  <2> QED BY <2>1, <1>3 DEF Goes
<1>4. ASSUME NEW d \in Chars \ (rem \ {c}) PROVE Leads(t2[node[p]][d], p, d, P, node)
  <2>1. CASE d = c
    BY <2>1
  <2>2. CASE d # c
    <3>1. d \in Chars \ rem /\ t2[node[p]][d] = t[node[p]][d]
      BY <2>2, <1>0 DEF Kept
    <3> QED BY <3>1 DEF Sense
  <2> QED BY <2>1, <2>2
<1> QED BY <1>1, <1>2, <1>3, <1>4 DEF Sense

\* A child is queued.
LEMMA SenseChild ==
  ASSUME NEW P, PreClosed(P), NEW p \in P, NEW W, Ahead(W, p, P),
         NEW rem, rem \subseteq Chars, NEW c \in rem,
         Ext(p, c) \in P, NEW node, NEW t, Sense(t, W, p, rem, P, node), t[node[p]][c] = node[Ext(p, c)],
         NEW t2, Kept(t2, t, Ext(p, c), KN, P, node),
         Tells(t2[node[Ext(p, c)]][KN], Ext(p, c), node), Closed(P)
  PROVE  Sense(t2, W \cup {Ext(p, c)}, p, rem \ {c}, P, node)
<1> DEFINE e == Ext(p, c)
           V == W \cup {e}
<1>0. Chars \subseteq Columns /\ KN \in Columns /\ KN \notin Chars
  BY MachineAssumption DEF Columns
<1>1. /\ c \in Chars /\ p \in Strings /\ e \in Strings /\ e # p /\ Len(e) = Len(p) + 1 /\ Pre(e, e)
      /\ Len(p) \in Nat
  BY StringFacts, ExtFacts, PreFacts DEF PreClosed
<1>2. \A r \in P, d \in Chars : t2[node[r]][d] = t[node[r]][d]
  BY <1>0 DEF Kept
<1>3. \A r \in P : r # e => t2[node[r]][KN] = t[node[r]][KN]
  BY <1>0 DEF Kept
<1>4. ASSUME NEW r \in P, Goes(t, r, P, node) PROVE Goes(t2, r, P, node)
  BY <1>2, <1>4 DEF Goes
<1>5. ASSUME NEW d \in Chars \ (rem \ {c}) PROVE Leads(t2[node[p]][d], p, d, P, node)
  <2>1. t2[node[p]][d] = t[node[p]][d]
    BY <1>2
  <2>2. CASE d = c
    <3>1. Longest(e, e, P)
      BY LongestSelf
    <3> QED BY <3>1, <2>1, <2>2 DEF Leads
  <2>3. CASE d # c
    <3>1. d \in Chars \ rem
      BY <2>3
    <3> QED BY <3>1, <2>1 DEF Sense
  <2> QED BY <2>2, <2>3
<1> HIDE DEF e
<1>6. \A r : Rest(p, rem, r) <=> Rest(p, rem \ {c}, r) \/ Pre(e, r)
  BY DEF Rest, e
<1>7. \A r : (Under(V, r) <=> Under(W, r) \/ Pre(e, r)) /\ (Below(V, r) <=> Below(W, r) \/ (Pre(e, r) /\ e # r))
  BY DEF Under, Below
<1>8. ~Rest(p, rem \ {c}, e) /\ ~Below(V, e)
  <2>1. ~Rest(p, rem \ {c}, e)
    BY <1>1, ExtFacts DEF Rest, e
  <2>2. ASSUME NEW w \in W, Pre(w, e), w # e PROVE FALSE
    <3>1. w \in Strings /\ ~Pre(w, p)
      BY DEF PreClosed, Ahead
    <3> QED BY <3>1, <2>2, <1>1, PreExt DEF e
  <2> QED BY <2>1, <2>2 DEF Below
<1>9. ASSUME NEW r \in P, r # p, ~Under(V, r), ~Rest(p, rem \ {c}, r) PROVE Goes(t2, r, P, node)
  BY <1>9, <1>4, <1>6, <1>7 DEF Sense
<1>10. ASSUME NEW r \in P, ~Below(V, r), ~Rest(p, rem \ {c}, r) PROVE Tells(t2[node[r]][KN], r, node)
  <2>1. CASE r = e
    BY <2>1 DEF e
  <2>2. CASE r # e
    <3>1. ~Below(W, r) /\ ~Rest(p, rem, r)
      BY <2>2, <1>6, <1>7, <1>10
    <3> QED BY <3>1, <2>2, <1>3 DEF Sense
  <2> QED BY <2>1, <2>2
<1>11. ASSUME NEW r \in P, Below(V, r) \/ Rest(p, rem \ {c}, r) PROVE t2[node[r]][KN] = Own(node, r)
  <2>1. r # e
    BY <1>8, <1>11
  <2>2. Below(W, r) \/ Rest(p, rem, r)
    BY <1>6, <1>7, <1>11
  <2> QED BY <2>1, <2>2, <1>3 DEF Sense
<1>12. \A w \in V : Len(p) <= Len(w) /\ Len(w) <= Len(p) + 1
  BY <1>1 DEF Sense
<1> HIDE DEF V
<1>13. Sense(t2, V, p, rem \ {c}, P, node)
  BY <1>5, <1>9, <1>10, <1>11, <1>12 DEF Sense
<1> QED BY <1>13 DEF V, e
-----------------------------------------------------------------------------
(* The failure states in the queue, and the order of the prefixes that wait.  *)
At(q, label, x) == label[q[x].to]
Waits(q, lo, label) == {At(q, label, x) : x \in lo..Len(q)}

\* Each entry names the state of its longest proper suffix, and the lengths in the
\* queue do not fall, and rise by one at most.
Failing(q, lo, P, node, label) ==
  /\ \A x \in lo..Len(q) : \E g : q[x].from = node[g] /\ Fails(At(q, label, x), g, P)
  /\ \A x, y \in lo..Len(q) :
       x <= y => Len(At(q, label, x)) <= Len(At(q, label, y))
                 /\ Len(At(q, label, y)) <= Len(At(q, label, x)) + 1

\* What waits, from the paths of a fan.
LEMMA WaitsFacts ==
  ASSUME wordlist \in Seq(Words), NEW t, NEW q, NEW lo, NEW P, NEW node, NEW label, NEW path,
         Tree(t, P, node, label), Queued(t, q, lo, path, P, node, label)
  PROVE  /\ \A x \in lo..Len(q) : At(q, label, x) = path[x] /\ path[x] \in P
         /\ Waits(q, lo, label) = {path[x] : x \in lo..Len(q)}
         /\ Waits(q, lo, label) \subseteq P
<1>1. path \in [lo..Len(q) -> P] /\ \A x \in lo..Len(q) : q[x].to = node[path[x]]
  BY DEF Queued
<1>2. \A r \in P : label[node[r]] = r
  BY TreeFacts
<1>3. \A x \in lo..Len(q) : At(q, label, x) = path[x] /\ path[x] \in P
  BY <1>1, <1>2 DEF At
<1> QED BY <1>3 DEF Waits

\* What waits while p is visited is as long as p or one character longer.
Near(W, p) == \A w \in W : w \in Strings /\ Len(p) <= Len(w) /\ Len(w) <= Len(p) + 1

\* The prefix e comes behind p, with failure state f.
Follows(e, f, p, P, node, label) ==
  p \in Strings /\ e \in Strings /\ Len(e) = Len(p) + 1 /\ Fails(e, f, P) /\ label[node[e]] = e

Ready(q, lo, p, P, node, label) ==
  /\ q \in Seq(Entries) /\ lo \in Nat /\ lo >= 1 /\ lo <= Len(q) + 1
  /\ Near(Waits(q, lo, label), p) /\ Failing(q, lo, P, node, label)

Joined(q2, q, e, f, node) == q2 = Append(q, [from |-> node[f], to |-> node[e]])

Wider(q2, q, e, lo, P, node, label) ==
  Failing(q2, lo, P, node, label) /\ Waits(q2, lo, label) = Waits(q, lo, label) \cup {e}

\* A child of p is put behind what waits.
LEMMA FailingChild ==
  ASSUME NEW q, NEW lo, NEW p, NEW P, NEW node, NEW label, Ready(q, lo, p, P, node, label),
         NEW e, NEW f, Follows(e, f, p, P, node, label),
         NEW q2, Joined(q2, q, e, f, node)
  PROVE  Wider(q2, q, e, lo, P, node, label)
<1> DEFINE n == Len(q)
           h == [from |-> node[f], to |-> node[e]]
<1>0. /\ q \in Seq(Entries) /\ lo \in Nat /\ lo >= 1 /\ lo <= Len(q) + 1
      /\ Near(Waits(q, lo, label), p) /\ Failing(q, lo, P, node, label)
      /\ p \in Strings /\ e \in Strings /\ Len(e) = Len(p) + 1 /\ Fails(e, f, P) /\ label[node[e]] = e
      /\ q2 = Append(q, h)
  BY DEF Ready, Follows, Joined
<1>1. n \in Nat /\ Len(q2) = n + 1 /\ q2[n + 1] = h /\ \A x \in 1..n : q2[x] = q[x]
  BY <1>0
<1>2. h.from = node[f] /\ h.to = node[e] /\ Len(p) \in Nat
  BY <1>0, StringFacts
<1> HIDE DEF n
<1>3. At(q2, label, n + 1) = e /\ \A x \in lo..n : q2[x] = q[x] /\ At(q2, label, x) = At(q, label, x)
  <2>1. \A x \in lo..n : x \in 1..n
    BY <1>0, <1>1
  <2> QED BY <2>1, <1>0, <1>1, <1>2 DEF At
<1>4. n + 1 \in lo..(n + 1) /\ lo..(n + 1) = (lo..n) \cup {n + 1} /\ n + 1 \notin lo..n
  BY <1>0, <1>1 DEF n
<1>5. Waits(q2, lo, label) = Waits(q, lo, label) \cup {e}
  BY <1>1, <1>3, <1>4 DEF Waits, n
<1>6. ASSUME NEW x \in lo..(n + 1)
      PROVE  \E g : q2[x].from = node[g] /\ Fails(At(q2, label, x), g, P)
  <2>1. CASE x = n + 1
    BY <2>1, <1>0, <1>1, <1>2, <1>3
  <2>2. CASE x \in lo..n
    BY <2>2, <1>0, <1>3 DEF Failing, n
  <2> QED BY <2>1, <2>2, <1>4
<1>7. \A x \in lo..n : /\ At(q, label, x) \in Strings /\ Len(At(q, label, x)) \in Nat
                       /\ Len(p) <= Len(At(q, label, x)) /\ Len(At(q, label, x)) <= Len(p) + 1
  <2>1. \A x \in lo..n : At(q, label, x) \in Waits(q, lo, label)
    BY DEF Waits, n
  <2> QED BY <2>1, <1>0, StringFacts DEF Near
<1>8. ASSUME NEW x \in lo..(n + 1), NEW y \in lo..(n + 1), x <= y
      PROVE  /\ Len(At(q2, label, x)) <= Len(At(q2, label, y))
             /\ Len(At(q2, label, y)) <= Len(At(q2, label, x)) + 1
  <2>1. CASE x \in lo..n /\ y \in lo..n
    BY <2>1, <1>0, <1>3, <1>8 DEF Failing, n
  <2>2. CASE x \in lo..n /\ y = n + 1
    <3>1. PICK a, b : a = Len(At(q, label, x)) /\ b = Len(p)
      OBVIOUS
    <3>2. a \in Nat /\ b \in Nat /\ b <= a /\ a <= b + 1
      BY <3>1, <2>2, <1>2, <1>7
    <3>3. a <= b + 1 /\ b + 1 <= a + 1
      BY <3>2
    <3> QED BY <3>1, <3>3, <2>2, <1>0, <1>3
  <2>3. CASE x = n + 1 /\ y = n + 1
    <3>1. Len(At(q2, label, x)) = Len(p) + 1
      BY <2>3, <1>0, <1>3
    <3> QED BY <3>1, <2>3, <1>2
  <2>4. ~(x = n + 1 /\ y \in lo..n)
    BY <1>1, <1>8
  <2> QED BY <2>1, <2>2, <2>3, <2>4, <1>4
<1>9. Failing(q2, lo, P, node, label)
  BY <1>1, <1>6, <1>8 DEF Failing
<1> QED BY <1>5, <1>9 DEF Wider
-----------------------------------------------------------------------------
(* A state is visited, with what the table means.                            *)
SenseAt(a, p, rem, P, node, label) ==
  /\ Sense(a.states, Waits(a.queue, 2, label), p, rem, P, node)
  /\ Failing(a.queue, 2, P, node, label)

Fixed(P, node) == PreClosed(P) /\ Owned(wordsnum, P, node)

\* One column.
LEMMA ColumnSense ==
  ASSUME wordlist \in Seq(Words), NEW a, NEW p, NEW rem, NEW P, NEW node, NEW label,
         VisitAt(a, p, rem, P, node, label), SenseAt(a, p, rem, P, node, label), Fixed(P, node),
         NEW c \in rem, NEW h, h.to = node[p], NEW g, h.from = node[g], Fails(p, g, P)
  PROVE  SenseAt(Column(a, h, c), p, rem \ {c}, P, node, label)
<1>1. PICK t, q, W, l : t = a.states /\ q = a.queue /\ W = Waits(a.queue, 2, label) /\ l = t[node[p]][c]
  OBVIOUS
<1>2. PICK path : Fan(t, q, 2, path, p, rem, P, node, label)
  BY <1>1 DEF VisitAt, Fanned
<1>3. /\ Tree(t, P, node, label) /\ p \in P /\ rem \subseteq Chars /\ c \in Chars /\ Table(t)
      /\ t[node[p]][c] = IF Ext(p, c) \in P THEN node[Ext(p, c)] ELSE 0
      /\ Queued(t, q, 2, path, P, node, label)
      /\ \A x \in 2..Len(q) : ~Pre(path[x], p)
      /\ Closed(P) /\ PreClosed(P)
  BY <1>2 DEF Fan, Tree, Fixed
<1>4. /\ \A r \in P : node[r] \in AllRows /\ label[node[r]] = r /\ r \in Strings
      /\ \A r, s \in P : node[r] = node[s] => r = s
      /\ c \in Columns /\ KN \in Columns /\ KN \notin Chars
      /\ node[<<>>] = 0 /\ <<>> \in P
  BY <1>3, TreeFacts DEF Closed
<1>5. W \subseteq P /\ Ahead(W, p, P)
  <2>1. W = {path[x] : x \in 2..Len(q)} /\ W \subseteq P
    BY <1>1, <1>3, WaitsFacts
  <2> QED BY <2>1, <1>3 DEF Ahead
<1>6. Sense(t, W, p, rem, P, node) /\ Failing(q, 2, P, node, label)
  BY <1>1 DEF SenseAt
<1>7. /\ g \in P /\ g \in Strings /\ p \in Strings /\ Len(g) < Len(p)
      /\ \A r \in P : Len(r) <= Len(p) /\ r # p => ~Under(W, r) \/ \E w \in W : r = w
      /\ \A r \in P : Len(r) <= Len(p) => ~Below(W, r) /\ ~Rest(p, rem, r)
      /\ \A r \in P : Len(r) < Len(p) => ~Under(W, r)
  <2>1. g \in P /\ g \in Strings /\ p \in Strings /\ g # p /\ Suf(g, p)
    BY <1>3, <1>4 DEF Fails
  <2>2. Len(g) < Len(p)
    <3>1. ~(Len(p) <= Len(g))
      BY <2>1, SufFacts
    <3> QED BY <3>1, <2>1, StringFacts
  <2>3. \A w \in W : w \in Strings /\ Len(w) \in Nat /\ Len(p) <= Len(w)
    BY <1>4, <1>5, <1>6, StringFacts DEF Sense
  <2>4. \A r \in P : Len(r) < Len(p) => ~Under(W, r)
    <3> SUFFICES ASSUME NEW r \in P, Len(r) < Len(p), NEW w \in W, Pre(w, r) PROVE FALSE
      BY DEF Under
    <3>1. Len(w) <= Len(r) /\ Len(r) \in Nat /\ Len(p) \in Nat /\ Len(w) \in Nat /\ Len(p) <= Len(w)
      BY <1>4, <2>1, <2>3, StringFacts DEF Pre
    <3> QED BY <3>1
  <2>5. ASSUME NEW r \in P, Len(r) <= Len(p) PROVE ~Below(W, r) /\ ~Rest(p, rem, r)
    <3>1. Len(r) \in Nat /\ Len(p) \in Nat /\ r \in Strings
      BY <1>4, <2>1, StringFacts
    <3>2. ASSUME NEW w \in W, Pre(w, r), w # r PROVE FALSE
      <4>1. ~(Len(r) <= Len(w))
        BY <3>1, <3>2, <2>3, PreFacts
      <4>2. Len(w) \in Nat /\ Len(p) <= Len(w)
        BY <2>3
      <4> QED BY <4>1, <4>2, <3>1, <2>5
    <3>3. ASSUME NEW d \in rem, Pre(Ext(p, d), r) PROVE FALSE
      <4>1. Len(Ext(p, d)) = Len(p) + 1
        BY <1>3, <2>1, StringFacts
      <4>2. Len(Ext(p, d)) <= Len(r)
        BY <3>3 DEF Pre
      <4> QED BY <4>1, <4>2, <3>1, <2>5
    <3> QED BY <3>2, <3>3 DEF Below, Rest
  <2>6. ASSUME NEW r \in P, Len(r) <= Len(p), r # p PROVE ~Under(W, r) \/ \E w \in W : r = w
    BY <2>5, <2>6 DEF Under, Below
  <2> QED BY <2>1, <2>2, <2>4, <2>5, <2>6
<1>8. PICK f \in P : t[node[g]][c] = node[f] /\ Longest(Ext(g, c), f, P)
  <2>1. Len(g) <= Len(p) /\ g # p
    BY <1>7, StringFacts
  <2>2. Goes(t, g, P, node)
    BY <2>1, <1>6, <1>7 DEF Sense
  <2> QED BY <2>2, <1>3 DEF Goes, Leads
<1>9. /\ Ext(p, c) \in P => Fails(Ext(p, c), f, P)
      /\ Ext(p, c) \notin P => Longest(Ext(p, c), f, P)
      /\ Len(f) <= Len(p)
  BY <1>3, <1>8, FailNext
<1>10. CASE Ext(p, c) \in P
  <2>1. PICK e \in P : e = Ext(p, c)
    BY <1>10
  <2>2. l = node[e] /\ l # 0 /\ l \in AllRows /\ e \in Strings
    <3>1. e # <<>>
      BY <2>1, <1>3, <1>7, ExtFacts
    <3> QED BY <2>1, <3>1, <1>1, <1>3, <1>4
  <2>3. PICK v : v = t[node[f]][KN]
    OBVIOUS
  <2>4. Tells(v, f, node)
    BY <2>3, <1>6, <1>7, <1>9 DEF Sense
  <2>5. t[node[e]][KN] = Own(node, e)
    <3>1. Rest(p, rem, e)
      BY <2>1, <2>2, PreFacts DEF Rest
    <3> QED BY <3>1, <1>6 DEF Sense
  <2>6. PICK u : u = IF v = 0 THEN Own(node, e) ELSE IF node[f] \in 1..wordsnum THEN node[f] ELSE v
    OBVIOUS
  <2>7. Tells(u, e, node)
    <3>1. Fails(e, f, P) /\ Owned(wordsnum, P, node)
      BY <2>1, <1>9, <1>10 DEF Fixed
    <3> QED BY <2>4, <2>6, <3>1, <1>3, TellsNext
  <2>8. PICK t2, q2, k : /\ t2 = (IF v = 0 THEN t ELSE [t EXCEPT ![l][KN] = u])
                         /\ k = [from |-> node[f], to |-> node[e]] /\ q2 = Append(q, k)
    OBVIOUS
  <2>9. Column(a, h, c).states = t2 /\ Column(a, h, c).queue = q2
    <3>1. Column(a, h, c) = Child(a, l, node[f])
      BY <2>2, <1>1, <1>8 DEF Column
    <3>2. Child(a, l, node[f]).states = t2
      <4>1. CASE v = 0
        BY <4>1, <2>3, <2>8, <1>1 DEF Child
      <4>2. CASE v # 0
        BY <4>2, <2>3, <2>6, <2>8, <1>1 DEF Child
      <4> QED BY <4>1, <4>2
    <3>3. Child(a, l, node[f]).queue = q2
      BY <2>2, <2>8, <1>1 DEF Child
    <3> QED BY <3>1, <3>2, <3>3
  <2>10. /\ t2[node[e]][KN] = u
         /\ \A r \in P, d \in Columns : t2[node[r]][d] = t[node[r]][d] \/ (r = e /\ d = KN)
    <3>1. CASE v = 0
      BY <3>1, <2>5, <2>6, <2>8
    <3>2. CASE v # 0
      <4>1. t2 = [t EXCEPT ![l][KN] = u]
        BY <3>2, <2>8
      <4>2. \A s \in AllRows, d \in Columns : t2[s][d] = IF s = l /\ d = KN THEN u ELSE t[s][d]
        BY <4>1, <2>2, <1>3, <1>4 DEF Table
      <4> QED BY <4>2, <2>2, <1>4
    <3> QED BY <3>1, <3>2
  <2>11. Sense(t2, W \cup {e}, p, rem \ {c}, P, node)
    <3>1. t[node[p]][c] = node[Ext(p, c)]
      BY <1>3, <1>10
    <3>2. Kept(t2, t, Ext(p, c), KN, P, node)
      BY <2>1, <2>10 DEF Kept
    <3>3. Tells(t2[node[Ext(p, c)]][KN], Ext(p, c), node)
      BY <2>1, <2>7, <2>10
    <3>5. /\ PreClosed(P) /\ Closed(P) /\ p \in P /\ Ahead(W, p, P) /\ rem \subseteq Chars
          /\ Sense(t, W, p, rem, P, node)
      BY <1>3, <1>5, <1>6
    <3>4. Sense(t2, W \cup {Ext(p, c)}, p, rem \ {c}, P, node)
      BY <3>1, <3>2, <3>3, <3>5, <1>10, SenseChild, ZenonT(30)
    <3> QED BY <3>4, <2>1
  <2>12. Failing(q2, 2, P, node, label) /\ Waits(q2, 2, label) = W \cup {e}
    <3>1. q \in Seq(Entries) /\ 2 \in Nat /\ 2 >= 1 /\ 2 <= Len(q) + 1
      BY <1>1 DEF VisitAt, Visitor
    <3>2. Near(Waits(q, 2, label), p) /\ W = Waits(q, 2, label)
      BY <1>1, <1>4, <1>5, <1>6 DEF Sense, Near
    <3>3. Len(e) = Len(p) + 1
      BY <2>1, <1>3, <1>7, StringFacts
    <3>4. Fails(e, f, P) /\ label[node[e]] = e
      BY <2>1, <1>4, <1>9, <1>10
    <3>5. Failing(q, 2, P, node, label) /\ p \in Strings /\ e \in Strings
      BY <2>2, <1>6, <1>7
    <3>6. Joined(q2, q, e, f, node)
      BY <2>8 DEF Joined
    <3>8. PICK lo : lo = 2
      OBVIOUS
    <3>9. Ready(q, lo, p, P, node, label)
      BY <3>1, <3>2, <3>5, <3>8 DEF Ready
    <3>10. Follows(e, f, p, P, node, label)
      BY <3>3, <3>4, <3>5 DEF Follows
    <3>7. Wider(q2, q, e, lo, P, node, label)
      BY <3>6, <3>9, <3>10, FailingChild, ZenonT(30)
    <3> QED BY <3>2, <3>7, <3>8 DEF Wider
  <2> QED BY <2>9, <2>11, <2>12 DEF SenseAt
<1>11. CASE Ext(p, c) \notin P
  <2>1. l = 0
    BY <1>1, <1>3, <1>11
  <2>2. PICK t2 : t2 = [t EXCEPT ![node[p]][c] = node[f]]
    OBVIOUS
  <2>3. Column(a, h, c).states = t2 /\ Column(a, h, c).queue = q
    BY <2>1, <2>2, <1>1, <1>8 DEF Column
  <2>4. \A s \in AllRows, d \in Columns : t2[s][d] = IF s = node[p] /\ d = c THEN node[f] ELSE t[s][d]
    BY <2>2, <1>3, <1>4 DEF Table
  <2>5. /\ t2[node[p]][c] = node[f]
        /\ Kept(t2, t, p, c, P, node)
    BY <2>4, <1>3, <1>4 DEF Kept
  <2>6. Leads(t2[node[p]][c], p, c, P, node)
    BY <2>5, <1>9, <1>11 DEF Leads
  <2>7. Sense(t2, W, p, rem \ {c}, P, node)
    <3>1. /\ PreClosed(P) /\ p \in P /\ rem \subseteq Chars /\ Sense(t, W, p, rem, P, node)
      BY <1>3, <1>6
    <3> QED BY <3>1, <2>5, <2>6, <1>11, SenseFill, ZenonT(30)
  <2> QED BY <2>3, <2>7, <1>1, <1>6 DEF SenseAt
<1> QED BY <1>10, <1>11

\* Where a visit ends.
LEMMA VisitSense ==
  ASSUME wordlist \in Seq(Words), NEW p, NEW P, NEW node, NEW label,
         VisitAt([states |-> states, queue |-> queue], p, Chars, P, node, label),
         SenseAt([states |-> states, queue |-> queue], p, Chars, P, node, label), Fixed(P, node),
         NEW h \in Entries, h.to = node[p], Len(label[h.from]) < Len(p),
         NEW g, h.from = node[g], Fails(p, g, P)
  PROVE  VisitAt(Visit(h), p, {}, P, node, label) /\ SenseAt(Visit(h), p, {}, P, node, label)
<1> DEFINE z == [states |-> states, queue |-> queue]
           n == Len(Alphabet)
           a[j \in 0..n] == IF j = 0 THEN z ELSE Column(a[j - 1], h, Alphabet[j])
           Ok(b, j) == VisitAt(b, p, Left(j), P, node, label) /\ SenseAt(b, p, Left(j), P, node, label)
           S == {j \in Nat : j <= n => Ok(a[j], j)}
<1>0. n \in Nat
  BY LeftFacts
<1>1. a = [j \in 0..n |-> IF j = 0 THEN z ELSE Column(a[j - 1], h, Alphabet[j])]
  <2> HIDE DEF z
  <2>1. \E t : t = [k \in 0..n |-> IF k = 0 THEN z ELSE Column(t[k - 1], h, Alphabet[k])]
    <3>1. \E t : IsVisit(t, n, z, h)
      BY <1>0, VisitExists, Zenon
    <3> QED BY <3>1, Zenon DEF IsVisit
  <2> QED BY <2>1
<1>2. Visit(h) = a[n]
  BY DEF Visit
<1> HIDE DEF a, n
<1>3. 0 \in S
  <2>1. a[0] = z
    BY <1>0, <1>1
  <2> QED BY <2>1, LeftFacts
<1>4. ASSUME NEW j \in Nat, j \in S PROVE j + 1 \in S
  <2> SUFFICES ASSUME j + 1 <= n PROVE Ok(a[j + 1], j + 1)
    OBVIOUS
  <2>1. j <= n /\ j < n /\ j + 1 \in 0..n /\ j + 1 # 0 /\ (j + 1) - 1 = j
    BY <1>0
  <2>2. Ok(a[j], j)
    BY <2>1, <1>4
  <2>3. a[j + 1] = Column(a[j], h, Alphabet[j + 1])
    BY <1>1, <2>1
  <2>4. Alphabet[j + 1] \in Left(j) /\ Left(j) \ {Alphabet[j + 1]} = Left(j + 1)
    BY <2>1, LeftFacts DEF n
  <2> HIDE DEF S
  <2>5. VisitAt(Column(a[j], h, Alphabet[j + 1]), p, Left(j) \ {Alphabet[j + 1]}, P, node, label)
    BY <2>2, <2>4, ColumnStep, Zenon
  <2>6. SenseAt(Column(a[j], h, Alphabet[j + 1]), p, Left(j) \ {Alphabet[j + 1]}, P, node, label)
    BY <2>2, <2>4, ColumnSense, Zenon
  <2> QED BY <2>3, <2>4, <2>5, <2>6
<1> HIDE DEF S
<1>5. n \in S
  BY <1>0, <1>3, <1>4, SetInduction
<1>6. Ok(a[n], n)
  BY <1>0, <1>5 DEF S
<1> QED BY <1>2, <1>6, LeftFacts DEF n
-----------------------------------------------------------------------------
(* What it means between two visits.                                         *)
Grasp(t, W, P, node) ==
  /\ \A r \in P : ~Under(W, r) => Goes(t, r, P, node)
  /\ \A r \in P : ~Below(W, r) => Tells(t[node[r]][KN], r, node)
  /\ \A r \in P : Below(W, r) => t[node[r]][KN] = Own(node, r)

Sensible(t, q, P, node, label) ==
  Grasp(t, Waits(q, 1, label), P, node) /\ Failing(q, 1, P, node, label)

\* A visit begins.
LEMMA SenseBegins ==
  ASSUME wordlist \in Seq(Words), NEW t, NEW q, NEW path, NEW P, NEW node, NEW label,
         Tree(t, P, node, label), Queued(t, q, 1, path, P, node, label), Len(q) # 0,
         Sensible(t, q, P, node, label), Fixed(P, node)
  PROVE  /\ Sense(t, Waits(q, 2, label), path[1], Chars, P, node)
         /\ Failing(q, 2, P, node, label)
         /\ \E g : q[1].from = node[g] /\ Fails(path[1], g, P)
<1>1. /\ q \in Seq(Entries) /\ path \in [1..Len(q) -> P]
      /\ \A x, y \in 1..Len(q) : Pre(path[x], path[y]) => x = y
      /\ P \subseteq Strings
  BY DEF Queued, Entries, Tree, Closed
<1>2. PICK n \in Nat : n = Len(q) /\ n # 0
  BY <1>1
<1>3. 1 \in 1..n /\ 1..n = {1} \cup (2..n) /\ 1 \notin 2..n
  BY <1>2
<1>4. PICK p \in P : p = path[1]
  BY <1>1, <1>2, <1>3
<1>5. PICK W, V : W = Waits(q, 2, label) /\ V = Waits(q, 1, label)
  OBVIOUS
<1>6. /\ \A x \in 1..n : At(q, label, x) = path[x] /\ path[x] \in P
      /\ V = {path[x] : x \in 1..n}
  BY <1>2, <1>5, WaitsFacts
<1>7. W = {path[x] : x \in 2..n} /\ V = W \cup {p} /\ W \subseteq P
  BY <1>2, <1>3, <1>4, <1>5, <1>6 DEF Waits
<1>8. Grasp(t, V, P, node) /\ Failing(q, 1, P, node, label)
  BY <1>5 DEF Sensible
<1>9. ASSUME NEW r \in P PROVE Rest(p, Chars, r) <=> Pre(p, r) /\ p # r
  <2>1. p \in Strings /\ r \in Strings
    BY <1>1
  <2>2. ASSUME NEW c \in Chars, Pre(Ext(p, c), r) PROVE Pre(p, r) /\ p # r
    <3>1. Pre(p, r)
      BY <2>1, <2>2, PreExt
    <3>2. ~Pre(Ext(p, c), p)
      BY <2>1, ExtFacts
    <3> QED BY <3>1, <3>2, <2>2
  <2> QED BY <2>1, <2>2, PreMore DEF Rest
<1>10. \A r : /\ Under(V, r) <=> Under(W, r) \/ Pre(p, r)
              /\ Below(V, r) <=> Below(W, r) \/ (Pre(p, r) /\ p # r)
  BY <1>7 DEF Under, Below
<1>11. ASSUME NEW r \in P, r # p, ~Under(W, r), ~Rest(p, Chars, r) PROVE Goes(t, r, P, node)
  BY <1>8, <1>9, <1>10, <1>11 DEF Grasp
<1>12. ASSUME NEW r \in P, ~Below(W, r), ~Rest(p, Chars, r) PROVE Tells(t[node[r]][KN], r, node)
  BY <1>8, <1>9, <1>10, <1>12 DEF Grasp
<1>13. ASSUME NEW r \in P, Below(W, r) \/ Rest(p, Chars, r) PROVE t[node[r]][KN] = Own(node, r)
  BY <1>8, <1>9, <1>10, <1>13 DEF Grasp
<1>14. \A w \in W : Len(p) <= Len(w) /\ Len(w) <= Len(p) + 1
  <2>1. \A x \in 2..n : x \in 1..n /\ 1 <= x
    BY <1>2
  <2>2. \A x \in 2..n : Len(path[1]) <= Len(path[x]) /\ Len(path[x]) <= Len(path[1]) + 1
    BY <2>1, <1>2, <1>3, <1>6, <1>8 DEF Failing
  <2> QED BY <2>2, <1>4, <1>7
<1>15. Failing(q, 2, P, node, label)
  <2>1. \A x \in 2..n : x \in 1..n
    BY <1>2
  <2> QED BY <2>1, <1>2, <1>8 DEF Failing
<1>16. \E g : q[1].from = node[g] /\ Fails(p, g, P)
  BY <1>2, <1>3, <1>4, <1>6, <1>8 DEF Failing
<1>17. Sense(t, W, p, Chars, P, node)
  BY <1>11, <1>12, <1>13, <1>14 DEF Sense
<1> QED BY <1>4, <1>5, <1>15, <1>16, <1>17

\* No character is left.
LEMMA SenseGrasp ==
  ASSUME NEW t, NEW W, NEW p, NEW P, NEW node, Sense(t, W, p, {}, P, node)
  PROVE  Grasp(t, W, P, node)
<1>1. \A s : ~Rest(p, {}, s)
  BY DEF Rest
<1>2. ASSUME NEW s \in P, ~Under(W, s) PROVE Goes(t, s, P, node)
  <2>1. CASE s = p
    <3>1. \A c \in Chars : Leads(t[node[p]][c], p, c, P, node)
      BY DEF Sense
    <3> QED BY <3>1, <2>1 DEF Goes
  <2>2. CASE s # p
    BY <2>2, <1>1, <1>2 DEF Sense
  <2> QED BY <2>1, <2>2
<1>3. ASSUME NEW s \in P, ~Below(W, s) PROVE Tells(t[node[s]][KN], s, node)
  BY <1>1, <1>3 DEF Sense
<1>4. ASSUME NEW s \in P, Below(W, s) PROVE t[node[s]][KN] = Own(node, s)
  BY <1>4 DEF Sense
<1> QED BY <1>2, <1>3, <1>4 DEF Grasp

\* A visit is over.
LEMMA SenseOver ==
  ASSUME NEW t, NEW q \in Seq(Entries), Len(q) >= 1, NEW p, NEW P, NEW node, NEW label,
         Sense(t, Waits(q, 2, label), p, {}, P, node), Failing(q, 2, P, node, label)
  PROVE  Sensible(t, Tail(q), P, node, label)
<1>1. PICK n \in Nat : n = Len(q)
  OBVIOUS
<1>2. PICK r : r = Tail(q)
  OBVIOUS
<1>3. Len(r) = n - 1 /\ \A x \in 1..(n - 1) : r[x] = q[x + 1]
  <2>1. q # <<>>
    BY <1>1
  <2> QED BY <2>1, <1>1, <1>2
<1>4. /\ \A x \in 1..(n - 1) : x + 1 \in 2..n /\ At(r, label, x) = At(q, label, x + 1)
      /\ \A y \in 2..n : \E x \in 1..(n - 1) : y = x + 1
      /\ \A x, y \in 1..(n - 1) : x <= y => x + 1 <= y + 1
  <2>1. \A x \in 1..(n - 1) : x + 1 \in 2..n
    OBVIOUS
  <2>2. \A x \in 1..(n - 1) : At(r, label, x) = At(q, label, x + 1)
    BY <1>3 DEF At
  <2>3. \A y \in 2..n : y - 1 \in 1..(n - 1) /\ y = (y - 1) + 1
    OBVIOUS
  <2> QED BY <2>1, <2>2, <2>3
<1>5. Waits(r, 1, label) = Waits(q, 2, label)
  <2>1. \A x \in 1..(n - 1) : At(r, label, x) \in Waits(q, 2, label)
    BY <1>1, <1>4 DEF Waits
  <2>2. ASSUME NEW y \in 2..n PROVE At(q, label, y) \in Waits(r, 1, label)
    <3>1. PICK x \in 1..(n - 1) : y = x + 1
      BY <1>4
    <3>2. At(q, label, y) = At(r, label, x)
      BY <3>1, <1>4
    <3> QED BY <3>2, <1>3 DEF Waits
  <2> QED BY <2>1, <2>2, <1>1, <1>3 DEF Waits
<1>6. Failing(r, 1, P, node, label)
  <2>1. ASSUME NEW x \in 1..(n - 1) PROVE \E g : r[x].from = node[g] /\ Fails(At(r, label, x), g, P)
    <3>1. r[x] = q[x + 1] /\ x + 1 \in 2..n /\ At(r, label, x) = At(q, label, x + 1)
      BY <1>3, <1>4
    <3> QED BY <3>1, <1>1 DEF Failing
  <2>2. ASSUME NEW x \in 1..(n - 1), NEW y \in 1..(n - 1), x <= y
        PROVE  /\ Len(At(r, label, x)) <= Len(At(r, label, y))
               /\ Len(At(r, label, y)) <= Len(At(r, label, x)) + 1
    <3>1. /\ x + 1 \in 2..n /\ At(r, label, x) = At(q, label, x + 1)
          /\ y + 1 \in 2..n /\ At(r, label, y) = At(q, label, y + 1) /\ x + 1 <= y + 1
      BY <1>4, <2>2
    <3> QED BY <3>1, <1>1 DEF Failing
  <2> QED BY <2>1, <2>2, <1>3 DEF Failing
<1>7. Grasp(t, Waits(q, 2, label), P, node)
  BY SenseGrasp, Zenon
<1> QED BY <1>2, <1>5, <1>6, <1>7 DEF Sensible
-----------------------------------------------------------------------------
(* The states of depth 1.                                                    *)
FirstAt(q, rem, P, node, label) ==
  /\ q \in Seq(Entries)
  /\ Sense(states, Waits(q, 1, label), <<>>, rem, P, node) /\ Failing(q, 1, P, node, label)

\* When the words are inserted, every prefix holds its own number.
LEMMA FirstBegins ==
  ASSUME wordlist \in Seq(Words), NEW P, NEW node, NEW label, Fixed(P, node), Plain(states, P, node),
         Closed(P), node[<<>>] = 0
  PROVE  FirstAt(<<>>, Chars, P, node, label)
<1>1. /\ <<>> \in Seq(Entries) /\ Len(<<>>) = 0 /\ <<>> \in P /\ P \subseteq Strings
      /\ \A x : x \notin 1..0
  BY DEF Closed
<1>2. PICK p : p = <<>>
  OBVIOUS
<1>3. Waits(<<>>, 1, label) = {} /\ Failing(<<>>, 1, P, node, label)
  BY <1>1 DEF Waits, Failing
<1>4. \A r \in P : r # p => Rest(p, Chars, r)
  <2>1. \A r \in P : Pre(p, r) /\ r \in Strings
    BY <1>1, <1>2, PreFacts
  <2> QED BY <2>1, <1>1, <1>2, PreMore DEF Rest
<1>5. ~Rest(p, Chars, p)
  BY <1>1, <1>2, ExtFacts DEF Rest
<1>6. Tells(states[node[p]][KN], p, node)
  <2>1. \A r \in Spelled : Suf(r, p) => r = p
    <3>1. \A r \in Spelled : r \in Strings
      BY <1>1, OwnFacts DEF Fixed
    <3>2. ASSUME NEW r \in Spelled, Suf(r, p) PROVE r = p
      <4>1. r \in Strings /\ p \in Strings /\ Len(p) = 0 /\ Len(r) \in Nat
        BY <3>1, <1>1, <1>2, StringFacts
      <4>2. Len(p) <= Len(r)
        BY <4>1
      <4> QED BY <4>1, <4>2, <3>2, SufFacts
    <3> QED BY <3>2
  <2> QED BY <2>1, <1>1, <1>2 DEF Tells, Plain
<1>7. Sense(states, {}, p, Chars, P, node)
  <2>1. \A r : ~Below({}, r)
    BY DEF Below
  <2>2. \A r \in P : ~Below({}, r) /\ ~Rest(p, Chars, r) => Tells(states[node[r]][KN], r, node)
    BY <1>4, <1>6
  <2>3. \A r \in P : states[node[r]][KN] = Own(node, r)
    BY DEF Plain
  <2> QED BY <2>1, <2>2, <2>3, <1>4 DEF Sense
<1> QED BY <1>1, <1>2, <1>3, <1>7 DEF FirstAt

\* One character.
LEMMA FirstSense ==
  ASSUME wordlist \in Seq(Words), NEW q, NEW rem, NEW P, NEW node, NEW label,
         Fanned(states, q, 1, <<>>, rem, P, node, label), FirstAt(q, rem, P, node, label), Fixed(P, node),
         NEW j, Alphabet[j] \in rem
  PROVE  FirstAt(FirstOf(q, j), rem \ {Alphabet[j]}, P, node, label)
<1>1. PICK c, p, g, t, lo : c = Alphabet[j] /\ p = <<>> /\ g = 0 /\ t = states /\ lo = 1
  OBVIOUS
<1>2. PICK path : Fan(t, q, 1, path, p, rem, P, node, label)
  BY <1>1 DEF Fanned
<1>3. /\ Tree(t, P, node, label) /\ p \in P /\ c \in rem /\ c \in Chars /\ Table(t) /\ rem \subseteq Chars
      /\ t[node[p]][c] = IF Ext(p, c) \in P THEN node[Ext(p, c)] ELSE 0
      /\ Queued(t, q, 1, path, P, node, label)
      /\ \A x \in 1..Len(q) : ~Pre(path[x], p)
      /\ Closed(P) /\ PreClosed(P)
  BY <1>1, <1>2 DEF Fan, Tree, Fixed
<1>4. /\ \A r \in P : node[r] \in AllRows /\ label[node[r]] = r /\ r \in Strings
      /\ \A r, s \in P : node[r] = node[s] => r = s
      /\ c \in Columns /\ KN \in Columns /\ KN \notin Chars
      /\ node[p] = 0 /\ Len(p) = 0 /\ p \in Strings
  BY <1>1, <1>3, TreeFacts
<1>5. PICK W : W = Waits(q, lo, label)
  OBVIOUS
<1>6. W \subseteq P /\ Ahead(W, p, P)
  <2>1. W = {path[x] : x \in 1..Len(q)} /\ W \subseteq P
    BY <1>1, <1>3, <1>5, WaitsFacts
  <2> QED BY <2>1, <1>3 DEF Ahead
<1>7. Sense(t, W, p, rem, P, node) /\ Failing(q, lo, P, node, label) /\ q \in Seq(Entries)
  BY <1>1, <1>5 DEF FirstAt
<1>8. (Ext(p, c) \notin P => Longest(Ext(p, c), p, P)) /\ Fails(Ext(p, c), p, P)
  BY <1>1, <1>3, LongestOne
<1>9. \A r, d : Kept(t, t, r, d, P, node)
  BY DEF Kept
<1>10. CASE Ext(p, c) \in P
  <2>1. PICK e \in P : e = Ext(p, c)
    BY <1>10
  <2>2. t[node[p]][c] = node[e] /\ node[e] # 0 /\ e \in Strings /\ Len(e) = Len(p) + 1
    <3>1. e # p
      BY <2>1, <1>3, <1>4, ExtFacts
    <3>2. node[e] # 0
      BY <3>1, <1>3, <1>4
    <3>3. e \in Strings /\ Len(e) = Len(p) + 1
      BY <2>1, <1>3, <1>4, StringFacts
    <3> QED BY <3>2, <3>3, <2>1, <1>3
  <2>3. PICK q2 : q2 = Append(q, [from |-> node[p], to |-> node[e]])
    OBVIOUS
  <2>4. FirstOf(q, j) = q2
    BY <2>2, <2>3, <1>1, <1>4 DEF FirstOf
  <2>5. Tells(t[node[e]][KN], e, node)
    <3>1. t[node[e]][KN] = Own(node, e)
      <4>1. Rest(p, rem, e)
        BY <2>1, <2>2, <1>3, PreFacts DEF Rest
      <4> QED BY <4>1, <1>7 DEF Sense
    <3>2. ASSUME NEW r \in Spelled, Suf(r, e), r # e PROVE FALSE
      <4>1. r \in P /\ r # p /\ r \in Strings
        BY <1>1, <1>3, OwnFacts DEF Fixed
      <4>2. Len(r) <= Len(p) /\ Len(r) \in Nat
        BY <4>1, <3>2, <2>1, <1>8, StringFacts DEF Fails
      <4> QED BY <4>1, <4>2, <1>1, <1>4, StringFacts
    <3> QED BY <3>1, <3>2 DEF Tells
  <2>6. Sense(t, W \cup {e}, p, rem \ {c}, P, node)
    <3>1. t[node[p]][c] = node[Ext(p, c)] /\ Tells(t[node[Ext(p, c)]][KN], Ext(p, c), node)
      BY <2>1, <2>2, <2>5
    <3>2. Sense(t, W \cup {Ext(p, c)}, p, rem \ {c}, P, node)
      BY <3>1, <1>3, <1>6, <1>7, <1>9, <1>10, SenseChild, ZenonT(30)
    <3> QED BY <3>2, <2>1
  <2>7. Wider(q2, q, e, lo, P, node, label)
    <3>1. Near(W, p)
      BY <1>4, <1>6, <1>7 DEF Sense, Near
    <3>2. lo \in Nat /\ lo >= 1 /\ lo <= Len(q) + 1
      BY <1>1, <1>7
    <3>3. Ready(q, lo, p, P, node, label)
      BY <3>1, <3>2, <1>5, <1>7 DEF Ready
    <3>4. Follows(e, p, p, P, node, label)
      BY <2>1, <2>2, <1>4, <1>8 DEF Follows
    <3>5. Joined(q2, q, e, p, node)
      BY <2>3 DEF Joined
    <3> QED BY <3>3, <3>4, <3>5, FailingChild, ZenonT(30)
  <2>8. q2 \in Seq(Entries)
    <3>1. [from |-> node[p], to |-> node[e]] \in Entries
      BY <1>3, <1>4 DEF Entries
    <3> QED BY <3>1, <2>3, <1>7
  <2> QED BY <2>4, <2>6, <2>7, <2>8, <1>1, <1>5 DEF Wider, FirstAt
<1>11. CASE Ext(p, c) \notin P
  <2>1. FirstOf(q, j) = q
    BY <1>1, <1>3, <1>4, <1>11 DEF FirstOf
  <2>2. Leads(t[node[p]][c], p, c, P, node)
    BY <1>3, <1>4, <1>8, <1>11 DEF Leads
  <2>3. Sense(t, W, p, rem \ {c}, P, node)
    BY <2>2, <1>3, <1>7, <1>9, <1>11, SenseFill, ZenonT(30)
  <2> QED BY <2>1, <2>3, <1>1, <1>5, <1>7 DEF FirstAt
<1> QED BY <1>10, <1>11

\* All of them.
LEMMA FirstOver ==
  ASSUME wordlist \in Seq(Words), NEW P, NEW node, NEW label, Fixed(P, node),
         Fanned(states, <<>>, 1, <<>>, Chars, P, node, label), FirstAt(<<>>, Chars, P, node, label)
  PROVE  FirstAt(FirstStates, {}, P, node, label)
<1> DEFINE n == Len(Alphabet)
           a[j \in 0..n] == IF j = 0 THEN <<>> ELSE FirstOf(a[j - 1], j)
           Ok(q, j) == /\ q \in Seq(Entries) /\ Fanned(states, q, 1, <<>>, Left(j), P, node, label)
                       /\ FirstAt(q, Left(j), P, node, label)
           S == {j \in Nat : j <= n => Ok(a[j], j)}
<1>0. n \in Nat
  BY LeftFacts
<1>1. a = [j \in 0..n |-> IF j = 0 THEN <<>> ELSE FirstOf(a[j - 1], j)]
  <2>1. \E t : t = [k \in 0..n |-> IF k = 0 THEN <<>> ELSE FirstOf(t[k - 1], k)]
    <3>1. \E t : IsFirst(t, n)
      BY <1>0, FirstExists, Zenon
    <3> QED BY <3>1, Zenon DEF IsFirst
  <2> QED BY <2>1
<1>2. FirstStates = a[n]
  BY DEF FirstStates, FirstOf
<1> HIDE DEF a, n
<1>3. 0 \in S
  <2>1. a[0] = <<>> /\ <<>> \in Seq(Entries)
    BY <1>0, <1>1
  <2> QED BY <2>1, LeftFacts
<1>4. ASSUME NEW j \in Nat, j \in S PROVE j + 1 \in S
  <2> SUFFICES ASSUME j + 1 <= n PROVE Ok(a[j + 1], j + 1)
    OBVIOUS
  <2>1. j <= n /\ j < n /\ j + 1 \in 0..n /\ j + 1 # 0 /\ (j + 1) - 1 = j
    BY <1>0
  <2>2. Ok(a[j], j)
    BY <2>1, <1>4
  <2>3. a[j + 1] = FirstOf(a[j], j + 1)
    BY <1>1, <2>1
  <2>4. Alphabet[j + 1] \in Left(j) /\ Left(j) \ {Alphabet[j + 1]} = Left(j + 1)
    BY <2>1, LeftFacts DEF n
  <2> HIDE DEF S
  <2>5. /\ FirstOf(a[j], j + 1) \in Seq(Entries)
        /\ Fanned(states, FirstOf(a[j], j + 1), 1, <<>>, Left(j) \ {Alphabet[j + 1]}, P, node, label)
    BY <2>2, <2>4, FirstStep, Zenon
  <2>6. FirstAt(FirstOf(a[j], j + 1), Left(j) \ {Alphabet[j + 1]}, P, node, label)
    BY <2>2, <2>4, FirstSense, Zenon
  <2> QED BY <2>3, <2>4, <2>5, <2>6
<1> HIDE DEF S
<1>5. n \in S
  BY <1>0, <1>3, <1>4, SetInduction
<1>6. Ok(a[n], n)
  BY <1>0, <1>5 DEF S
<1> QED BY <1>2, <1>6, LeftFacts DEF n
-----------------------------------------------------------------------------
(* The table that is ready, and where a search is in it.                     *)
\* P holds the prefixes of the words, node[p] is the state of p.
Meaning(t, P, node) ==
  /\ Closed(P) /\ Owned(wordsnum, P, node)
  /\ node[<<>>] = 0
  /\ \A p \in P : node[p] \in Nat /\ node[p] \in DOMAIN t /\ (node[p] = 0 => p = <<>>)
  /\ \A p \in P : Tells(t[node[p]][KN], p, node)
  /\ \A p \in P, c \in Chars : Leads(t[node[p]][c], p, Folded(c), P, node)

\* After u a search is in the state of the longest suffix of u that begins a word.
Stands(s, u, P, node) == \E q : s = node[q] /\ Longest(u, q, P)

Sensing ==
  phase = "fill" =>
    \E node, label : /\ Waiting(states, queue, Known(wordsnum), node, label)
                     /\ Sensible(states, queue, Known(wordsnum), node, label)
                     /\ Owned(wordsnum, Known(wordsnum), node)

Searching ==
  phase = "idle" /\ states # <<>> /\ Current =>
    \E node : /\ Meaning(states, Known(wordsnum), node)
              /\ call # "none" => Stands(state, Same(text), Known(wordsnum), node)

\* The inductive invariant of the searches.
SInv == IInv /\ Sensing /\ Searching /\ WordReported /\ LongestReported

\* Operators of the words stay as they are while the words and the model do.
LEMMA SenseSteady ==
  ASSUME wordlist' = wordlist, matchcase' = matchcase
  PROVE  /\ Spelled' = Spelled
         /\ \A P, node : Owned(wordsnum, P, node)' = Owned(wordsnum, P, node)
         /\ \A t, q, P, node, label :
              Sensible(t, q, P, node, label) => Sensible(t, q, P, node, label)'
         /\ \A t, P, node : Meaning(t, P, node) => Meaning(t, P, node)'
<1>1. wordsnum' = wordsnum /\ \A i : Word(i)' = Word(i)
  BY Steady
<1>2. Spelled' = Spelled
  BY <1>1 DEF Spelled
<1>3. \A P, node : Owned(wordsnum, P, node)' = Owned(wordsnum, P, node)
  BY <1>1 DEF Owned
<1>4. \A v, p, node : Tells(v, p, node)' = Tells(v, p, node)
  BY <1>1, <1>2 DEF Tells, Own
<1>5. \A node, p : Own(node, p)' = Own(node, p)
  BY <1>1 DEF Own
<1>6. \A c : Folded(c)' = Folded(c)
  BY DEF Folded
<1>7. \A t, W, P, node : Grasp(t, W, P, node) => Grasp(t, W, P, node)'
  BY <1>4, <1>5 DEF Grasp
<1>8. \A t, q, P, node, label : Sensible(t, q, P, node, label) => Sensible(t, q, P, node, label)'
  BY <1>7 DEF Sensible
<1>9. \A t, P, node : Meaning(t, P, node) => Meaning(t, P, node)'
  BY <1>1, <1>3, <1>4, <1>6 DEF Meaning
<1> QED BY <1>2, <1>3, <1>8, <1>9

\* The words are inserted: the walk begins.
LEMMA InsertedSense ==
  ASSUME IInv, Inserted
  PROVE  Sensing'
<1>1. /\ TypeOK /\ Inserting /\ wordlist \in Seq(Words)
      /\ phase = "insert" /\ next_word \in 1..(wordsnum + 1) /\ next_word > wordsnum
  BY DEF IInv, TypeOK, Inserting, Inserted
<1>2. /\ wordlist' = wordlist /\ matchcase' = matchcase /\ queue' = FirstStates
      /\ states' = states /\ usedstates' = usedstates
  BY DEF Inserted, table, entry
<1>3. wordsnum \in Nat /\ next_word - 1 = wordsnum
  <2>1. wordsnum \in Nat
    BY <1>1, WordFacts
  <2> QED BY <2>1, <1>1
<1>4. PICK P, t, q : P = Known(wordsnum) /\ t = states /\ q = FirstStates
  OBVIOUS
<1>5. PICK node, label : Shape(t, usedstates, wordsnum, P, node, label)
  BY <1>1, <1>3, <1>4 DEF Inserting, Shaped
<1>6. /\ Owned(wordsnum, P, node) /\ Plain(t, P, node) /\ Closed(P) /\ node[<<>>] = 0
  BY <1>5 DEF Shape, Nodes
<1>7. Tree(t, P, node, label) /\ Fanned(t, <<>>, 1, <<>>, Chars, P, node, label)
  BY <1>1, <1>4, <1>5, ShapeTree
<1>8. PreClosed(P)
  <2>1. wordsnum \in 0..wordsnum
    BY <1>3
  <2> QED BY <2>1, <1>1, <1>4, KnownClosed
<1>9. Fixed(P, node)
  BY <1>6, <1>8 DEF Fixed
<1>10. FirstAt(<<>>, Chars, P, node, label)
  BY <1>1, <1>4, <1>6, <1>9, FirstBegins
<1>11. FirstAt(q, {}, P, node, label)
  BY <1>1, <1>4, <1>7, <1>9, <1>10, FirstOver
<1>12. Fanned(t, q, 1, <<>>, {}, P, node, label)
  BY <1>1, <1>4, <1>7, FirstEnds
<1>13. Waiting(t, q, P, node, label)
  BY <1>7, <1>12 DEF Fanned, Fan, Waiting
<1>14. Sensible(t, q, P, node, label)
  <2>1. Sense(t, Waits(q, 1, label), <<>>, {}, P, node) /\ Failing(q, 1, P, node, label)
    BY <1>4, <1>11 DEF FirstAt
  <2> QED BY <2>1, SenseGrasp DEF Sensible
<1>15. Known(wordsnum)' = P /\ Owned(wordsnum, P, node)'
  BY <1>2, <1>4, <1>6, Steady, SenseSteady
<1>16. Waiting(t, q, P, node, label)' /\ Sensible(t, q, P, node, label)'
  BY <1>2, <1>13, <1>14, TreeSteady, SenseSteady
<1> QED BY <1>2, <1>4, <1>15, <1>16 DEF Sensing

\* A state is visited.
LEMMA FillSense ==
  ASSUME IInv, Sensing, Fill
  PROVE  Sensing'
<1>1. /\ wordlist \in Seq(Words) /\ phase = "fill" /\ queue # <<>>
  BY DEF IInv, TypeOK, Fill
<1>2. PICK P : P = Known(wordsnum)
  OBVIOUS
<1>3. PICK node, label : /\ Waiting(states, queue, P, node, label)
                         /\ Sensible(states, queue, P, node, label)
                         /\ Owned(wordsnum, P, node)
  BY <1>1, <1>2 DEF Sensing
<1>4. PICK path : Tree(states, P, node, label) /\ Queued(states, queue, 1, path, P, node, label)
  BY <1>3 DEF Waiting
<1>5. PICK p, h, t, q : p = path[1] /\ h = queue[1] /\ t = Visit(h).states /\ q = Tail(Visit(h).queue)
  OBVIOUS
<1>6. Len(queue) # 0 /\ Head(queue) = h
  BY <1>1, <1>4, <1>5 DEF Queued
<1>7. /\ wordlist' = wordlist /\ matchcase' = matchcase /\ usedstates' = usedstates
      /\ states' = t /\ queue' = q
  BY <1>5, <1>6 DEF Fill, entry
<1>8. /\ Fanned(states, queue, 2, p, Chars, P, node, label) /\ Table(states)
      /\ h \in Entries /\ h.to = node[p] /\ Len(label[h.from]) < Len(p)
      /\ Len(queue) >= 1 /\ queue \in Seq(Entries)
  BY <1>1, <1>4, <1>5, <1>6, VisitBegins
<1>9. Fixed(P, node)
  <2>1. wordsnum \in 0..wordsnum
    BY <1>1, WordFacts
  <2> QED BY <2>1, <1>1, <1>2, <1>3, KnownClosed DEF Fixed
<1>10. /\ Sense(states, Waits(queue, 2, label), p, Chars, P, node) /\ Failing(queue, 2, P, node, label)
       /\ \E g : h.from = node[g] /\ Fails(p, g, P)
  <2>1. PICK s, k : s = states /\ k = queue
    OBVIOUS
  <2>2. /\ Tree(s, P, node, label) /\ Queued(s, k, 1, path, P, node, label) /\ Len(k) # 0
        /\ Sensible(s, k, P, node, label)
    BY <2>1, <1>3, <1>4, <1>6
  <2>3. /\ Sense(s, Waits(k, 2, label), path[1], Chars, P, node) /\ Failing(k, 2, P, node, label)
        /\ \E g : k[1].from = node[g] /\ Fails(path[1], g, P)
    BY <2>2, <1>1, <1>9, SenseBegins
  <2> QED BY <2>1, <2>3, <1>5
<1>11. PICK g : h.from = node[g] /\ Fails(p, g, P)
  BY <1>10
<1>12. /\ VisitAt([states |-> states, queue |-> queue], p, Chars, P, node, label)
       /\ SenseAt([states |-> states, queue |-> queue], p, Chars, P, node, label)
  BY <1>8, <1>10 DEF VisitAt, Visitor, Table, SenseAt
<1>13. VisitAt(Visit(h), p, {}, P, node, label) /\ SenseAt(Visit(h), p, {}, P, node, label)
  BY <1>1, <1>8, <1>9, <1>11, <1>12, VisitSense, Zenon
<1>14. PICK k : k = Visit(h).queue
  OBVIOUS
<1>15. k \in Seq(Entries) /\ Len(k) >= 1 /\ Fanned(t, k, 2, p, {}, P, node, label)
  BY <1>5, <1>13, <1>14 DEF VisitAt, Visitor
<1>16. Waiting(t, q, P, node, label)
  BY <1>5, <1>14, <1>15, VisitOver
<1>17. Sense(t, Waits(k, 2, label), p, {}, P, node) /\ Failing(k, 2, P, node, label)
  BY <1>5, <1>13, <1>14 DEF SenseAt
<1>18. Sensible(t, q, P, node, label)
  BY <1>5, <1>14, <1>15, <1>17, SenseOver
<1>19. Known(wordsnum)' = P /\ Owned(wordsnum, P, node)'
  BY <1>2, <1>3, <1>7, Steady, SenseSteady
<1>20. Waiting(t, q, P, node, label)' /\ Sensible(t, q, P, node, label)'
  BY <1>7, <1>16, <1>18, TreeSteady, SenseSteady
<1> QED BY <1>7, <1>19, <1>20 DEF Sensing

\* The walk is over: every state has its meaning, for the characters as they are.
LEMMA FilledMeans ==
  ASSUME wordlist \in Seq(Words), NEW t, NEW q, Len(q) = 0, NEW P, NEW node, NEW label,
         Waiting(t, q, P, node, label), Sensible(t, q, P, node, label), Owned(wordsnum, P, node),
         NEW k, k = usedstates, NEW t2,
         t2 = [s \in DOMAIN t |-> [c \in Columns |-> IF c = KN \/ s >= k THEN t[s][c] ELSE t[s][Folded(c)]]]
  PROVE  Meaning(t2, P, node)
<1>1. Tree(t, P, node, label)
  BY DEF Waiting
<1>2. /\ \A p \in P : node[p] \in Nat /\ node[p] < k /\ node[p] \in AllRows
      /\ \A p, r \in P : node[p] = node[r] => p = r
      /\ Chars \subseteq Columns /\ KN \in Columns /\ KN \notin Chars /\ node[<<>>] = 0
      /\ Closed(P) /\ <<>> \in P /\ DOMAIN t = AllRows /\ k \in Nat
  <2>1. /\ \A p \in P : node[p] \in Nat /\ node[p] < usedstates /\ node[p] \in AllRows
        /\ \A p, r \in P : node[p] = node[r] => p = r
        /\ Chars \subseteq Columns /\ KN \in Columns /\ KN \notin Chars /\ node[<<>>] = 0
        /\ usedstates \in Nat
    BY <1>1, TreeFacts
  <2>2. Closed(P) /\ <<>> \in P
    BY <1>1 DEF Tree, Closed
  <2>3. DOMAIN t = AllRows
    BY <1>1 DEF Tree, Table
  <2> QED BY <2>1, <2>2, <2>3
<1>3. Waits(q, 1, label) = {}
  <2>1. 1..0 = {}
    OBVIOUS
  <2> QED BY <2>1 DEF Waits
<1>4. \A r : ~Under({}, r) /\ ~Below({}, r)
  BY DEF Under, Below
<1>5. \A r \in P : Goes(t, r, P, node) /\ Tells(t[node[r]][KN], r, node)
  BY <1>3, <1>4 DEF Sensible, Grasp
<1>6. \A p \in P : t2[node[p]][KN] = t[node[p]][KN]
  BY <1>2
<1>7. ASSUME NEW p \in P, NEW c \in Chars PROVE Leads(t2[node[p]][c], p, Folded(c), P, node)
  <2>1. Folded(c) \in Chars
    BY FoldedFacts
  <2>2. ~(node[p] >= k)
    BY <1>2
  <2>3. t2[node[p]][c] = t[node[p]][Folded(c)]
    BY <2>2, <1>2
  <2> QED BY <2>1, <2>3, <1>5 DEF Goes
<1>8. \A p \in P : node[p] \in DOMAIN t2 /\ (node[p] = 0 => p = <<>>)
  BY <1>2
<1> QED BY <1>2, <1>5, <1>6, <1>7, <1>8 DEF Meaning

LEMMA FilledSense ==
  ASSUME IInv, Sensing, Filled
  PROVE  Searching'
<1>1. wordlist \in Seq(Words) /\ phase = "fill" /\ queue = <<>> /\ call = "none"
  BY DEF IInv, TypeOK, PhaseInv, Filled
<1>2. /\ wordlist' = wordlist /\ matchcase' = matchcase /\ call' = call
  BY DEF Filled, entry, search
<1>3. PICK P, t, q, k, t2 : P = Known(wordsnum) /\ t = states /\ q = queue /\ k = usedstates /\ t2 = states'
  OBVIOUS
<1>4. PICK node, label : Waiting(t, q, P, node, label) /\ Sensible(t, q, P, node, label) /\ Owned(wordsnum, P, node)
  BY <1>1, <1>3 DEF Sensing
<1>5. /\ t2 = [s \in DOMAIN t |-> [c \in Columns |-> IF c = KN \/ s >= k THEN t[s][c] ELSE t[s][Folded(c)]]]
      /\ Len(q) = 0
  BY <1>1, <1>3 DEF Filled
<1>6. Meaning(t2, P, node)
  BY <1>1, <1>3, <1>4, <1>5, FilledMeans
<1>7. Meaning(t2, P, node)' /\ Known(wordsnum)' = P
  BY <1>2, <1>3, <1>6, SenseSteady, Steady
<1> QED BY <1>1, <1>2, <1>3, <1>7 DEF Searching
-----------------------------------------------------------------------------
(* The searches.                                                             *)
\* IsSuffix compares the strings from behind.
LEMMA SuffixFacts ==
  \A s, u \in Strings : IsSuffix(s, u) <=> Suf(s, u)
<1> SUFFICES ASSUME NEW s \in Strings, NEW u \in Strings PROVE IsSuffix(s, u) <=> Suf(s, u)
  OBVIOUS
<1>1. PICK a, b \in Nat : a = Len(s) /\ b = Len(u)
  BY StringFacts
<1>2. PICK v, w : v = Reverse(s) /\ w = Reverse(u)
  OBVIOUS
<1>3. /\ v = [i \in 1..a |-> s[(a - i) + 1]] /\ w = [i \in 1..b |-> u[(b - i) + 1]]
  BY <1>1, <1>2 DEF Reverse
<1>4. v \in Strings /\ w \in Strings /\ Len(v) = a /\ Len(w) = b
  <2>1. \A i \in 1..a : (a - i) + 1 \in 1..a /\ s[(a - i) + 1] \in Chars
    <3>1. \A i \in 1..a : (a - i) + 1 \in 1..a
      OBVIOUS
    <3>2. \A x \in 1..a : s[x] \in Chars
      BY <1>1, StringFacts
    <3> QED BY <3>1, <3>2
  <2>2. \A i \in 1..b : (b - i) + 1 \in 1..b /\ u[(b - i) + 1] \in Chars
    <3>1. \A i \in 1..b : (b - i) + 1 \in 1..b
      OBVIOUS
    <3>2. \A x \in 1..b : u[x] \in Chars
      BY <1>1, StringFacts
    <3> QED BY <3>1, <3>2
  <2>3. v \in [1..a -> Chars] /\ w \in [1..b -> Chars]
    BY <2>1, <2>2, <1>3
  <2> QED BY <2>3 DEF Strings
<1>5. IsSuffix(s, u) <=> a <= b /\ SubSeq(v, 1, a) = SubSeq(w, 1, a)
  BY <1>2, <1>4 DEF IsSuffix, IsPrefix
<1>6. ASSUME a <= b PROVE SubSeq(v, 1, a) = SubSeq(w, 1, a) <=> \A i \in 1..a : v[i] = w[i]
  <2>1. /\ SubSeq(v, 1, a) \in Strings /\ SubSeq(w, 1, a) \in Strings
        /\ Len(SubSeq(v, 1, a)) = a /\ Len(SubSeq(w, 1, a)) = a
        /\ \A i \in 1..a : SubSeq(v, 1, a)[i] = v[i] /\ SubSeq(w, 1, a)[i] = w[i]
    BY <1>4, <1>6 DEF Strings
  <2> QED BY <2>1, StringFacts
<1>7. ASSUME a <= b PROVE (\A i \in 1..a : v[i] = w[i]) <=> \A x \in 1..a : s[x] = u[b - a + x]
  <2>1. \A i \in 1..a : /\ (a - i) + 1 \in 1..a /\ i \in 1..b /\ b - a + ((a - i) + 1) = (b - i) + 1
                        /\ (a - ((a - i) + 1)) + 1 = i
    BY <1>7
  <2>2. \A i \in 1..a : v[i] = s[(a - i) + 1] /\ w[i] = u[b - a + ((a - i) + 1)]
    BY <2>1, <1>3
  <2>3. ASSUME \A i \in 1..a : v[i] = w[i], NEW x \in 1..a PROVE s[x] = u[b - a + x]
    <3>1. PICK i \in 1..a : x = (a - i) + 1
      BY <2>1
    <3> QED BY <3>1, <2>2, <2>3
  <2>4. ASSUME \A x \in 1..a : s[x] = u[b - a + x], NEW i \in 1..a PROVE v[i] = w[i]
    BY <2>1, <2>2, <2>4
  <2> QED BY <2>3, <2>4
<1> QED BY <1>1, <1>5, <1>6, <1>7 DEF Suf

\* A character is read.
LEMMA StandsNext ==
  ASSUME NEW t, NEW P, NEW node, Meaning(t, P, node), NEW s, NEW u \in Seq(Chars), NEW c \in Chars,
         Stands(s, Same(u), P, node)
  PROVE  Stands(t[s][c], Same(Append(u, c)), P, node)
<1>1. PICK g : s = node[g] /\ Longest(Same(u), g, P)
  BY DEF Stands
<1>2. Closed(P) /\ g \in P /\ Leads(t[s][c], g, Folded(c), P, node)
  BY <1>1 DEF Longest, Meaning
<1>3. PICK q \in P : t[s][c] = node[q] /\ Longest(Ext(g, Folded(c)), q, P)
  BY <1>2 DEF Leads
<1>4. Same(u) \in Strings /\ Folded(c) \in Chars /\ u \in Strings
  BY FoldedFacts DEF Strings
<1>5. Longest(Ext(Same(u), Folded(c)), q, P)
  BY <1>1, <1>2, <1>3, <1>4, ReadLongest
<1>6. Same(Append(u, c)) = Ext(Same(u), Folded(c))
  <2>1. PICK v, w, d : v = Append(u, c) /\ w = Same(u) /\ d = Folded(c)
    OBVIOUS
  <2>2. PICK n \in Nat : n = Len(u)
    BY <1>4, StringFacts
  <2>3. v \in Strings /\ Len(v) = n + 1 /\ v[n + 1] = c /\ \A x \in 1..n : v[x] = u[x]
    BY <2>1, <2>2 DEF Strings
  <2>4. /\ Same(v) \in Strings /\ Len(Same(v)) = n + 1
        /\ \A x \in 1..(n + 1) : Same(v)[x] = Folded(v[x])
    BY <2>3, FoldedFacts
  <2>5. w \in Strings /\ Len(w) = n /\ \A x \in 1..n : w[x] = Folded(u[x])
    BY <2>1, <2>2, <1>4, FoldedFacts
  <2>6. /\ Ext(w, d) \in Strings /\ Len(Ext(w, d)) = Len(w) + 1 /\ Ext(w, d)[Len(w) + 1] = d
        /\ \A x \in 1..Len(w) : Ext(w, d)[x] = w[x]
    <3>1. w \in Strings /\ d \in Chars
      BY <2>1, <1>4
    <3> QED BY <3>1, StringFacts, Zenon
  <2>7. /\ Ext(w, d) \in Strings /\ Len(Ext(w, d)) = n + 1 /\ Ext(w, d)[n + 1] = d
        /\ \A x \in 1..n : Ext(w, d)[x] = w[x]
    BY <2>5, <2>6
  <2>8. ASSUME NEW x \in 1..(n + 1) PROVE Same(v)[x] = Ext(w, d)[x]
    <3>1. CASE x = n + 1
      BY <3>1, <2>1, <2>3, <2>4, <2>7
    <3>2. CASE x # n + 1
      <4>1. x \in 1..n
        BY <3>2
      <4> QED BY <4>1, <2>3, <2>4, <2>5, <2>7
    <3> QED BY <3>1, <3>2
  <2>9. Same(v) = Ext(w, d)
    BY <2>4, <2>7, <2>8, StringFacts
  <2> QED BY <2>1, <2>9
<1> QED BY <1>3, <1>5, <1>6 DEF Stands

\* A state with the number of a word, where a word ends, is the word's own.
LEMMA AtWord ==
  ASSUME wordlist \in Seq(Words), NEW t, NEW P, NEW node, Meaning(t, P, node), NEW q \in P,
         t[node[q]][KN] # 0, node[q] <= wordsnum
  PROVE  q \in Spelled /\ node[q] \in 1..wordsnum
<1>1. /\ Closed(P) /\ Owned(wordsnum, P, node) /\ q \in Strings
      /\ node[q] \in Nat /\ (node[q] = 0 => q = <<>>) /\ Tells(t[node[q]][KN], q, node)
  BY DEF Meaning, Closed
<1>2. /\ Spelled \subseteq P /\ P \subseteq Strings /\ <<>> \notin Spelled
      /\ \A p \in P \ Spelled : node[p] \notin 1..wordsnum /\ Own(node, p) = 0
  BY <1>1, OwnFacts
<1>3. q # <<>>
  <2> SUFFICES ASSUME q = <<>> PROVE FALSE
    OBVIOUS
  <2>1. t[node[q]][KN] # Own(node, q)
    BY <1>2
  <2>2. PICK g : Fails(q, g, Spelled)
    BY <2>1, <1>1 DEF Tells
  <2>3. g \in Strings /\ Suf(g, q) /\ g # q
    BY <2>2, <1>2 DEF Fails
  <2>4. Len(q) <= Len(g)
    BY <2>3, StringFacts
  <2> QED BY <2>3, <2>4, <1>1, SufFacts
<1>4. node[q] \in 1..wordsnum
  <2>1. PICK n : n = node[q]
    OBVIOUS
  <2>2. n \in Nat /\ n # 0 /\ n <= wordsnum /\ wordsnum \in Nat
    BY <2>1, <1>1, <1>3, WordFacts
  <2>3. n \in 1..wordsnum
    BY <2>2
  <2> QED BY <2>1, <2>3
<1> QED BY <1>2, <1>4

\* w is 0 if no word ends u, and otherwise one that does.
Told(w, u) ==
  /\ w # 0 <=> \E j \in 1..wordsnum : Suf(Word(j), u)
  /\ w # 0 => w \in 1..wordsnum /\ Suf(Word(w), u)
\* None that does is longer.
Longer(w, u) == w # 0 => \A j \in 1..wordsnum : Suf(Word(j), u) => Len(Word(j)) <= Len(Word(w))

\* What is reported in a state: v is what its KN column holds.
LEMMA Report ==
  ASSUME wordlist \in Seq(Words), NEW t, NEW P, NEW node, Meaning(t, P, node), NEW u \in Strings,
         NEW s, Stands(s, u, P, node), NEW v, v = t[s][KN]
  PROVE  /\ Told(v, u)
         /\ Told(IF v = 0 THEN 0 ELSE IF s <= wordsnum THEN s ELSE v, u)
         /\ Longer(IF v = 0 THEN 0 ELSE IF s <= wordsnum THEN s ELSE v, u)
<1>1. PICK q : s = node[q] /\ Longest(u, q, P)
  BY DEF Stands
<1>2. /\ Closed(P) /\ Owned(wordsnum, P, node) /\ q \in P /\ q \in Strings /\ Suf(q, u)
      /\ node[q] \in Nat /\ (node[q] = 0 => q = <<>>) /\ Tells(v, q, node)
  BY <1>1 DEF Meaning, Longest, Closed
<1>3. /\ Spelled \subseteq P /\ P \subseteq Strings /\ <<>> \notin Spelled
      /\ \A p \in Spelled : node[p] \in 1..wordsnum /\ Word(node[p]) = p /\ Own(node, p) = node[p]
      /\ \A p \in P \ Spelled : node[p] \notin 1..wordsnum /\ Own(node, p) = 0
      /\ 0 \notin 1..wordsnum
  BY <1>2, OwnFacts
<1>4. ASSUME NEW r \in Spelled PROVE Suf(r, u) <=> Suf(r, q)
  <2>1. r \in P /\ r \in Strings
    BY <1>3
  <2>2. Suf(r, u) => Len(r) <= Len(q)
    BY <2>1, <1>1 DEF Longest
  <2> QED BY <2>1, <2>2, <1>2, SufFacts
<1>5. ASSUME NEW p PROVE (\E j \in 1..wordsnum : Suf(Word(j), p)) <=> \E r \in Spelled : Suf(r, p)
  BY DEF Spelled
<1>6. \A j \in 1..wordsnum : Word(j) \in Spelled
  BY DEF Spelled
<1>7. ASSUME NEW g, v = node[g], Fails(q, g, Spelled)
      PROVE  v \in 1..wordsnum /\ v # 0 /\ Word(v) = g /\ Suf(g, u) /\ g \in Spelled
  <2>1. g \in Spelled /\ Suf(g, q)
    BY <1>7 DEF Fails
  <2> QED BY <2>1, <1>3, <1>4, <1>7
<1>8. ASSUME v = Own(node, q), \A r \in Spelled : Suf(r, q) => r = q, v # 0
      PROVE  v \in 1..wordsnum /\ Word(v) = q /\ q \in Spelled
  BY <1>2, <1>3, <1>8
<1>9. v = 0 => ~ \E r \in Spelled : Suf(r, u)
  <2> SUFFICES ASSUME v = 0, NEW r \in Spelled, Suf(r, u) PROVE FALSE
    OBVIOUS
  <2>1. Suf(r, q)
    BY <1>4
  <2>2. v = Own(node, q) /\ \A x \in Spelled : Suf(x, q) => x = q
    BY <1>2, <1>7 DEF Tells
  <2>3. r = q /\ q \in Spelled
    BY <2>1, <2>2
  <2> QED BY <2>2, <2>3, <1>3
<1>10. Told(v, u)
  <2>1. CASE v = 0
    BY <2>1, <1>5, <1>9 DEF Told
  <2>2. CASE v # 0
    <3>1. v \in 1..wordsnum /\ Suf(Word(v), u)
      BY <2>2, <1>2, <1>7, <1>8 DEF Tells
    <3> QED BY <3>1, <2>2 DEF Told
  <2> QED BY <2>1, <2>2
<1>11. PICK w : w = IF v = 0 THEN 0 ELSE IF s <= wordsnum THEN s ELSE v
  OBVIOUS
<1>12. CASE v = 0
  <2>1. w = v
    BY <1>11, <1>12
  <2> QED BY <2>1, <1>10, <1>11, <1>12 DEF Longer
<1>13. CASE v # 0 /\ s <= wordsnum
  <2>1. w = s
    BY <1>11, <1>13
  <2>2. q \in Spelled /\ s \in 1..wordsnum
    BY <1>1, <1>2, <1>13, AtWord
  <2>3. s # 0 /\ Word(s) = q
    BY <2>2, <1>1, <1>3
  <2>6. Told(s, u)
    BY <2>2, <2>3, <1>2 DEF Told
  <2>7. Longer(s, u)
    <3>1. ASSUME NEW j \in 1..wordsnum, Suf(Word(j), u) PROVE Len(Word(j)) <= Len(q)
      BY <3>1, <1>1, <1>3, <1>6 DEF Longest
    <3> QED BY <3>1, <2>3 DEF Longer
  <2>8. Told(w, u) /\ Longer(w, u)
    BY <2>1, <2>6, <2>7
  <2> QED BY <2>8, <1>10, <1>11
<1>14. CASE v # 0 /\ ~(s <= wordsnum)
  <2>1. w = v
    BY <1>11, <1>14
  <2>2. q \notin Spelled /\ Own(node, q) = 0
    <3>1. wordsnum \in Nat /\ s \in Nat
      BY <1>1, <1>2, WordFacts
    <3>2. s \notin 1..wordsnum
      BY <3>1, <1>14
    <3> QED BY <3>2, <1>1, <1>2, <1>3
  <2>3. PICK g : v = node[g] /\ Fails(q, g, Spelled)
    BY <2>2, <1>2, <1>14 DEF Tells
  <2>4. Word(v) = g
    BY <2>3, <1>7
  <2>5. Longer(v, u)
    <3>1. ASSUME NEW j \in 1..wordsnum, Suf(Word(j), u) PROVE Len(Word(j)) <= Len(g)
      <4>1. Word(j) \in Spelled /\ Suf(Word(j), q) /\ Word(j) # q
        BY <3>1, <2>2, <1>4, <1>6
      <4> QED BY <4>1, <2>3 DEF Fails
    <3> QED BY <3>1, <2>4 DEF Longer
  <2> QED BY <2>1, <2>5, <1>10, <1>11
<1> QED BY <1>12, <1>13, <1>14

\* A search has read a character more.
LEMMA ReadSense ==
  ASSUME IInv, Searching, NEW c \in Chars, call # "none", state' = states[state][c],
         text' = Append(text, c), UNCHANGED <<wordlist, table, building, call>>
  PROVE  /\ Searching'
         /\ Current => \E node : /\ Meaning(states, Known(wordsnum), node)
                                 /\ Stands(state', Same(text'), Known(wordsnum), node)
<1>1. /\ wordlist \in Seq(Words) /\ text \in Seq(Chars) /\ phase = "idle" /\ states # <<>>
  BY DEF IInv, TypeOK, PhaseInv
<1>2. /\ wordlist' = wordlist /\ matchcase' = matchcase /\ phase' = phase /\ states' = states
      /\ call' = call /\ prepared' = prepared
  BY DEF table, building
<1>3. wordsnum' = wordsnum /\ Known(wordsnum)' = Known(wordsnum) /\ (Current' <=> Current)
  BY <1>2, Steady DEF Current
<1>4. ASSUME Current
      PROVE  \E node : /\ Meaning(states, Known(wordsnum), node)
                       /\ Stands(state', Same(text'), Known(wordsnum), node)
  <2>1. PICK t, P, s, u : t = states /\ P = Known(wordsnum) /\ s = state /\ u = text
    OBVIOUS
  <2>2. PICK node : Meaning(t, P, node) /\ Stands(s, Same(u), P, node)
    BY <2>1, <1>1, <1>4 DEF Searching
  <2>3. u \in Seq(Chars)
    BY <2>1, <1>1
  <2>4. Stands(t[s][c], Same(Append(u, c)), P, node)
    BY <2>2, <2>3, StandsNext
  <2> QED BY <2>1, <2>2, <2>4
<1>5. Searching'
  <2> SUFFICES ASSUME Current
               PROVE  \E node : /\ Meaning(states, Known(wordsnum), node)'
                                /\ Stands(state, Same(text), Known(wordsnum), node)'
    BY <1>3 DEF Searching
  <2>1. PICK t, P, s, u : t = states /\ P = Known(wordsnum) /\ s = state' /\ u = Same(text')
    OBVIOUS
  <2>2. PICK node : Meaning(t, P, node) /\ Stands(s, u, P, node)
    BY <2>1, <1>4
  <2>3. Meaning(t, P, node)' /\ Same(text)' = u
    BY <2>1, <2>2, <1>2, SenseSteady DEF Same, Folded
  <2>4. Stands(s, u, P, node)'
    BY <2>2 DEF Stands
  <2> QED BY <2>1, <2>3, <2>4, <1>2, <1>3
<1> QED BY <1>4, <1>5

\* What EndsHere says, in the words of Report.
LEMMA EndsFacts ==
  ASSUME wordlist \in Seq(Words), NEW u \in Seq(Chars)
  PROVE  /\ Same(u) \in Strings
         /\ \A j \in 1..wordsnum : /\ IsSuffix(Same(wordlist[j]), Same(u)) <=> Suf(Word(j), Same(u))
                                   /\ Len(wordlist[j]) = Len(Word(j))
<1>1. Same(u) \in Strings
  BY FoldedFacts DEF Strings
<1>2. ASSUME NEW j \in 1..wordsnum
      PROVE  Same(wordlist[j]) \in Strings /\ Len(wordlist[j]) = Len(Same(wordlist[j]))
  <2>1. wordlist[j] \in Strings
    BY WordFacts
  <2> QED BY <2>1, FoldedFacts
<1> QED BY <1>1, <1>2, SuffixFacts DEF Word

\* A search for the first word: what it reports.
LEMMA UntilSense ==
  ASSUME IInv, Searching, NEW c \in Chars, FindUntilNull(c) \/ FindUntilLen(c)
  PROVE  Searching' /\ WordReported' /\ LongestReported'
<1>1. /\ call # "none" /\ state' = states[state][c] /\ text' = Append(text, c)
      /\ UNCHANGED <<wordlist, table, building, call>>
      /\ \/ call = "FindUntilLen" /\ word' = states[state'][KN]
         \/ word' = IF states[state'][KN] = 0 THEN 0
                    ELSE IF state' <= wordsnum THEN state' ELSE states[state'][KN]
  BY DEF FindUntilNull, FindUntilLen, Reading, entry
<1>2. Searching'
  BY <1>1, ReadSense
<1>3. wordlist \in Seq(Words) /\ text' \in Seq(Chars)
  BY <1>1 DEF IInv, TypeOK
<1>4. /\ wordlist' = wordlist /\ matchcase' = matchcase /\ prepared' = prepared
      /\ call' = call
  BY <1>1 DEF table
<1>5. wordsnum' = wordsnum /\ (Current' <=> Current)
  BY <1>4, Steady DEF Current
<1>6. PICK t, P, s, u, v, w : /\ t = states /\ P = Known(wordsnum) /\ s = state' /\ u = text'
                              /\ v = states[state'][KN] /\ w = word'
  OBVIOUS
<1>7. ASSUME NEW j PROVE EndsHere(j)' <=> IsSuffix(Same(wordlist[j]), Same(u))
  BY <1>4, <1>6 DEF EndsHere, Same, Folded
<1>8. /\ Same(u) \in Strings
      /\ \A j \in 1..wordsnum : /\ EndsHere(j)' <=> Suf(Word(j), Same(u))
                                /\ Len(wordlist[j]) = Len(Word(j))
  <2>1. u \in Seq(Chars)
    BY <1>3, <1>6
  <2> QED BY <2>1, <1>3, <1>7, EndsFacts
<1>9. ASSUME Current
      PROVE  /\ Told(w, Same(u)) /\ (call # "FindUntilLen" => Longer(w, Same(u)))
  <2>1. PICK node : Meaning(t, P, node) /\ Stands(s, Same(u), P, node)
    BY <1>1, <1>6, <1>9, ReadSense
  <2>2. v = t[s][KN]
    BY <1>6
  <2>3. /\ Told(v, Same(u))
        /\ Told(IF v = 0 THEN 0 ELSE IF s <= wordsnum THEN s ELSE v, Same(u))
        /\ Longer(IF v = 0 THEN 0 ELSE IF s <= wordsnum THEN s ELSE v, Same(u))
    BY <2>1, <2>2, <1>3, <1>8, Report
  <2>4. PICK x : x = IF v = 0 THEN 0 ELSE IF s <= wordsnum THEN s ELSE v
    OBVIOUS
  <2>5. (call = "FindUntilLen" /\ w = v) \/ w = x
    BY <2>4, <1>1, <1>6
  <2>6. Told(v, Same(u)) /\ Told(x, Same(u)) /\ Longer(x, Same(u))
    BY <2>3, <2>4
  <2> QED BY <2>5, <2>6
<1>10. WordReported'
  <2> SUFFICES ASSUME Current
               PROVE  /\ w # 0 <=> \E j \in 1..wordsnum : EndsHere(j)'
                      /\ w # 0 => EndsHere(w)'
    BY <1>5, <1>6 DEF WordReported
  <2>1. /\ w # 0 <=> \E j \in 1..wordsnum : Suf(Word(j), Same(u))
        /\ w # 0 => w \in 1..wordsnum /\ Suf(Word(w), Same(u))
    BY <1>9 DEF Told
  <2> QED BY <2>1, <1>8
<1>11. LongestReported'
  <2> SUFFICES ASSUME Current, call # "FindUntilLen", w # 0, NEW j \in 1..wordsnum, EndsHere(j)'
               PROVE  Len(wordlist[j]) <= Len(wordlist[w])
    BY <1>4, <1>5, <1>6 DEF LongestReported
  <2>1. w \in 1..wordsnum /\ Suf(Word(j), Same(u))
    BY <1>8, <1>9 DEF Told
  <2>2. Len(Word(j)) <= Len(Word(w))
    BY <2>1, <1>9 DEF Longer
  <2> QED BY <2>1, <2>2, <1>8
<1> QED BY <1>2, <1>10, <1>11

\* A search for all words.
LEMMA AllSense ==
  ASSUME IInv, Searching, NEW c \in Chars,
         FindAllUntilLen(c) \/ FindAllUntilNull(c) \/ FindAllUntilNullWithID(c)
  PROVE  Searching' /\ WordReported' /\ LongestReported'
<1>1. /\ call # "none" /\ state' = states[state][c] /\ text' = Append(text, c)
      /\ UNCHANGED <<wordlist, table, building, call>>
      /\ call \notin {"FindUntilNull", "FindUntilLen"}
  BY DEF FindAllUntilLen, FindAllUntilNull, FindAllUntilNullWithID, FindAll, Reading
<1>2. Searching'
  BY <1>1, ReadSense
<1> QED BY <1>1, <1>2 DEF WordReported, LongestReported

\* A search begins in state 0 with nothing read, and returns.
LEMMA FindSense ==
  ASSUME IInv, Searching, Return \/ \E f \in Calls : Find(f)
  PROVE  Searching' /\ WordReported' /\ LongestReported'
<1>1. /\ wordlist' = wordlist /\ states' = states /\ matchcase' = matchcase
      /\ prepared' = prepared /\ phase' = phase /\ state' = 0 /\ text' = <<>> /\ word' = 0
  BY DEF Return, Find, entry, table, building
<1>2. wordsnum' = wordsnum /\ Known(wordsnum)' = Known(wordsnum) /\ (Current' <=> Current)
  BY <1>1, Steady DEF Current
<1>3. Searching'
  <2> SUFFICES ASSUME phase = "idle", states # <<>>, Current
               PROVE  \E node : /\ Meaning(states, Known(wordsnum), node)'
                                /\ Stands(state, Same(text), Known(wordsnum), node)'
    BY <1>1, <1>2 DEF Searching
  <2>1. PICK t, P : t = states /\ P = Known(wordsnum)
    OBVIOUS
  <2>2. PICK node : Meaning(t, P, node)
    BY <2>1 DEF Searching
  <2>3. Meaning(t, P, node)'
    BY <2>2, <1>1, SenseSteady
  <2>4. Same(<<>>)' = <<>>
    BY DEF Same
  <2>5. Stands(0, <<>>, P, node)
    <3>1. Closed(P) /\ <<>> \in P /\ node[<<>>] = 0
      BY <2>2 DEF Meaning, Closed
    <3> QED BY <3>1, LongestSelf DEF Stands
  <2>6. Stands(0, <<>>, P, node)'
    BY <2>5 DEF Stands
  <2> QED BY <2>1, <2>3, <2>4, <2>6, <1>1, <1>2
<1>4. WordReported' /\ LongestReported'
  BY <1>1 DEF WordReported, LongestReported
<1> QED BY <1>3, <1>4

\* Every other step comes between two searches.
LEMMA IdleSense ==
  ASSUME IInv, \/ \E w \in Words : Addword(w)
               \/ Clear \/ Insert
               \/ \E m \in Models : Prepare(m)
  PROVE  Sensing' /\ Searching' /\ WordReported' /\ LongestReported'
<1>1. call' = "none" /\ phase' # "fill"
  BY DEF IInv, PhaseInv, Addword, Clear, Insert, Prepare, Idle, search, building
<1>2. Searching'
  <2>1. CASE \E w \in Words : Addword(w)
    <3>1. PICK w \in Words : Addword(w)
      BY <2>1
    <3>2. wordlist' = Append(wordlist, w) /\ prepared' = prepared
      BY <3>1 DEF Addword, table
    <3>3. wordlist \in Seq(Words) /\ prepared \in 0..wordsnum
      BY DEF IInv, TypeOK
    <3>4. wordsnum' = wordsnum + 1 /\ wordsnum \in Nat
      BY <3>2, <3>3 DEF wordsnum
    <3>5. prepared' # wordsnum'
      BY <3>2, <3>3, <3>4
    <3> QED BY <3>5 DEF Searching, Current
  <2>2. CASE Clear
    BY <2>2 DEF Clear, Searching
  <2>3. CASE Insert \/ \E m \in Models : Prepare(m)
    BY <2>3 DEF Insert, Prepare, Searching
  <2> QED BY <2>1, <2>2, <2>3
<1> QED BY <1>1, <1>2 DEF Sensing, WordReported, LongestReported

LEMMA InitSense == Init => SInv
<1> SUFFICES ASSUME Init PROVE SInv
  OBVIOUS
<1>1. IInv
  BY InitInv
<1>2. Sensing /\ Searching /\ WordReported /\ LongestReported
  BY DEF Init, Sensing, Searching, WordReported, LongestReported
<1> QED BY <1>1, <1>2 DEF SInv

LEMMA StepSense == SInv /\ [Next]_vars => SInv'
<1> SUFFICES ASSUME SInv, [Next]_vars PROVE SInv'
  OBVIOUS
<1>0. IInv /\ Sensing /\ Searching /\ IInv'
  BY StepInv DEF SInv
<1> SUFFICES Sensing' /\ Searching' /\ WordReported' /\ LongestReported'
  BY <1>0 DEF SInv
<1>1. CASE (\E w \in Words : Addword(w)) \/ Clear \/ Insert \/ \E m \in Models : Prepare(m)
  BY <1>0, <1>1, IdleSense
<1>2. CASE Inserted \/ Fill \/ Filled
  <2>1. call' = "none"
    BY <1>0, <1>2 DEF IInv, PhaseInv, Inserted, Fill, Filled, search
  <2>2. Sensing' /\ Searching'
    <3>1. CASE Inserted
      BY <3>1, <1>0, InsertedSense DEF Inserted, Searching
    <3>2. CASE Fill
      BY <3>2, <1>0, FillSense DEF Fill, Searching
    <3>3. CASE Filled
      BY <3>3, <1>0, FilledSense DEF Filled, Sensing
    <3> QED BY <3>1, <3>2, <3>3, <1>2
  <2> QED BY <2>1, <2>2 DEF WordReported, LongestReported
<1>3. CASE Return \/ \E f \in Calls : Find(f)
  <2>1. phase' = "idle"
    BY <1>0, <1>3 DEF IInv, PhaseInv, Return, Find, Idle, building
  <2> QED BY <2>1, <1>0, <1>3, FindSense DEF Sensing
<1>4. CASE \E c \in Chars : FindUntilNull(c) \/ FindUntilLen(c)
  <2>1. phase' = "idle"
    BY <1>0, <1>4 DEF IInv, PhaseInv, FindUntilNull, FindUntilLen, Reading, building
  <2> QED BY <2>1, <1>0, <1>4, UntilSense DEF Sensing
<1>5. CASE \E c \in Chars : FindAllUntilLen(c) \/ FindAllUntilNull(c) \/ FindAllUntilNullWithID(c)
  <2>1. phase' = "idle"
    BY <1>0, <1>5
    DEF IInv, PhaseInv, FindAllUntilLen, FindAllUntilNull, FindAllUntilNullWithID, FindAll, Reading, building
  <2> QED BY <2>1, <1>0, <1>5, AllSense DEF Sensing
<1>6. CASE UNCHANGED vars
  <2>1. /\ UNCHANGED <<wordlist, states, usedstates, matchcase, prepared, phase, queue, call, state, text, word>>
    BY <1>6 DEF vars, entry, table, building, search
  <2>2. wordsnum' = wordsnum /\ (Current' <=> Current) /\ Known(wordsnum)' = Known(wordsnum)
    BY <2>1, Steady DEF Current
  <2>3. PICK t, q, P, s, u : t = states /\ q = queue /\ P = Known(wordsnum) /\ s = state /\ u = Same(text)
    OBVIOUS
  <2>4. u = Same(text)' /\ \A j : EndsHere(j)' <=> EndsHere(j)
    BY <2>1, <2>3 DEF EndsHere, Same, Folded
  <2>5. Sensing'
    <3> SUFFICES ASSUME phase = "fill" PROVE Sensing'
      BY <2>1 DEF Sensing
    <3>1. PICK node, label : /\ Waiting(t, q, P, node, label) /\ Sensible(t, q, P, node, label)
                             /\ Owned(wordsnum, P, node)
      BY <2>3, <1>0 DEF Sensing
    <3>2. /\ Waiting(t, q, P, node, label)' /\ Sensible(t, q, P, node, label)'
          /\ Owned(wordsnum, P, node)'
      BY <3>1, <2>1, TreeSteady, SenseSteady
    <3> QED BY <3>2, <2>1, <2>2, <2>3 DEF Sensing
  <2>6. Searching'
    <3> SUFFICES ASSUME phase = "idle", states # <<>>, Current PROVE Searching'
      BY <2>1, <2>2 DEF Searching
    <3>1. PICK node : Meaning(t, P, node) /\ (call # "none" => Stands(s, u, P, node))
      BY <2>3, <1>0 DEF Searching
    <3>2. Meaning(t, P, node)' /\ (call # "none" => Stands(s, u, P, node)')
      BY <3>1, <2>1, SenseSteady DEF Stands
    <3> QED BY <3>2, <2>1, <2>2, <2>3, <2>4 DEF Searching
  <2>7. WordReported' /\ LongestReported'
    BY <2>1, <2>2, <2>4 DEF SInv, WordReported, LongestReported
  <2> QED BY <2>5, <2>6, <2>7
<1> QED BY <1>1, <1>2, <1>3, <1>4, <1>5, <1>6 DEF Next, PrepareStep

\* A search for one word reports a word exactly when one ends at the character it has
\* read, and the word it reports does end there.
THEOREM WordReportedHolds == Spec => []WordReported
<1>1. SInv => WordReported
  BY DEF SInv
<1> QED BY <1>1, InitSense, StepSense, PTL DEF Spec

\* FindUntilNull reports the longest of the words that end there, whatever words there
\* are.
THEOREM LongestReportedHolds == Spec => []LongestReported
<1>1. SInv => LongestReported
  BY DEF SInv
<1> QED BY <1>1, InitSense, StepSense, PTL DEF Spec
-----------------------------------------------------------------------------
(* The searches for all words.                                               *)
\* The sequence l holds each member of S once and nothing else.
Lists(l, S) ==
  /\ l \in Seq(Nat) /\ \A x \in 1..Len(l) : l[x] \in S
  /\ \A i \in S : \E x \in 1..Len(l) : l[x] = i
  /\ \A x, y \in 1..Len(l) : l[x] = l[y] => x = y

LEMMA ListsFacts ==
  /\ Lists(<<>>, {})
  /\ \A l, S : Lists(l, S) => <<>> \o l = l /\ (l = <<>> <=> S = {})
<1>1. Lists(<<>>, {})
  <2>1. <<>> \in Seq(Nat) /\ 1..Len(<<>>) = {}
    OBVIOUS
  <2> QED BY <2>1 DEF Lists
<1>2. ASSUME NEW l, NEW S, Lists(l, S) PROVE <<>> \o l = l /\ (l = <<>> <=> S = {})
  <2>1. l \in Seq(Nat) /\ <<>> \o l = l
    BY <1>2 DEF Lists
  <2>2. l = <<>> => S = {}
    <3>1. l = <<>> => 1..Len(l) = {}
      OBVIOUS
    <3> QED BY <3>1, <1>2 DEF Lists
  <2>3. l # <<>> => S # {}
    <3>1. l # <<>> => 1 \in 1..Len(l)
      BY <2>1
    <3> QED BY <3>1, <1>2 DEF Lists
  <2> QED BY <2>1, <2>2, <2>3
<1> QED BY <1>1, <1>2

LEMMA ListsMore ==
  ASSUME NEW l, NEW S, NEW i \in Nat, Lists(l, S), i \notin S, NEW R, R = S \cup {i}
  PROVE  Lists(<<i>> \o l, R)
<1>1. PICK n \in Nat : n = Len(l)
  BY DEF Lists
<1>2. /\ l \in Seq(Nat) /\ \A x \in 1..n : l[x] \in S
      /\ \A j \in S : \E x \in 1..n : l[x] = j
      /\ \A x, y \in 1..n : l[x] = l[y] => x = y
  BY <1>1 DEF Lists
<1>3. PICK m : m = <<i>> \o l
  OBVIOUS
<1>4. m \in Seq(Nat) /\ Len(m) = n + 1 /\ m[1] = i /\ \A x \in 1..n : m[x + 1] = l[x]
  BY <1>1, <1>2, <1>3
<1>5. \A x \in 1..(n + 1) : x = 1 \/ (x - 1 \in 1..n /\ m[x] = l[x - 1])
  <2> TAKE x \in 1..(n + 1)
  <2>1. x = 1 \/ (x - 1 \in 1..n /\ (x - 1) + 1 = x)
    OBVIOUS
  <2> QED BY <2>1, <1>4
<1>6. \A x \in 1..(n + 1) : x # 1 => m[x] \in S
  BY <1>2, <1>5
<1>7. \A x \in 1..(n + 1) : m[x] \in R
  BY <1>4, <1>6
<1>8. \A j \in R : \E x \in 1..(n + 1) : m[x] = j
  <2>1. 1 \in 1..(n + 1) /\ \A x \in 1..n : x + 1 \in 1..(n + 1)
    OBVIOUS
  <2>2. ASSUME NEW j \in S PROVE \E x \in 1..(n + 1) : m[x] = j
    <3>1. PICK x \in 1..n : l[x] = j
      BY <1>2
    <3> QED BY <3>1, <2>1, <1>4
  <2> QED BY <2>1, <2>2, <1>4
<1>9. ASSUME NEW x \in 1..(n + 1), NEW y \in 1..(n + 1), m[x] = m[y] PROVE x = y
  <2>1. CASE x # 1 /\ y # 1
    <3>1. x - 1 = y - 1
      BY <2>1, <1>2, <1>5, <1>9
    <3> QED BY <3>1
  <2>2. CASE x = 1 /\ y # 1
    BY <2>2, <1>4, <1>6, <1>9
  <2>3. CASE x # 1 /\ y = 1
    BY <2>3, <1>4, <1>6, <1>9
  <2> QED BY <2>1, <2>2, <2>3
<1>10. Lists(m, R)
  BY <1>4, <1>7, <1>8, <1>9 DEF Lists
<1> QED BY <1>3, <1>10

\* The numbers of the words that end in u.
Ends(u, node) == {node[r] : r \in {x \in Spelled : Suf(x, u)}}

\* A word that ends in q and is not q ends in the longest such word.
LEMMA EndsNext ==
  ASSUME wordlist \in Seq(Words), NEW P, Closed(P), NEW node, Owned(wordsnum, P, node), NEW q \in P
  PROVE  /\ q \in Spelled => node[q] \in Ends(q, node)
         /\ \A g : Fails(q, g, Spelled) =>
              Ends(g, node) = Ends(q, node) \ {Own(node, q)} /\ Len(g) < Len(q)
              /\ node[g] \in Ends(g, node)
         /\ (\A r \in Spelled : Suf(r, q) => r = q) => Ends(q, node) \ {Own(node, q)} = {}
         /\ q \notin Spelled => Ends(q, node) \ {Own(node, q)} = Ends(q, node)
<1>1. /\ Spelled \subseteq P /\ P \subseteq Strings
      /\ \A p \in Spelled : node[p] \in 1..wordsnum /\ Word(node[p]) = p /\ Own(node, p) = node[p]
      /\ \A p \in P \ Spelled : node[p] \notin 1..wordsnum /\ Own(node, p) = 0
      /\ 0 \notin 1..wordsnum
  BY OwnFacts
<1>2. q \in Strings
  BY <1>1
<1>3. q \in Spelled => node[q] \in Ends(q, node)
  BY <1>2, SufFacts DEF Ends
<1>4. ASSUME NEW r \in Spelled PROVE node[r] = Own(node, q) <=> r = q
  <2>1. CASE q \in Spelled
    BY <2>1, <1>1
  <2>2. CASE q \notin Spelled
    BY <2>2, <1>1
  <2> QED BY <2>1, <2>2
<1>5. ASSUME NEW g, Fails(q, g, Spelled)
      PROVE  Ends(g, node) = Ends(q, node) \ {Own(node, q)} /\ Len(g) < Len(q) /\ node[g] \in Ends(g, node)
  <2>1. g \in Spelled /\ g \in Strings /\ Suf(g, q) /\ g # q
    BY <1>1, <1>5 DEF Fails
  <2>2. Len(g) < Len(q) /\ Len(g) \in Nat /\ Len(q) \in Nat
    <3>1. ~(Len(q) <= Len(g))
      BY <1>2, <2>1, SufFacts
    <3> QED BY <3>1, <1>2, <2>1, StringFacts
  <2>3. ASSUME NEW r \in Spelled PROVE Suf(r, g) <=> Suf(r, q) /\ r # q
    <3>1. r \in Strings /\ Len(r) \in Nat
      BY <1>1, StringFacts
    <3>2. ASSUME Suf(r, q), r # q PROVE Suf(r, g)
      <4>1. Len(r) <= Len(g)
        BY <3>2, <1>5 DEF Fails
      <4> QED BY <4>1, <3>1, <3>2, <1>2, <2>1, SufFacts
    <3>3. ASSUME Suf(r, g) PROVE Suf(r, q) /\ r # q
      <4>1. Suf(r, q)
        BY <3>1, <3>3, <1>2, <2>1, SufFacts
      <4>2. Len(r) <= Len(g)
        BY <3>3 DEF Suf
      <4> QED BY <4>1, <4>2, <2>2, <3>1
    <3> QED BY <3>2, <3>3
  <2>4. Ends(g, node) = Ends(q, node) \ {Own(node, q)}
    BY <2>3, <1>4 DEF Ends
  <2>5. node[g] \in Ends(g, node)
    BY <2>1, SufFacts DEF Ends
  <2> QED BY <2>2, <2>4, <2>5
<1>6. (\A r \in Spelled : Suf(r, q) => r = q) => Ends(q, node) \ {Own(node, q)} = {}
  BY <1>4 DEF Ends
<1>7. q \notin Spelled => Ends(q, node) \ {Own(node, q)} = Ends(q, node)
  BY <1>4 DEF Ends
<1> QED BY <1>3, <1>5, <1>6, <1>7

\* Following, as a function of the table.
IsChain(F, t, ws) ==
  \A s \in DOMAIN t :
    F[s] = IF t[s][KN] = s THEN <<>>
           ELSE (IF t[s][KN] \in ws THEN <<t[s][KN]>> ELSE <<>>) \o F[t[s][KN]]

\* From the state of a word the chain leads through the other words that end in it.
LEMMA ChainFacts ==
  ASSUME wordlist \in Seq(Words), NEW t, NEW P, NEW node, Meaning(t, P, node),
         NEW ws, 1..wordsnum \subseteq ws, NEW F, IsChain(F, t, ws)
  PROVE  \A p \in Spelled : Lists(F[node[p]], Ends(p, node) \ {node[p]})
<1>1. /\ Closed(P) /\ Owned(wordsnum, P, node)
      /\ \A p \in P : Tells(t[node[p]][KN], p, node) /\ node[p] \in DOMAIN t
  BY DEF Meaning
<1>2. /\ Spelled \subseteq P /\ P \subseteq Strings
      /\ \A p \in Spelled : node[p] \in 1..wordsnum /\ Word(node[p]) = p /\ Own(node, p) = node[p]
  BY <1>1, OwnFacts
<1> DEFINE Ok(p) == Lists(F[node[p]], Ends(p, node) \ {node[p]})
           S == {n \in Nat : \A p \in Spelled : Len(p) < n => Ok(p)}
<1>3. 0 \in S
  <2>1. \A p \in Spelled : Len(p) \in Nat
    BY <1>2, StringFacts
  <2> QED BY <2>1
<1>4. ASSUME NEW n \in Nat, n \in S PROVE n + 1 \in S
  <2>1. \A p \in Spelled : Len(p) < n => Lists(F[node[p]], Ends(p, node) \ {node[p]})
    BY <1>4
  <2> HIDE DEF S
  <2>2. ASSUME NEW p \in Spelled, Len(p) < n + 1 PROVE Lists(F[node[p]], Ends(p, node) \ {node[p]})
    <3>1. PICK s, v : s = node[p] /\ v = t[s][KN]
      OBVIOUS
    <3>2. /\ p \in P /\ s \in DOMAIN t /\ Tells(v, p, node) /\ Own(node, p) = s
      BY <3>1, <1>1, <1>2
    <3>3. F[s] = IF v = s THEN <<>> ELSE (IF v \in ws THEN <<v>> ELSE <<>>) \o F[v]
      BY <3>1, <3>2 DEF IsChain
    <3>4. CASE \E g : v = node[g] /\ Fails(p, g, Spelled)
      <4>1. PICK g : v = node[g] /\ Fails(p, g, Spelled)
        BY <3>4
      <4>2. g \in Spelled /\ g # p
        BY <4>1 DEF Fails
      <4>3. /\ Ends(g, node) = Ends(p, node) \ {s} /\ Len(g) < Len(p) /\ v \in Ends(g, node)
        BY <4>1, <3>2, <1>1, EndsNext
      <4>4. v \in 1..wordsnum /\ v # s /\ v \in ws /\ v \in Nat
        <5>1. v \in 1..wordsnum /\ wordsnum \in Nat
          BY <4>1, <4>2, <1>2, WordFacts
        <5>2. v # s
          BY <4>1, <4>2, <3>1, <1>2
        <5> QED BY <5>1, <5>2
      <4>5. Len(g) < n
        <5>1. Len(g) \in Nat /\ Len(p) \in Nat
          BY <4>2, <1>2, StringFacts
        <5> QED BY <5>1, <4>3, <2>2
      <4>6. Lists(F[v], Ends(g, node) \ {v})
        BY <4>1, <4>2, <4>5, <2>1
      <4>7. v \notin Ends(g, node) \ {v} /\ (Ends(g, node) \ {v}) \cup {v} = Ends(g, node)
        BY <4>3
      <4>8. Lists(<<v>> \o F[v], Ends(g, node))
        BY <4>4, <4>6, <4>7, ListsMore
      <4>9. F[s] = <<v>> \o F[v]
        BY <3>3, <4>4
      <4> QED BY <4>3, <4>8, <4>9, <3>1
    <3>5. CASE v = Own(node, p) /\ \A r \in Spelled : Suf(r, p) => r = p
      <4>1. F[s] = <<>>
        BY <3>2, <3>3, <3>5
      <4>2. Ends(p, node) \ {s} = {}
        BY <3>2, <3>5, <1>1, EndsNext
      <4> QED BY <4>1, <4>2, <3>1, ListsFacts
    <3> QED BY <3>2, <3>4, <3>5 DEF Tells
  <2>3. \A p \in Spelled : Len(p) < n + 1 => Ok(p)
    BY <2>2
  <2> HIDE DEF Ok
  <2>4. n + 1 \in Nat
    OBVIOUS
  <2> QED BY <2>3, <2>4 DEF S
<1> HIDE DEF S
<1>5. Nat \subseteq S
  BY <1>3, <1>4, SetInduction
<1>6. ASSUME NEW p \in Spelled PROVE Lists(F[node[p]], Ends(p, node) \ {node[p]})
  <2>1. Len(p) \in Nat /\ Len(p) + 1 \in Nat /\ Len(p) < Len(p) + 1
    BY <1>2, StringFacts
  <2> QED BY <2>1, <1>5 DEF S
<1> QED BY <1>6

\* The words that end in a text are those that end in the longest prefix it ends in.
LEMMA StandsEnds ==
  ASSUME wordlist \in Seq(Words), NEW P, Closed(P), NEW node, Owned(wordsnum, P, node),
         NEW u \in Strings, NEW q, Longest(u, q, P)
  PROVE  Ends(u, node) = Ends(q, node) /\ q \in P /\ q \in Strings
<1>1. q \in P /\ q \in Strings /\ Suf(q, u) /\ Spelled \subseteq P /\ P \subseteq Strings
  BY OwnFacts DEF Longest
<1>2. ASSUME NEW r \in Spelled PROVE Suf(r, u) <=> Suf(r, q)
  <2>1. r \in P /\ r \in Strings
    BY <1>1
  <2>2. Suf(r, u) => Len(r) <= Len(q)
    BY <2>1 DEF Longest
  <2> QED BY <2>1, <2>2, <1>1, SufFacts
<1> QED BY <1>1, <1>2 DEF Ends

\* In state s, whose KN column holds v, and with the chains F: S is what a search that
\* starts with the state lists, and one that starts with v lists all of it but s, unless s
\* is all there is.
Listing(v, s, F, S) ==
  /\ Lists(IF v = 0 THEN <<>> ELSE (IF s <= wordsnum THEN <<s>> ELSE <<>>) \o F[s], S)
  /\ Lists(IF v = 0 THEN <<>> ELSE <<v>> \o F[v], IF v = s THEN S ELSE S \ {s})
  /\ S \subseteq 1..wordsnum
  /\ s \in S => (v = s <=> S = {s})

\* What a search for all words lists in a state, and what the chain of its KN column
\* gives.
LEMMA EndingLists ==
  ASSUME wordlist \in Seq(Words), NEW t, NEW P, NEW node, Meaning(t, P, node), NEW u \in Strings,
         NEW s, Stands(s, u, P, node), NEW ws, 1..wordsnum \subseteq ws, NEW F, IsChain(F, t, ws),
         NEW v, v = t[s][KN]
  PROVE  Listing(v, s, F, Ends(u, node))
<1>1. PICK q : s = node[q] /\ Longest(u, q, P)
  BY DEF Stands
<1>2. /\ Closed(P) /\ Owned(wordsnum, P, node) /\ q \in P
      /\ s \in Nat /\ s \in DOMAIN t /\ Tells(v, q, node) /\ wordsnum \in Nat
  BY <1>1, WordFacts DEF Meaning, Longest
<1>3. /\ \A p \in Spelled : node[p] \in 1..wordsnum /\ Own(node, p) = node[p] /\ p \in P
      /\ \A p \in Spelled : Word(node[p]) = p
      /\ \A p \in P \ Spelled : node[p] \notin 1..wordsnum /\ Own(node, p) = 0
      /\ 0 \notin 1..wordsnum
  BY <1>2, OwnFacts
<1>4. Ends(u, node) = Ends(q, node)
  BY <1>1, <1>2, StandsEnds
<1>5. ASSUME NEW p \in Spelled PROVE Lists(<<node[p]>> \o F[node[p]], Ends(p, node))
  <2>1. PICK S, i, l : S = Ends(p, node) /\ i = node[p] /\ l = F[node[p]]
    OBVIOUS
  <2>2. i \in S /\ i \in 1..wordsnum
    BY <2>1, <1>2, <1>3, EndsNext
  <2>3. i \in Nat /\ i \notin S \ {i} /\ S = (S \ {i}) \cup {i}
    BY <2>2, <1>2
  <2>4. Lists(l, S \ {i})
    BY <2>1, ChainFacts
  <2>5. Lists(<<i>> \o l, S)
    BY <2>3, <2>4, ListsMore
  <2> QED BY <2>1, <2>5
<1>6. ASSUME NEW g, v = node[g], Fails(q, g, Spelled)
      PROVE  /\ v \in 1..wordsnum /\ Lists(<<v>> \o F[v], Ends(g, node))
             /\ Ends(g, node) = Ends(q, node) \ {Own(node, q)}
  <2>1. g \in Spelled
    BY <1>6 DEF Fails
  <2>2. v \in 1..wordsnum /\ Lists(<<v>> \o F[v], Ends(g, node))
    BY <2>1, <1>3, <1>5, <1>6
  <2> QED BY <2>2, <1>2, <1>6, EndsNext
<1>7. Ends(q, node) \subseteq 1..wordsnum
  BY <1>3 DEF Ends
<1>8. CASE v = 0
  <2>1. Own(node, q) = 0 /\ \A r \in Spelled : Suf(r, q) => r = q
    BY <1>2, <1>3, <1>6, <1>8 DEF Tells
  <2>2. q \notin Spelled
    BY <2>1, <1>3
  <2>3. Ends(q, node) = {}
    BY <2>1, <2>2, <1>2, EndsNext
  <2>4. Ends(u, node) = {} /\ Ends(u, node) \ {s} = {} /\ Lists(<<>>, {})
    BY <2>3, <1>4, ListsFacts
  <2> QED BY <2>4, <1>8, ListsFacts DEF Listing
<1>9. CASE v # 0
  <2>1. /\ Lists(<<v>> \o F[v], IF v = s THEN Ends(u, node) ELSE Ends(u, node) \ {s})
        /\ s \in Ends(u, node) => (v = s <=> Ends(u, node) = {s})
    <3>1. CASE \E g : v = node[g] /\ Fails(q, g, Spelled)
      <4>1. PICK g : v = node[g] /\ Fails(q, g, Spelled)
        BY <3>1
      <4>2. g \in Spelled /\ g # q
        BY <4>1 DEF Fails
      <4>3. v # s
        <5>1. v = s => q \in Spelled
          BY <4>1, <1>1, <1>2, <1>3, <1>6
        <5>2. v # node[q] \/ q \notin Spelled
          BY <4>1, <4>2, <1>3
        <5> QED BY <5>1, <5>2, <1>1
      <4>4. Ends(g, node) = Ends(u, node) \ {s}
        <5>1. CASE q \in Spelled
          BY <5>1, <4>1, <1>1, <1>3, <1>4, <1>6
        <5>2. CASE q \notin Spelled
          <6>1. Own(node, q) = 0 /\ s \notin 1..wordsnum
            BY <5>2, <1>1, <1>2, <1>3
          <6> QED BY <6>1, <4>1, <1>3, <1>4, <1>6, <1>7
        <5> QED BY <5>1, <5>2
      <4>5. v \in Ends(g, node)
        BY <4>1, <1>2, EndsNext
      <4> QED BY <4>1, <4>3, <4>4, <4>5, <1>6
    <3>2. CASE v = Own(node, q)
      <4>1. q \in Spelled /\ v = node[q]
        BY <3>2, <1>2, <1>3, <1>9
      <4>2. ASSUME NEW g, Fails(q, g, Spelled) PROVE v # node[g]
        <5>1. g \in Spelled /\ g # q
          BY <4>2 DEF Fails
        <5>2. Word(node[g]) = g /\ Word(node[q]) = q
          BY <5>1, <4>1, <1>3
        <5> QED BY <5>1, <5>2, <4>1
      <4>3. \A r \in Spelled : Suf(r, q) => r = q
        BY <4>2, <1>2 DEF Tells
      <4>4. Ends(q, node) = {s} /\ v = s
        BY <4>1, <4>3, <1>1, <1>2, <1>3, EndsNext
      <4> QED BY <4>1, <4>4, <1>4, <1>5
    <3> QED BY <3>1, <3>2, <1>2 DEF Tells
  <2>2. Lists((IF s <= wordsnum THEN <<s>> ELSE <<>>) \o F[s], Ends(u, node))
    <3>1. CASE s <= wordsnum
      <4>1. q \in Spelled
        BY <3>1, <1>1, <1>2, <1>9, AtWord
      <4>2. Lists(<<s>> \o F[s], Ends(u, node))
        BY <4>1, <1>1, <1>4, <1>5
      <4> QED BY <3>1, <4>2
    <3>2. CASE ~(s <= wordsnum)
      <4>1. s \notin 1..wordsnum
        BY <3>2, <1>2
      <4>2. q \notin Spelled /\ Own(node, q) = 0
        BY <4>1, <1>1, <1>2, <1>3
      <4>3. PICK g : v = node[g] /\ Fails(q, g, Spelled)
        BY <4>2, <1>2, <1>9 DEF Tells
      <4>4. v \in 1..wordsnum /\ v \in ws /\ v # s
        BY <4>1, <4>3, <1>6
      <4>5. F[s] = <<v>> \o F[v]
        BY <4>4, <1>2 DEF IsChain
      <4>6. Ends(g, node) = Ends(u, node)
        <5>1. Ends(q, node) \ {Own(node, q)} = Ends(q, node)
          BY <4>2, <1>2, EndsNext
        <5> QED BY <5>1, <4>3, <1>4, <1>6
      <4>7. Lists(F[s], Ends(u, node))
        BY <4>3, <4>5, <4>6, <1>6
      <4>8. Lists(<<>> \o F[s], Ends(u, node))
        BY <4>7, ListsFacts
      <4> QED BY <3>2, <4>8
    <3> QED BY <3>1, <3>2
  <2> QED BY <2>1, <2>2, <1>4, <1>7, <1>9 DEF Listing
<1> QED BY <1>8, <1>9

\* Counting the first k of the words listed.
LEMMA CountFound ==
  ASSUME wordlist \in Seq(Words), findnum \in [1..wordsnum -> Nat], NEW l, NEW S, Lists(l, S),
         NEW k \in 0..Len(l), Count(SubSeq(l, 1, k)), NEW j \in 1..wordsnum
  PROVE  /\ findnum'[j] = findnum[j] \/ (findnum'[j] = findnum[j] + 1 /\ j \in S)
         /\ k = Len(l) /\ j \in S => findnum'[j] = findnum[j] + 1
<1>1. PICK n \in Nat : n = Len(l)
  BY DEF Lists
<1>2. /\ l \in Seq(Nat) /\ k \in Nat /\ k <= n
      /\ \A x \in 1..n : l[x] \in S
      /\ \A i \in S : \E x \in 1..n : l[x] = i
      /\ \A x, y \in 1..n : l[x] = l[y] => x = y
  BY <1>1 DEF Lists
<1>3. PICK m : m = SubSeq(l, 1, k)
  OBVIOUS
<1>4. Len(m) = k /\ \A x \in 1..k : m[x] = l[x] /\ x \in 1..n
  BY <1>1, <1>2, <1>3
<1>5. PICK A : A = {x \in 1..Len(m) : m[x] = j}
  OBVIOUS
<1>6. findnum'[j] = findnum[j] + Cardinality(A)
  BY <1>3, <1>5 DEF Count
<1>7. PICK f \in Nat : f = findnum[j]
  OBVIOUS
<1>8. CASE A = {}
  <2>1. Cardinality(A) = 0
    BY <1>8, FS_EmptySet
  <2>2. findnum'[j] = findnum[j]
    BY <2>1, <1>6, <1>7
  <2>3. ~(k = Len(l) /\ j \in S)
    BY <1>1, <1>2, <1>4, <1>5, <1>8
  <2> QED BY <2>2, <2>3
<1>9. CASE A # {}
  <2>1. PICK x : x \in A
    BY <1>9
  <2>2. x \in 1..k /\ m[x] = j
    BY <2>1, <1>4, <1>5
  <2>3. \A y \in A : y = x
    <3> TAKE y \in A
    <3>1. y \in 1..k /\ m[y] = j
      BY <1>4, <1>5
    <3> QED BY <3>1, <2>2, <1>2, <1>4
  <2>4. A = {x}
    BY <2>1, <2>3
  <2>5. Cardinality(A) = 1
    BY <2>4, FS_Singleton
  <2>6. j \in S
    BY <2>2, <1>2, <1>4
  <2> QED BY <2>5, <2>6, <1>6
<1> QED BY <1>8, <1>9

\* A word is in Ends under the last number it has.
LEMMA EndsCounted ==
  ASSUME wordlist \in Seq(Words), NEW P, Closed(P), NEW node, Owned(wordsnum, P, node),
         NEW u, NEW j \in 1..wordsnum
  PROVE  j \in Ends(u, node) <=> Suf(Word(j), u) /\ \A i \in (j + 1)..wordsnum : Word(i) # Word(j)
<1>1. /\ wordsnum \in Nat /\ \A p \in Spelled : node[p] \in 1..wordsnum /\ Word(node[p]) = p
      /\ \A i \in 1..wordsnum : node[Word(i)] \in i..wordsnum
      /\ Word(j) \in Spelled
  BY WordFacts, OwnFacts DEF Owned, Spelled
<1>2. ASSUME j \in Ends(u, node)
      PROVE  Suf(Word(j), u) /\ \A i \in (j + 1)..wordsnum : Word(i) # Word(j)
  <2>1. PICK r \in Spelled : j = node[r] /\ Suf(r, u)
    BY <1>2 DEF Ends
  <2>2. r = Word(j)
    BY <2>1, <1>1
  <2>3. ASSUME NEW i \in (j + 1)..wordsnum, Word(i) = Word(j) PROVE FALSE
    <3>1. i \in 1..wordsnum /\ i > j
      BY <1>1
    <3>2. j \in i..wordsnum
      BY <2>1, <2>2, <2>3, <3>1, <1>1
    <3> QED BY <3>1, <3>2, <1>1
  <2> QED BY <2>1, <2>2, <2>3
<1>3. ASSUME Suf(Word(j), u), \A i \in (j + 1)..wordsnum : Word(i) # Word(j)
      PROVE  j \in Ends(u, node)
  <2>1. PICK i : i = node[Word(j)]
    OBVIOUS
  <2>2. i \in j..wordsnum /\ Word(i) = Word(j)
    BY <2>1, <1>1
  <2>3. i = j
    <3>1. i \notin (j + 1)..wordsnum
      BY <2>2, <1>3
    <3> QED BY <3>1, <2>2, <1>1
  <2> QED BY <2>1, <2>3, <1>1, <1>3 DEF Ends
<1> QED BY <1>2, <1>3

\* Following is such a chain.
LEMMA ChainIs ==
  ASSUME IInv, phase = "idle", states # <<>>, NEW ws
  PROVE  IsChain(Following(ws), states, ws)
<1>1. PICK R \in Nat : Made(R)
  BY DEF IInv, TableInv
<1>2. DOMAIN states = 0..(R - 1) /\ Ranked(states)
  BY <1>1 DEF Made, Inside, IInv, Idling
<1>3. \E G : IsFollowing(G, ws)
  BY <1>2, FollowingExists, Zenon
<1>4. Following(ws) = CHOOSE G : IsFollowing(G, ws)
  BY DEF Following, IsFollowing
<1>5. PICK F : F = Following(ws) /\ IsFollowing(F, ws)
  BY <1>3, <1>4
<1>6. IsChain(F, states, ws)
  BY <1>5 DEF IsFollowing, IsChain
<1> QED BY <1>5, <1>6

\* What a search for all words knows of the words that end at the character it reads.
LEMMA ReadCounted ==
  ASSUME IInv, Searching, Current, NEW c \in Chars, call # "none", state' = states[state][c],
         text' = Append(text, c), UNCHANGED <<wordlist, table, building, call>>
  PROVE  \E S : /\ Lists(Ending(state'), S)
                /\ Lists(IF states[state'][KN] = 0 THEN <<>>
                         ELSE <<states[state'][KN]>> \o Following(Nat)[states[state'][KN]],
                         IF states[state'][KN] = state' THEN S ELSE S \ {state'})
                /\ S \subseteq 1..wordsnum
                /\ state' \in S => (states[state'][KN] = state' <=> S = {state'})
                /\ \A j \in 1..wordsnum : Counted(j)' <=> j \in S
<1>1. /\ wordlist \in Seq(Words) /\ text' \in Seq(Chars) /\ phase = "idle" /\ states # <<>>
      /\ wordlist' = wordlist /\ matchcase' = matchcase /\ wordsnum \in Nat
  BY WordFacts DEF IInv, TypeOK, PhaseInv, table
<1>2. wordsnum' = wordsnum
  BY <1>1, Steady
<1>3. PICK node : Meaning(states, Known(wordsnum), node) /\ Stands(state', Same(text'), Known(wordsnum), node)
  BY ReadSense
<1>4. PICK t, P, s, w, v : /\ t = states /\ P = Known(wordsnum) /\ s = state' /\ w = text'
                           /\ v = states[state'][KN]
  OBVIOUS
<1>5. PICK u : u = Same(w)
  OBVIOUS
<1>6. Meaning(t, P, node) /\ Stands(s, u, P, node) /\ w \in Seq(Chars) /\ v = t[s][KN]
  BY <1>1, <1>3, <1>4, <1>5
<1>7. /\ u \in Strings
      /\ \A j \in 1..wordsnum : IsSuffix(Same(wordlist[j]), u) <=> Suf(Word(j), u)
  BY <1>1, <1>5, <1>6, EndsFacts
<1>8. IsChain(Following(0..wordsnum), t, 0..wordsnum) /\ IsChain(Following(Nat), t, Nat)
  BY <1>1, <1>4, ChainIs
<1>9. 1..wordsnum \subseteq 0..wordsnum /\ 1..wordsnum \subseteq Nat
  BY <1>1
<1>10. PICK F, G : F = Following(0..wordsnum) /\ G = Following(Nat)
  OBVIOUS
<1>11. ASSUME NEW ws, 1..wordsnum \subseteq ws, NEW H, IsChain(H, t, ws)
       PROVE  Listing(v, s, H, Ends(u, node))
  BY <1>1, <1>6, <1>7, <1>11, EndingLists
<1>12. PICK S : S = Ends(u, node)
  OBVIOUS
<1>13. Lists(Ending(state'), S)
  <2>1. Lists(IF v = 0 THEN <<>> ELSE (IF s <= wordsnum THEN <<s>> ELSE <<>>) \o F[s], S)
    BY <1>8, <1>9, <1>10, <1>11, <1>12 DEF Listing
  <2> QED BY <2>1, <1>4, <1>10 DEF Ending
<1>14. Lists(IF states[state'][KN] = 0 THEN <<>>
             ELSE <<states[state'][KN]>> \o Following(Nat)[states[state'][KN]],
             IF states[state'][KN] = state' THEN S ELSE S \ {state'})
  <2>1. Lists(IF v = 0 THEN <<>> ELSE <<v>> \o G[v], IF v = s THEN S ELSE S \ {s})
    BY <1>8, <1>9, <1>10, <1>11, <1>12 DEF Listing
  <2> QED BY <2>1, <1>4, <1>10
<1>15. S \subseteq 1..wordsnum /\ (state' \in S => (states[state'][KN] = state' <=> S = {state'}))
  BY <1>4, <1>8, <1>9, <1>11, <1>12 DEF Listing
<1>16. ASSUME NEW j \in 1..wordsnum PROVE Counted(j)' <=> j \in S
  <2>1. EndsHere(j)' <=> Suf(Word(j), u)
    <3>1. EndsHere(j)' <=> IsSuffix(Same(wordlist[j]), u)
      BY <1>1, <1>4, <1>5 DEF EndsHere, Same, Folded
    <3> QED BY <3>1, <1>7
  <2>2. ASSUME NEW i PROVE (Same(wordlist[i]) # Same(wordlist[j]))' <=> Word(i) # Word(j)
    BY <1>1 DEF Same, Folded, Word
  <2>3. Counted(j)' <=> Suf(Word(j), u) /\ \A i \in (j + 1)..wordsnum : Word(i) # Word(j)
    BY <2>1, <2>2, <1>2 DEF Counted
  <2>4. j \in Ends(u, node) <=> Suf(Word(j), u) /\ \A i \in (j + 1)..wordsnum : Word(i) # Word(j)
    BY <1>1, <1>6, EndsCounted DEF Meaning
  <2> QED BY <2>3, <2>4, <1>12
<1> QED BY <1>13, <1>14, <1>15, <1>16

\* What the counts of a reading step say.
Only == \A j \in 1..wordsnum : \/ findnum'[j] = findnum[j]
                               \/ findnum'[j] = findnum[j] + 1 /\ Counted(j)'
Every == \A j \in 1..wordsnum : findnum'[j] = findnum[j] + 1 <=> Counted(j)' /\ ~Covered(j)'

LEMMA AllUntilLenCounts ==
  ASSUME IInv, Searching, Current, NEW c \in Chars, FindAllUntilLen(c)
  PROVE  Only /\ Every
<1> DEFINE ws == IF states[state'][KN] = 0 THEN <<>>
                 ELSE <<states[state'][KN]>> \o Following(Nat)[states[state'][KN]]
<1>1. /\ call = "FindAllUntilLen" /\ call' = call /\ call # "none"
      /\ state' = states[state][c] /\ text' = Append(text, c)
      /\ Count(ws)
      /\ UNCHANGED <<wordlist, table, building, call>>
  BY DEF FindAllUntilLen, Reading
<1>2. PICK S : /\ Lists(Ending(state'), S)
               /\ Lists(ws, IF states[state'][KN] = state' THEN S ELSE S \ {state'})
               /\ S \subseteq 1..wordsnum
               /\ state' \in S => (states[state'][KN] = state' <=> S = {state'})
               /\ \A j \in 1..wordsnum : Counted(j)' <=> j \in S
  BY <1>1, ReadCounted
<1>3. /\ wordlist \in Seq(Words) /\ findnum \in [1..wordsnum -> Nat]
      /\ wordsnum' = wordsnum /\ wordlist' = wordlist
  <2>1. wordlist \in Seq(Words) /\ findnum \in [1..wordsnum -> Nat]
    BY DEF IInv, TypeOK
  <2> QED BY <2>1, <1>1, Steady
<1>4. PICK s, v, T, l, n : /\ s = state' /\ v = states[state'][KN]
                           /\ T = (IF v = s THEN S ELSE S \ {s})
                           /\ l = ws /\ n = Len(ws)
  OBVIOUS
<1>5. Lists(l, T) /\ T \subseteq S
  BY <1>2, <1>4
<1> HIDE DEF ws
<1>6. n \in 0..Len(l) /\ n = Len(l) /\ SubSeq(l, 1, n) = l
  BY <1>4, <1>5 DEF Lists
<1>7. Count(SubSeq(l, 1, n))
  BY <1>1, <1>4, <1>6
<1>8. ASSUME NEW j \in 1..wordsnum
      PROVE  /\ findnum'[j] = findnum[j] \/ (findnum'[j] = findnum[j] + 1 /\ j \in T)
             /\ j \in T => findnum'[j] = findnum[j] + 1
  <2>1. /\ findnum'[j] = findnum[j] \/ (findnum'[j] = findnum[j] + 1 /\ j \in T)
        /\ n = Len(l) /\ j \in T => findnum'[j] = findnum[j] + 1
    BY <1>3, <1>5, <1>6, <1>7, CountFound
  <2> QED BY <2>1, <1>6
<1>9. \A j \in 1..wordsnum : findnum[j] # findnum[j] + 1
  BY <1>3
<1>10. ASSUME NEW j \in 1..wordsnum PROVE j \in T <=> j \in S /\ ~Covered(j)'
  <2>1. Covered(j)' <=> j = s /\ \E i \in (1..wordsnum) \ {j} : Counted(i)'
    BY <1>1, <1>3, <1>4 DEF Covered
  <2>2. Covered(j)' <=> j = s /\ \E i \in S : i # j
    BY <2>1, <1>2
  <2> QED BY <2>2, <1>2, <1>4
<1> QED BY <1>2, <1>5, <1>8, <1>9, <1>10 DEF Only, Every

LEMMA FindAllCounts ==
  ASSUME IInv, Searching, Current, NEW c \in Chars, NEW f, f # "none", NEW limited \in BOOLEAN,
         FindAll(f, c, limited), ~undefined',
         call \in {"FindAllUntilNull", "FindAllUntilNullWithID"}
  PROVE  Only /\ (~full' => Every)
<1> DEFINE ws == Ending(state')
           len == IF state' <= wordsnum THEN Len(wordlist[state']) ELSE 0
           listed == {j \in 1..Len(ws) :
                        limited => Listed + (j - 1) * (len + 1) + len <= MaxFindLen - 2}
           n == Cardinality(listed)
<1>1. /\ call # "none" /\ state' = states[state][c] /\ text' = Append(text, c)
      /\ UNCHANGED <<wordlist, table, building, call>>
      /\ full' = (n < Len(ws)) /\ Count(SubSeq(ws, 1, IF full' THEN n + 1 ELSE n))
  BY DEF FindAll, Reading
<1>2. PICK S : Lists(ws, S) /\ \A j \in 1..wordsnum : Counted(j)' <=> j \in S
  BY <1>1, ReadCounted
<1>3. wordlist \in Seq(Words) /\ findnum \in [1..wordsnum -> Nat]
  BY DEF IInv, TypeOK
<1>4. PICK l : l = ws
  OBVIOUS
<1> HIDE DEF ws
<1>5. PICK m \in Nat : m = Len(l)
  BY <1>2, <1>4 DEF Lists
<1>6. n \in Nat /\ n <= m
  <2>1. listed \subseteq 1..m
    BY <1>4, <1>5
  <2> HIDE DEF listed
  <2>3. IsFiniteSet(1..m) /\ Cardinality(1..m) = m
    <3>1. 1 \in Int /\ m \in Int /\ m - 1 + 1 = m /\ (1 > m => m = 0)
      OBVIOUS
    <3> QED BY <3>1, FS_Interval
  <2>4. IsFiniteSet(listed) /\ Cardinality(listed) <= Cardinality(1..m)
    BY <2>1, <2>3, FS_Subset
  <2> QED BY <2>3, <2>4, FS_CardinalityType
<1> HIDE DEF n
<1>7. PICK k : k = IF full' THEN n + 1 ELSE n
  OBVIOUS
<1>8. /\ k \in 0..Len(l) /\ (~full' => k = Len(l))
      /\ Lists(l, S) /\ Count(SubSeq(l, 1, k))
  <2>1. full' <=> n < m
    BY <1>1, <1>4, <1>5
  <2>2. k \in 0..m /\ (~full' => k = m)
    BY <2>1, <1>6, <1>7
  <2> QED BY <2>2, <1>1, <1>2, <1>4, <1>5, <1>7
<1>9. \A j \in 1..wordsnum : /\ findnum'[j] = findnum[j] \/ (findnum'[j] = findnum[j] + 1 /\ j \in S)
                             /\ k = Len(l) /\ j \in S => findnum'[j] = findnum[j] + 1
  BY <1>3, <1>8, CountFound
<1>10. \A j \in 1..wordsnum : ~Covered(j)' /\ findnum[j] # findnum[j] + 1
  <2>1. call' # "FindAllUntilLen"
    BY <1>1
  <2> QED BY <2>1, <1>3 DEF Covered
<1> QED BY <1>2, <1>8, <1>9, <1>10 DEF Only, Every

\* Only a search makes the text longer.
LEMMA CountsStep ==
  ASSUME SInv, [Next]_vars, Read
  PROVE  /\ Only
         /\ call \in {"FindAllUntilLen", "FindAllUntilNull", "FindAllUntilNullWithID"} /\ ~full' => Every
<1>1. IInv /\ Searching /\ Current /\ ~undefined' /\ Len(text') = Len(text) + 1 /\ text \in Seq(Chars)
  BY DEF SInv, Read, IInv, TypeOK
<1>2. text' # text /\ text' # <<>>
  <2>1. Len(text) \in Nat
    BY <1>1
  <2>2. Len(text) # Len(text) + 1 /\ Len(<<>>) # Len(text) + 1
    BY <2>1
  <2> QED BY <2>2, <1>1
<1>3. PICK c \in Chars : \/ FindUntilNull(c) \/ FindUntilLen(c) \/ FindAllUntilLen(c)
                         \/ FindAllUntilNull(c) \/ FindAllUntilNullWithID(c)
  BY <1>2 DEF Next, PrepareStep, Addword, Clear, Prepare, Insert, Inserted, Fill, Filled, Find, Return,
              vars, search
<1>4. CASE FindUntilNull(c) \/ FindUntilLen(c)
  <2>1. /\ findnum' = findnum
        /\ call \notin {"FindAllUntilLen", "FindAllUntilNull", "FindAllUntilNullWithID"}
    BY <1>4 DEF FindUntilNull, FindUntilLen, Reading, entry
  <2> QED BY <2>1 DEF Only
<1>5. CASE FindAllUntilLen(c)
  BY <1>1, <1>5, AllUntilLenCounts
<1>6. CASE FindAllUntilNull(c)
  <2>1. call = "FindAllUntilNull"
    BY <1>6 DEF FindAllUntilNull, FindAll, Reading
  <2> QED BY <2>1, <1>1, <1>6, FindAllCounts DEF FindAllUntilNull
<1>7. CASE FindAllUntilNullWithID(c)
  <2>1. call = "FindAllUntilNullWithID"
    BY <1>7 DEF FindAllUntilNullWithID, FindAll, Reading
  <2> QED BY <2>1, <1>1, <1>7, FindAllCounts DEF FindAllUntilNullWithID
<1> QED BY <1>3, <1>4, <1>5, <1>6, <1>7

\* A search for all words counts each word that ends at a character it reads exactly once,
\* under the last number the word has, and no other: the first unless it gives up for lack
\* of room, and FindAllUntilLen unless the word is that of the state it is in and others
\* end there too.
THEOREM OccurrencesCountedHolds == Spec => OccurrencesCounted
<1>1. SInv /\ [Next]_vars =>
        [Read => \A j \in 1..wordsnum :
                   \/ findnum'[j] = findnum[j]
                   \/ findnum'[j] = findnum[j] + 1 /\ Counted(j)']_vars
  BY CountsStep DEF Only
<1>2. SInv /\ [Next]_vars =>
        [Read /\ call \in {"FindAllUntilLen", "FindAllUntilNull", "FindAllUntilNullWithID"}
              /\ ~full' =>
           \A j \in 1..wordsnum :
             findnum'[j] = findnum[j] + 1 <=> Counted(j)' /\ ~Covered(j)']_vars
  BY CountsStep DEF Every
<1> QED BY <1>1, <1>2, InitSense, StepSense, PTL
        DEF Spec, OccurrencesCounted, OnlyOccurrencesCounted, AllOccurrencesCounted
=============================================================================
