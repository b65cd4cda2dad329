---------------------------- MODULE TableProofs ----------------------------
(***************************************************************************)
(* What is proved of HashTable for every set of keys, every hash, every    *)
(* load factor and every number of tables; and at the end of ConfigReader,  *)
(* which keeps its settings in one, for files of every length.              *)
(***************************************************************************)
EXTENDS HashTable, ConfigReader, FiniteSetTheorems, TLAPS

\* Every array of chains, whatever its size.
Arrays == UNION {[0..(n - 1) -> Seq(Nodes)] : n \in Nat}

\* No two nodes of f have the same key.
Unique(f) ==
  \A b, c \in DOMAIN f : \A i \in 1..Len(f[b]), j \in 1..Len(f[c]) :
    f[b][i].key = f[c][j].key => b = c /\ i = j

\* The nodes of f are in the buckets of a table of size n.
InBuckets(f, n) ==
  \A b \in DOMAIN f : \A i \in 1..Len(f[b]) : Bucket(f[b][i].key, n) = b
-----------------------------------------------------------------------------
(* The nodes of an array of chains, and what each step on a chain does to   *)
(* them.                                                                    *)

\* A node of f is a node at a place of one of its chains.
LEMMA NodeAt ==
  ASSUME NEW f, NEW n
  PROVE  n \in NodesOf(f) <=> \E b \in DOMAIN f : \E i \in 1..Len(f[b]) : n = f[b][i]
BY DEF NodesOf

\* The same for the keys.
LEMMA KeyAt ==
  ASSUME NEW f, NEW k
  PROVE  k \in KeysOf(f) <=> \E b \in DOMAIN f : \E i \in 1..Len(f[b]) : k = f[b][i].key
<1>1. k \in KeysOf(f) <=> \E n : n \in NodesOf(f) /\ k = n.key
  BY DEF KeysOf
<1>2. \A n : n \in NodesOf(f) <=> \E b \in DOMAIN f : \E i \in 1..Len(f[b]) : n = f[b][i]
  BY NodeAt
<1> QED
  BY <1>1, <1>2

\* The nodes of an array of chains are nodes.
LEMMA NodesAreNodes ==
  ASSUME NEW I, NEW f \in [I -> Seq(Nodes)]
  PROVE  NodesOf(f) \subseteq Nodes /\ KeysOf(f) \subseteq Keys
<1>1. \A b \in I : \A i \in 1..Len(f[b]) : f[b][i] \in Nodes
  OBVIOUS
<1>2. NodesOf(f) \subseteq Nodes
  BY <1>1, NodeAt
<1>3. \A n \in Nodes : n.key \in Keys
  BY DEF Nodes
<1> QED
  BY <1>2, <1>3 DEF KeysOf

\* An empty table has no nodes.
LEMMA EmptyNodes ==
  ASSUME NEW n \in Nat
  PROVE  /\ Empty(n) \in [0..(n - 1) -> Seq(Nodes)]
         /\ NodesOf(Empty(n)) = {} /\ KeysOf(Empty(n)) = {}
         /\ Unique(Empty(n))
<1>1. \A b \in DOMAIN Empty(n) : Len(Empty(n)[b]) = 0
  BY DEF Empty
<1>2. \A m : m \notin NodesOf(Empty(n))
  BY <1>1, NodeAt
<1> QED
  BY <1>1, <1>2 DEF Empty, KeysOf, Unique

\* g is f with a node put at the end of chain b.
AppendLaw(f, b, n, g) ==
  /\ NodesOf(g) = NodesOf(f) \cup {n}
  /\ KeysOf(g) = KeysOf(f) \cup {n.key}
  /\ Unique(f) /\ n.key \notin KeysOf(f) => Unique(g)
  /\ \A s : InBuckets(f, s) /\ Bucket(n.key, s) = b => InBuckets(g, s)

\* Put at the end of a chain.
LEMMA AppendNodes ==
  ASSUME NEW I, NEW f \in [I -> Seq(Nodes)], NEW b \in I, NEW n \in Nodes,
         NEW g \in [I -> Seq(Nodes)], g[b] = Append(f[b], n), \A c \in I \ {b} : g[c] = f[c]
  PROVE  AppendLaw(f, b, n, g)
<1>1. g \in [I -> Seq(Nodes)] /\ DOMAIN f = I /\ DOMAIN g = I
  OBVIOUS
<1>2. \A c \in I \ {b} : g[c] = f[c]
  OBVIOUS
<1>3. /\ g[b] = Append(f[b], n) /\ f[b] \in Seq(Nodes)
      /\ Len(g[b]) = Len(f[b]) + 1 /\ g[b][Len(f[b]) + 1] = n
      /\ \A i \in 1..Len(f[b]) : g[b][i] = f[b][i]
  OBVIOUS
<1>4. \A i \in 1..Len(g[b]) : i \in 1..Len(f[b]) \/ i = Len(f[b]) + 1
  BY <1>3
<1>5. ASSUME NEW m PROVE m \in NodesOf(g) <=> m \in NodesOf(f) \cup {n}
  <2>1. ASSUME m \in NodesOf(g) PROVE m \in NodesOf(f) \cup {n}
    <3>0. \E c \in DOMAIN g : \E i \in 1..Len(g[c]) : m = g[c][i]
      BY <2>1, NodeAt
    <3>1. PICK c \in I : \E i \in 1..Len(g[c]) : m = g[c][i]
      BY <3>0, <1>1
    <3>2. PICK i \in 1..Len(g[c]) : m = g[c][i]
      BY <3>1
    <3>3. CASE c = b /\ i = Len(f[b]) + 1
      BY <3>2, <3>3, <1>3
    <3>4. CASE c # b \/ i # Len(f[b]) + 1
      <4>1. i \in 1..Len(f[c]) /\ m = f[c][i]
        BY <3>2, <3>4, <1>2, <1>3, <1>4
      <4> QED
        BY <4>1, <1>1, NodeAt
    <3> QED
      BY <3>3, <3>4
  <2>2. ASSUME m \in NodesOf(f) PROVE m \in NodesOf(g)
    <3>1. PICK c \in I : \E i \in 1..Len(f[c]) : m = f[c][i]
      BY <2>2, <1>1, NodeAt
    <3>2. PICK i \in 1..Len(f[c]) : m = f[c][i]
      BY <3>1
    <3>3. i \in 1..Len(g[c]) /\ m = g[c][i]
      <4>1. CASE c = b
        BY ONLY <3>2, <4>1, <1>3
      <4>2. CASE c # b
        BY ONLY <3>2, <4>2, <1>2
      <4> QED
        BY <4>1, <4>2
    <3> QED
      BY <3>3, <1>1, NodeAt
  <2>3. n \in NodesOf(g)
    <3>1. Len(f[b]) + 1 \in 1..Len(g[b])
      BY <1>3
    <3> QED
      BY <3>1, <1>1, <1>3, NodeAt
  <2> QED
    BY <2>1, <2>2, <2>3
<1>6. NodesOf(g) = NodesOf(f) \cup {n}
  BY <1>5
<1>7. KeysOf(g) = KeysOf(f) \cup {n.key}
  BY <1>6 DEF KeysOf
<1>8. ASSUME Unique(f), n.key \notin KeysOf(f) PROVE Unique(g)
  <2>1. \A c \in I : \A i \in 1..Len(f[c]) : f[c][i].key # n.key
    BY <1>8, <1>1, KeyAt
  <2> SUFFICES ASSUME NEW c \in I, NEW d \in I,
                      NEW i \in 1..Len(g[c]), NEW j \in 1..Len(g[d]),
                      g[c][i].key = g[d][j].key
               PROVE  c = d /\ i = j
    BY <1>1 DEF Unique
  <2>2. CASE /\ c = b /\ i = Len(f[b]) + 1
             /\ d = b /\ j = Len(f[b]) + 1
    BY <2>2
  <2>3. CASE ~(c = b /\ i = Len(f[b]) + 1) /\ ~(d = b /\ j = Len(f[b]) + 1)
    <3>1. i \in 1..Len(f[c]) /\ g[c][i] = f[c][i]
      BY <2>3, <1>2, <1>3, <1>4
    <3>2. j \in 1..Len(f[d]) /\ g[d][j] = f[d][j]
      BY <2>3, <1>2, <1>3, <1>4
    <3> QED
      BY <3>1, <3>2, <1>1, <1>8 DEF Unique
  <2>4. CASE c = b /\ i = Len(f[b]) + 1 /\ ~(d = b /\ j = Len(f[b]) + 1)
    <3>1. j \in 1..Len(f[d]) /\ g[d][j] = f[d][j]
      BY <2>4, <1>2, <1>3, <1>4
    <3> QED
      BY <3>1, <2>1, <2>4, <1>3
  <2>5. CASE ~(c = b /\ i = Len(f[b]) + 1) /\ d = b /\ j = Len(f[b]) + 1
    <3>1. i \in 1..Len(f[c]) /\ g[c][i] = f[c][i]
      BY <2>5, <1>2, <1>3, <1>4
    <3> QED
      BY <3>1, <2>1, <2>5, <1>3
  <2> QED
    BY <2>2, <2>3, <2>4, <2>5
<1>9. ASSUME NEW s, InBuckets(f, s), Bucket(n.key, s) = b PROVE InBuckets(g, s)
  <2> SUFFICES ASSUME NEW c \in I, NEW i \in 1..Len(g[c])
               PROVE  Bucket(g[c][i].key, s) = c
    BY <1>1 DEF InBuckets
  <2>1. CASE c = b /\ i = Len(f[b]) + 1
    BY <2>1, <1>3, <1>9
  <2>2. CASE ~(c = b /\ i = Len(f[b]) + 1)
    <3>1. i \in 1..Len(f[c]) /\ g[c][i] = f[c][i]
      BY <2>2, <1>2, <1>3, <1>4
    <3> QED
      BY <3>1, <1>1, <1>9 DEF InBuckets
  <2> QED
    BY <2>1, <2>2
<1> QED
  BY <1>1, <1>6, <1>7, <1>8, <1>9 DEF AppendLaw

\* g is f without the first node of chain b.
TailLaw(f, b, g) ==
  /\ Head(f[b]) \in Nodes
  /\ NodesOf(f) = NodesOf(g) \cup {Head(f[b])}
  /\ KeysOf(f) = KeysOf(g) \cup {Head(f[b]).key}
  /\ Head(f[b]).key \notin KeysOf(g)
  /\ Unique(g)

\* A node taken from the head of a chain.
LEMMA TailNodes ==
  ASSUME NEW I, NEW f \in [I -> Seq(Nodes)], NEW b \in I, f[b] # <<>>, Unique(f),
         NEW g \in [I -> Seq(Nodes)], g[b] = Tail(f[b]), \A c \in I \ {b} : g[c] = f[c]
  PROVE  TailLaw(f, b, g)
<1> DEFINE n == Head(f[b])
<1>1. g \in [I -> Seq(Nodes)] /\ DOMAIN f = I /\ DOMAIN g = I
  OBVIOUS
<1>2. \A c \in I \ {b} : g[c] = f[c]
  OBVIOUS
<1>3. /\ f[b] \in Seq(Nodes) /\ Len(f[b]) \in Nat \ {0} /\ Len(g[b]) = Len(f[b]) - 1
      /\ n = f[b][1] /\ n \in Nodes
      /\ \A i \in 1..Len(g[b]) : i + 1 \in 1..Len(f[b]) /\ g[b][i] = f[b][i + 1]
  OBVIOUS
<1>4. \A i \in 1..Len(f[b]) : i = 1 \/ (i - 1 \in 1..Len(g[b]) /\ f[b][i] = g[b][i - 1])
  BY <1>3
<1>5. ASSUME NEW m PROVE m \in NodesOf(f) <=> m \in NodesOf(g) \cup {n}
  <2>1. ASSUME m \in NodesOf(f) PROVE m \in NodesOf(g) \cup {n}
    <3>1. PICK c \in I : \E i \in 1..Len(f[c]) : m = f[c][i]
      BY <2>1, <1>1, NodeAt
    <3>2. PICK i \in 1..Len(f[c]) : m = f[c][i]
      BY <3>1
    <3>3. CASE c = b /\ i = 1
      BY <3>2, <3>3, <1>3
    <3>4. CASE c = b /\ i # 1
      <4>1. i - 1 \in 1..Len(g[b]) /\ m = g[b][i - 1]
        BY <3>2, <3>4, <1>4
      <4> QED
        BY <4>1, <1>1, NodeAt
    <3>5. CASE c # b
      BY <3>2, <3>5, <1>1, <1>2, NodeAt
    <3> QED
      BY <3>3, <3>4, <3>5
  <2>2. ASSUME m \in NodesOf(g) PROVE m \in NodesOf(f)
    <3>0. \E c \in DOMAIN g : \E i \in 1..Len(g[c]) : m = g[c][i]
      BY <2>2, NodeAt
    <3>1. PICK c \in I : \E i \in 1..Len(g[c]) : m = g[c][i]
      BY <3>0, <1>1
    <3>2. PICK i \in 1..Len(g[c]) : m = g[c][i]
      BY <3>1
    <3>3. CASE c = b
      <4>1. i + 1 \in 1..Len(f[b]) /\ m = f[b][i + 1]
        BY <3>2, <3>3, <1>3
      <4> QED
        BY <4>1, <1>1, NodeAt
    <3>4. CASE c # b
      BY <3>2, <3>4, <1>1, <1>2, NodeAt
    <3> QED
      BY <3>3, <3>4
  <2>3. n \in NodesOf(f)
    <3>1. 1 \in 1..Len(f[b])
      BY <1>3
    <3> QED
      BY <3>1, <1>1, <1>3, NodeAt
  <2> QED
    BY <2>1, <2>2, <2>3
<1>6. NodesOf(f) = NodesOf(g) \cup {n}
  BY <1>5
<1>7. KeysOf(f) = KeysOf(g) \cup {n.key}
  BY <1>6 DEF KeysOf
\* Where a node of g was in f.
<1>8. \A c \in I : \A i \in 1..Len(g[c]) :
        LET l == IF c = b THEN i + 1 ELSE i
        IN  l \in 1..Len(f[c]) /\ g[c][i] = f[c][l]
  BY <1>2, <1>3
<1>9. Unique(g)
  <2> SUFFICES ASSUME NEW c \in I, NEW d \in I,
                      NEW i \in 1..Len(g[c]), NEW j \in 1..Len(g[d]),
                      g[c][i].key = g[d][j].key
               PROVE  c = d /\ i = j
    BY <1>1 DEF Unique
  <2> DEFINE l == IF c = b THEN i + 1 ELSE i
             m == IF d = b THEN j + 1 ELSE j
  <2>1. l \in 1..Len(f[c]) /\ g[c][i] = f[c][l] /\ m \in 1..Len(f[d]) /\ g[d][j] = f[d][m]
    BY <1>8
  <2>2. c = d /\ l = m
    BY <2>1, <1>1, SMTT(30) DEF Unique
  <2> QED
    BY <2>2
<1>10. n.key \notin KeysOf(g)
  <2> SUFFICES ASSUME NEW c \in I, NEW i \in 1..Len(g[c]), n.key = g[c][i].key
               PROVE  FALSE
    <3>1. n.key \in KeysOf(g) => \E c \in DOMAIN g : \E i \in 1..Len(g[c]) : n.key = g[c][i].key
      BY KeyAt
    <3> QED
      BY <3>1, <1>1
  <2> DEFINE l == IF c = b THEN i + 1 ELSE i
  <2>1. l \in 1..Len(f[c]) /\ g[c][i] = f[c][l] /\ 1 \in 1..Len(f[b])
    BY <1>8, <1>3
  <2>2. c = b /\ l = 1
    BY <2>1, <1>1, <1>3 DEF Unique
  <2> QED
    BY <2>2
<1> QED
  BY <1>1, <1>3, <1>6, <1>7, <1>9, <1>10 DEF TailLaw

\* u is the chain s without its i-th node.
UnlinkedLaw(S, s, i, u) ==
  /\ u \in Seq(S)
  /\ Len(s) \in Nat
  /\ Len(u) = Len(s) - 1
  /\ \A j \in 1..Len(u) :
     LET l == IF j < i THEN j ELSE j + 1
     IN  l \in 1..Len(s) /\ l # i /\ u[j] = s[l]
  /\ \A l \in 1..Len(s) : l # i =>
     LET j == IF l < i THEN l ELSE l - 1
     IN  j \in 1..Len(u) /\ u[j] = s[l]

\* What Unlinked leaves of a chain, place by place.
LEMMA UnlinkedChain ==
  ASSUME NEW S, NEW s \in Seq(S), NEW i \in 1..Len(s)
  PROVE  UnlinkedLaw(S, s, i, Unlinked(s, i))
<1>0. PICK u : u = Unlinked(s, i)
  OBVIOUS
<1> DEFINE a == SubSeq(s, 1, i - 1)
           z == SubSeq(s, i + 1, Len(s))
<1>1. /\ a \in Seq(S) /\ Len(a) = i - 1 /\ \A j \in 1..(i - 1) : a[j] = s[j]
  OBVIOUS
<1>2. /\ z \in Seq(S) /\ Len(z) = Len(s) - i
      /\ \A j \in 1..(Len(s) - i) : z[j] = s[i + j]
  OBVIOUS
<1>3. u = a \o z
  BY <1>0 DEF Unlinked
<1> HIDE DEF a, z
<1>4. u \in Seq(S) /\ Len(u) = Len(s) - 1 /\ Len(s) \in Nat
  <2>1. Len(s) \in Nat /\ i \in Nat
    OBVIOUS
  <2>2. a \in Seq(S) /\ z \in Seq(S)
    BY <1>1, <1>2
  <2>3. a \o z \in Seq(S) /\ Len(a \o z) = Len(a) + Len(z)
    BY ONLY <2>2
  <2> QED
    BY <2>1, <2>3, <1>1, <1>2, <1>3
<1>5. \A j \in 1..Len(u) : u[j] = IF j < i THEN a[j] ELSE z[j - (i - 1)]
  BY <1>1, <1>2, <1>3, <1>4
<1>6. ASSUME NEW j \in 1..Len(u)
      PROVE  LET l == IF j < i THEN j ELSE j + 1
             IN  l \in 1..Len(s) /\ l # i /\ u[j] = s[l]
  <2>1. CASE j < i
    BY <2>1, <1>1, <1>4, <1>5
  <2>2. CASE ~(j < i)
    <3>1. j - (i - 1) \in 1..(Len(s) - i) /\ i + (j - (i - 1)) = j + 1
      BY <2>2, <1>4
    <3>2. u[j] = s[j + 1]
      BY <3>1, <2>2, <1>2, <1>5
    <3> QED
      BY <3>2, <2>2, <1>4
  <2> QED
    BY <2>1, <2>2
<1>7. ASSUME NEW l \in 1..Len(s), l # i
      PROVE  LET j == IF l < i THEN l ELSE l - 1
             IN  j \in 1..Len(u) /\ u[j] = s[l]
  <2>1. CASE l < i
    <3>1. l \in 1..Len(u)
      BY <2>1, <1>4
    <3> QED
      BY <3>1, <2>1, <1>6
  <2>2. CASE ~(l < i)
    <3>1. l - 1 \in 1..Len(u) /\ ~(l - 1 < i) /\ (l - 1) + 1 = l
      BY <2>2, <1>4, <1>7
    <3>2. u[l - 1] = s[(l - 1) + 1]
      BY <3>1, <1>6
    <3> QED
      BY <3>1, <3>2, <2>2
  <2> QED
    BY <2>1, <2>2
<1> QED
  BY <1>0, <1>4, <1>6, <1>7 DEF UnlinkedLaw

\* g is f without the i-th node of chain b.
UnlinkLaw(f, b, i, g) ==
  /\ f[b][i] \in NodesOf(f)
  /\ NodesOf(g) = NodesOf(f) \ {f[b][i]}
  /\ KeysOf(g) = KeysOf(f) \ {f[b][i].key}
  /\ Unique(g)
  /\ \A s : InBuckets(f, s) => InBuckets(g, s)

\* A node unlinked from its chain.
LEMMA UnlinkNodes ==
  ASSUME NEW I, NEW f \in [I -> Seq(Nodes)], NEW b \in I, NEW i \in 1..Len(f[b]),
         Unique(f),
         NEW g \in [I -> Seq(Nodes)], g[b] = Unlinked(f[b], i), \A c \in I \ {b} : g[c] = f[c]
  PROVE  UnlinkLaw(f, b, i, g)
<1> DEFINE n == f[b][i]
           At_(c, j) == IF c # b \/ j < i THEN j ELSE j + 1
<1>1. f[b] \in Seq(Nodes) /\ n \in Nodes /\ DOMAIN f = I
  OBVIOUS
<1>2. g[b] = Unlinked(f[b], i) /\ DOMAIN g = I /\ \A c \in I \ {b} : g[c] = f[c]
  OBVIOUS
<1>3. /\ g[b] \in Seq(Nodes)
      /\ \A j \in 1..Len(g[b]) :
           LET l == IF j < i THEN j ELSE j + 1
           IN  l \in 1..Len(f[b]) /\ l # i /\ g[b][j] = f[b][l]
      /\ \A l \in 1..Len(f[b]) : l # i =>
           LET j == IF l < i THEN l ELSE l - 1
           IN  j \in 1..Len(g[b]) /\ g[b][j] = f[b][l]
  <2>1. g[b] = Unlinked(f[b], i)
    BY <1>2
  <2> QED
    <3>1. UnlinkedLaw(Nodes, f[b], i, Unlinked(f[b], i))
      BY ONLY <1>1, i \in 1..Len(f[b]), UnlinkedChain
    <3> QED
      BY ONLY <2>1, <3>1 DEF UnlinkedLaw
<1>4. g \in [I -> Seq(Nodes)]
  BY <1>2, <1>3
<1>5. \A c \in I : \A j \in 1..Len(g[c]) :
        /\ At_(c, j) \in 1..Len(f[c]) /\ g[c][j] = f[c][At_(c, j)]
        /\ ~(c = b /\ At_(c, j) = i)
  BY <1>2, <1>3
<1>6. \A c \in I : \A l \in 1..Len(f[c]) : ~(c = b /\ l = i) =>
        \E j \in 1..Len(g[c]) : g[c][j] = f[c][l]
  <2> TAKE c \in I
  <2> TAKE l \in 1..Len(f[c])
  <2> HAVE ~(c = b /\ l = i)
  <2>1. CASE c = b
    BY ONLY <2>1, <1>3, ~(c = b /\ l = i), l \in 1..Len(f[c])
  <2>2. CASE c # b
    BY ONLY <2>2, <1>2, l \in 1..Len(f[c]), c \in I
  <2> QED
    BY <2>1, <2>2
<1>7. \A c \in I : \A l \in 1..Len(f[c]) : f[c][l].key = n.key => c = b /\ l = i
  BY <1>1 DEF Unique
<1> HIDE DEF n
<1>8. ASSUME NEW m PROVE m \in NodesOf(g) <=> m \in NodesOf(f) \ {n}
  <2>1. ASSUME m \in NodesOf(g) PROVE m \in NodesOf(f) \ {n}
    <3>1. PICK c \in I : \E j \in 1..Len(g[c]) : m = g[c][j]
      BY <2>1, <1>2, NodeAt
    <3>2. PICK j \in 1..Len(g[c]) : m = g[c][j]
      BY <3>1
    <3>3. m = f[c][At_(c, j)] /\ At_(c, j) \in 1..Len(f[c]) /\ ~(c = b /\ At_(c, j) = i)
      BY <3>2, <1>5
    <3>4. m # n
      BY <3>3, <1>7
    <3> QED
      BY <3>3, <3>4, <1>1, NodeAt
  <2>2. ASSUME m \in NodesOf(f), m # n PROVE m \in NodesOf(g)
    <3>1. PICK c \in I : \E l \in 1..Len(f[c]) : m = f[c][l]
      BY <2>2, <1>1, NodeAt
    <3>2. PICK l \in 1..Len(f[c]) : m = f[c][l]
      BY <3>1
    <3>3. ~(c = b /\ l = i)
      BY <3>2, <2>2 DEF n
    <3>4. \E j \in 1..Len(g[c]) : m = g[c][j]
      BY <3>2, <3>3, <1>6
    <3> QED
      BY <3>4, <1>2, NodeAt
  <2> QED
    BY <2>1, <2>2
<1>9. NodesOf(g) = NodesOf(f) \ {n}
  BY <1>8
<1>10. n \in NodesOf(f)
  BY <1>1, NodeAt DEF n
<1>11. \A m \in NodesOf(f) : m.key = n.key => m = n
  <2> SUFFICES ASSUME NEW m \in NodesOf(f), m.key = n.key PROVE m = n
    OBVIOUS
  <2>1. PICK c \in I : \E l \in 1..Len(f[c]) : m = f[c][l]
    BY <1>1, NodeAt
  <2>2. PICK l \in 1..Len(f[c]) : m = f[c][l]
    BY <2>1
  <2> QED
    BY <2>2, <1>7 DEF n
<1>12. KeysOf(g) = KeysOf(f) \ {n.key}
  BY <1>9, <1>11 DEF KeysOf
<1>13. Unique(g)
  <2> SUFFICES ASSUME NEW c \in I, NEW d \in I,
                      NEW j \in 1..Len(g[c]), NEW k \in 1..Len(g[d]),
                      g[c][j].key = g[d][k].key
               PROVE  c = d /\ j = k
    BY <1>2 DEF Unique
  <2> DEFINE x == At_(c, j)
             y == At_(d, k)
  <2>1. x \in 1..Len(f[c]) /\ y \in 1..Len(f[d]) /\ f[c][x].key = f[d][y].key
    BY <1>5
  <2> HIDE DEF x, y
  <2>2. c = d /\ x = y
    BY <2>1, <1>1 DEF Unique
  <2> QED
    BY <2>2 DEF x, y
<1>14. ASSUME NEW s, InBuckets(f, s) PROVE InBuckets(g, s)
  BY <1>14, <1>1, <1>2, <1>5 DEF InBuckets
<1> QED
  BY <1>4, <1>9, <1>10, <1>12, <1>13, <1>14 DEF n, UnlinkLaw

\* g is f with another value in the i-th node of chain b.
OverwriteLaw(f, b, i, v, g) ==
  /\ f[b][i] \in NodesOf(f)
  /\ NodesOf(g) = {n \in NodesOf(f) : n.key # f[b][i].key} \cup {Node(f[b][i].key, v)}
  /\ KeysOf(g) = KeysOf(f)
  /\ Unique(g)
  /\ \A s : InBuckets(f, s) => InBuckets(g, s)

\* A value overwritten in its node.
LEMMA OverwriteNodes ==
  ASSUME NEW I, NEW f \in [I -> Seq(Nodes)], NEW b \in I, NEW i \in 1..Len(f[b]),
         NEW v \in Values, Unique(f),
         NEW g \in [I -> Seq(Nodes)], g[b] = [f[b] EXCEPT ![i] = [f[b][i] EXCEPT !.value = v]], \A c \in I \ {b} : g[c] = f[c]
  PROVE  OverwriteLaw(f, b, i, v, g)
<1> DEFINE n == f[b][i]
<1>1. f[b] \in Seq(Nodes) /\ n \in Nodes /\ DOMAIN f = I /\ DOMAIN g = I
  OBVIOUS
<1>2. \A c \in I \ {b} : g[c] = f[c]
  OBVIOUS
<1>3. g[b] = [f[b] EXCEPT ![i] = [f[b][i] EXCEPT !.value = v]]
  BY <1>1
<1>4. [n EXCEPT !.value = v] = Node(n.key, v) /\ Node(n.key, v) \in Nodes
  BY <1>1 DEF Node, Nodes
<1>5. /\ g[b] \in Seq(Nodes) /\ Len(g[b]) = Len(f[b])
      /\ g[b][i] = Node(n.key, v)
      /\ \A j \in 1..Len(f[b]) : j # i => g[b][j] = f[b][j]
  BY <1>1, <1>3, <1>4
<1>6. g \in [I -> Seq(Nodes)]
  BY <1>2, <1>5
<1>7. /\ \A c \in I : Len(g[c]) = Len(f[c])
      /\ \A c \in I : \A j \in 1..Len(f[c]) : ~(c = b /\ j = i) => g[c][j] = f[c][j]
      /\ Node(n.key, v).key = n.key
  BY <1>2, <1>5 DEF Node
<1>8. \A c \in I : \A j \in 1..Len(f[c]) : g[c][j].key = f[c][j].key
  BY <1>5, <1>7
<1>9. \A c \in I : \A l \in 1..Len(f[c]) : f[c][l].key = n.key => c = b /\ l = i
  BY <1>1 DEF Unique
<1> HIDE DEF n
<1> DEFINE others == {m \in NodesOf(f) : m.key # n.key}
<1>10. ASSUME NEW m PROVE m \in NodesOf(g) <=> m \in others \cup {Node(n.key, v)}
  <2>1. ASSUME m \in NodesOf(g), m # Node(n.key, v) PROVE m \in others
    <3>1. PICK c \in I : \E j \in 1..Len(g[c]) : m = g[c][j]
      BY <2>1, <1>1, NodeAt
    <3>2. PICK j \in 1..Len(f[c]) : m = g[c][j]
      BY <3>1, <1>7
    <3>3. m = f[c][j] /\ ~(c = b /\ j = i)
      BY <3>2, <2>1, <1>5, <1>7
    <3>4. m.key # n.key
      BY <3>3, <1>9
    <3> QED
      BY <3>3, <3>4, <1>1, NodeAt
  <2>2. ASSUME m \in others PROVE m \in NodesOf(g)
    <3>1. PICK c \in I : \E l \in 1..Len(f[c]) : m = f[c][l]
      BY <2>2, <1>1, NodeAt
    <3>2. PICK l \in 1..Len(f[c]) : m = f[c][l]
      BY <3>1
    <3>3. ~(c = b /\ l = i)
      BY <3>2, <2>2 DEF n
    <3>4. l \in 1..Len(g[c]) /\ m = g[c][l]
      BY <3>2, <3>3, <1>7
    <3> QED
      BY <3>4, <1>1, NodeAt
  <2>3. Node(n.key, v) \in NodesOf(g)
    <3>1. i \in 1..Len(g[b])
      BY <1>7
    <3> QED
      BY <3>1, <1>1, <1>5, NodeAt
  <2> QED
    BY <2>1, <2>2, <2>3
<1>11. NodesOf(g) = others \cup {Node(n.key, v)}
  BY <1>10
<1>12. n \in NodesOf(f)
  BY <1>1, NodeAt DEF n
<1>13. KeysOf(g) = KeysOf(f)
  BY <1>7, <1>11, <1>12 DEF KeysOf
<1>14. Unique(g)
  BY <1>1, <1>7, <1>8 DEF Unique
<1>15. ASSUME NEW s, InBuckets(f, s) PROVE InBuckets(g, s)
  BY <1>15, <1>1, <1>7, <1>8 DEF InBuckets
<1> QED
  BY <1>6, <1>11, <1>12, <1>13, <1>14, <1>15 DEF n, OverwriteLaw
-----------------------------------------------------------------------------
(* One table: what holds of it between two steps, and that each step keeps   *)
(* it.                                                                      *)

Sound(f, size, num, limit) ==
  /\ size \in Nat /\ size > 0
  /\ f \in [0..(size - 1) -> Seq(Nodes)]
  /\ Unique(f) /\ InBuckets(f, size)
  /\ IsFiniteSet(KeysOf(f)) /\ num = Cardinality(KeysOf(f))
  /\ limit = Limit(size) /\ num <= limit

\* The limit is a number, and a table of twice the size has at least twice it.
LEMMA LimitDoubles ==
  ASSUME NEW n \in Nat
  PROVE  Limit(n) \in Nat /\ Limit(2 * n) \in Nat /\ Limit(2 * n) >= 2 * Limit(n)
<1>1. LoadNum \in Nat /\ LoadDen \in Nat /\ LoadDen > 0
  BY HashAssumption
<1>2. PICK a \in Nat : a = n * LoadNum
  BY <1>1
<1>3. (2 * n) * LoadNum = 2 * a
  BY <1>1, <1>2
<1>4. PICK d \in Nat : d = LoadDen /\ d > 0
  BY <1>1
<1>5. a \div d \in Nat /\ (2 * a) \div d \in Nat /\ (2 * a) \div d >= 2 * (a \div d)
  BY <1>4
<1> QED
  BY <1>2, <1>3, <1>4, <1>5 DEF Limit

\* What the tables of a Sound state are made of.
LEMMA SoundType ==
  ASSUME NEW f, NEW size, NEW num, NEW limit, Sound(f, size, num, limit)
  PROVE  /\ size \in Nat /\ size > 0 /\ num \in Nat /\ limit \in Nat
         /\ f \in [0..(size - 1) -> Seq(Nodes)] /\ f \in Arrays
         /\ Unique(f) /\ IsFiniteSet(KeysOf(f)) /\ num = Cardinality(KeysOf(f))
         /\ num <= limit /\ limit = Limit(size) /\ KeysOf(f) \subseteq Keys
<1>1. size \in Nat /\ f \in [0..(size - 1) -> Seq(Nodes)]
  BY DEF Sound
<1>2. f \in Arrays
  BY <1>1 DEF Arrays
<1>3. num \in Nat /\ limit \in Nat
  BY <1>1, FS_CardinalityType, LimitDoubles DEF Sound
<1>4. KeysOf(f) \subseteq Keys
  BY <1>1, NodesAreNodes
<1> QED
  BY <1>1, <1>2, <1>3, <1>4 DEF Sound

\* The chain of a key is one of the chains, and it holds the key if the table does.
LEMMA Lookup ==
  ASSUME NEW f, NEW size, NEW num, NEW limit, Sound(f, size, num, limit), NEW k \in Keys
  PROVE  LET b == Bucket(k, size)
         IN  /\ b \in 0..(size - 1) /\ f[b] \in Seq(Nodes)
             /\ k \in KeysOf(f) <=> \E i \in 1..Len(f[b]) : f[b][i].key = k
<1> DEFINE b == Bucket(k, size)
<1>1. size \in Nat /\ size > 0 /\ f \in [0..(size - 1) -> Seq(Nodes)]
  BY DEF Sound
<1>2. b \in 0..(size - 1)
  BY <1>1, HashAssumption DEF Bucket
<1>3. ASSUME k \in KeysOf(f) PROVE \E i \in 1..Len(f[b]) : f[b][i].key = k
  <2>1. PICK c \in DOMAIN f : \E i \in 1..Len(f[c]) : k = f[c][i].key
    BY <1>3, KeyAt
  <2>2. PICK i \in 1..Len(f[c]) : k = f[c][i].key
    BY <2>1
  <2>3. c = b
    BY <2>1, <2>2 DEF Sound, InBuckets
  <2> QED
    BY <2>2, <2>3
<1>4. ASSUME NEW i \in 1..Len(f[b]), f[b][i].key = k PROVE k \in KeysOf(f)
  <2>1. b \in DOMAIN f
    BY <1>1, <1>2
  <2> QED
    BY <2>1, <1>4, KeyAt
<1> QED
  BY <1>1, <1>2, <1>3, <1>4

\* g is f with a new node; it is Sound if the limit allows the node.
GrownLaw(f, size, num, limit, k, v, g) ==
  /\ g \in Arrays /\ Unique(g)
  /\ NodesOf(g) = NodesOf(f) \cup {Node(k, v)}
  /\ KeysOf(g) = KeysOf(f) \cup {k}
  /\ num + 1 <= limit => Sound(g, size, num + 1, limit)

\* A new node, when the limit allows it or not.
LEMMA SoundAppend ==
  ASSUME NEW f, NEW size, NEW num, NEW limit, Sound(f, size, num, limit),
         NEW k \in Keys, NEW v \in Values, k \notin KeysOf(f)
  PROVE  GrownLaw(f, size, num, limit, k, v,
                  [f EXCEPT ![Bucket(k, size)] = Append(@, Node(k, v))])
<1>0. PICK g : g = [f EXCEPT ![Bucket(k, size)] = Append(@, Node(k, v))]
  OBVIOUS
<1>1. PICK b : b = Bucket(k, size) /\ b \in 0..(size - 1)
  BY Lookup
<1>2. PICK n \in Nodes : n = Node(k, v) /\ n.key = k
  <2>1. Node(k, v) \in Nodes /\ Node(k, v).key = k
    BY DEF Node, Nodes
  <2> QED
    BY <2>1
<1>3. /\ size \in Nat /\ size > 0 /\ f \in [0..(size - 1) -> Seq(Nodes)]
      /\ Unique(f) /\ InBuckets(f, size) /\ limit = Limit(size)
      /\ IsFiniteSet(KeysOf(f)) /\ num = Cardinality(KeysOf(f))
  BY DEF Sound
<1>4. g = [f EXCEPT ![b] = Append(@, n)]
  BY <1>0, <1>1, <1>2
<1>5. /\ g \in [0..(size - 1) -> Seq(Nodes)] /\ Unique(g) /\ InBuckets(g, size)
      /\ NodesOf(g) = NodesOf(f) \cup {n}
      /\ KeysOf(g) = KeysOf(f) \cup {n.key}
  <2>1. PICK I : I = 0..(size - 1)
    OBVIOUS
  <2>2. f \in [I -> Seq(Nodes)] /\ b \in I /\ n \in Nodes
    BY <1>1, <1>3, <2>1
  <2>3. /\ g \in [I -> Seq(Nodes)]
        /\ NodesOf(g) = NodesOf(f) \cup {n}
        /\ KeysOf(g) = KeysOf(f) \cup {n.key}
        /\ Unique(f) /\ n.key \notin KeysOf(f) => Unique(g)
        /\ \A s : InBuckets(f, s) /\ Bucket(n.key, s) = b => InBuckets(g, s)
    <3>1. g \in [I -> Seq(Nodes)]
      BY <1>4, <2>2
    <3>2. g[b] = Append(f[b], n) /\ \A c \in I \ {b} : g[c] = f[c]
      BY <1>4, <2>2
    <3>3. AppendLaw(f, b, n, g)
      BY ONLY <2>2, <3>1, <3>2, AppendNodes
    <3> QED
      BY ONLY <3>1, <3>3 DEF AppendLaw
  <2>4. Unique(g)
    BY <2>3, <1>2, <1>3
  <2>5. Bucket(n.key, size) = b
    BY <1>1, <1>2
  <2>6. InBuckets(g, size)
    BY ONLY <2>3, <2>5, <1>3
  <2> QED
    BY ONLY <2>1, <2>3, <2>4, <2>6
<1>6. IsFiniteSet(KeysOf(g)) /\ Cardinality(KeysOf(g)) = num + 1
  <2>1. PICK K : K = KeysOf(f) /\ IsFiniteSet(K) /\ k \notin K
    BY <1>3
  <2>2. /\ IsFiniteSet(K \cup {k})
        /\ Cardinality(K \cup {k}) = IF k \in K THEN Cardinality(K) ELSE Cardinality(K) + 1
    BY ONLY <2>1, FS_AddElement
  <2>3. KeysOf(g) = K \cup {k}
    BY ONLY <2>1, <1>2, <1>5
  <2> QED
    BY <2>1, <2>2, <2>3, <1>3
<1>7. g \in Arrays
  BY <1>3, <1>5 DEF Arrays
<1>8. num + 1 <= limit => Sound(g, size, num + 1, limit)
  BY <1>3, <1>5, <1>6 DEF Sound
<1> QED
  BY <1>0, <1>2, <1>5, <1>7, <1>8 DEF GrownLaw

\* A new table is Sound.
LEMMA SoundEmpty ==
  ASSUME NEW n \in Nat, n > 0
  PROVE  Sound(Empty(n), n, 0, Limit(n))
<1>1. InBuckets(Empty(n), n)
  BY DEF InBuckets, Empty
<1>2. IsFiniteSet({}) /\ Cardinality({}) = 0
  BY FS_EmptySet
<1> QED
  <2>1. PICK f : f = Empty(n)
    OBVIOUS
  <2>2. /\ f \in [0..(n - 1) -> Seq(Nodes)] /\ KeysOf(f) = {} /\ Unique(f)
    BY <2>1, EmptyNodes
  <2>3. 0 <= Limit(n)
    BY LimitDoubles
  <2>4. InBuckets(f, n)
    BY <1>1, <2>1
  <2>5. IsFiniteSet(KeysOf(f)) /\ 0 = Cardinality(KeysOf(f))
    BY <1>2, <2>2
  <2>6. Sound(f, n, 0, Limit(n))
    BY ONLY <2>2, <2>3, <2>4, <2>5, n \in Nat, n > 0 DEF Sound
  <2> QED
    BY <2>1, <2>6

\* g is f without the i-th node of chain b.
RemovedLaw(f, size, num, limit, b, i, g) ==
  /\ Sound(g, size, num - 1, limit)
  /\ NodesOf(g) = {n \in NodesOf(f) : n.key # f[b][i].key}

\* A node removed.
LEMMA SoundUnlink ==
  ASSUME NEW f, NEW size, NEW num, NEW limit, Sound(f, size, num, limit),
         NEW b \in 0..(size - 1), NEW i \in 1..Len(f[b])
  PROVE  RemovedLaw(f, size, num, limit, b, i, [f EXCEPT ![b] = Unlinked(@, i)])
<1>0. PICK g : g = [f EXCEPT ![b] = Unlinked(@, i)]
  OBVIOUS
<1>1. /\ size \in Nat /\ f \in [0..(size - 1) -> Seq(Nodes)] /\ Unique(f)
      /\ IsFiniteSet(KeysOf(f)) /\ num = Cardinality(KeysOf(f)) /\ num \in Nat
      /\ InBuckets(f, size) /\ limit \in Nat /\ num <= limit
  BY SoundType DEF Sound
<1>2. /\ g \in [0..(size - 1) -> Seq(Nodes)]
      /\ f[b][i] \in NodesOf(f)
      /\ NodesOf(g) = NodesOf(f) \ {f[b][i]}
      /\ KeysOf(g) = KeysOf(f) \ {f[b][i].key}
      /\ Unique(g) /\ InBuckets(g, size)
  <2>1. PICK I : I = 0..(size - 1)
    OBVIOUS
  <2>2. /\ f \in [I -> Seq(Nodes)] /\ b \in I /\ Unique(f) /\ i \in 1..Len(f[b])
        /\ g = [f EXCEPT ![b] = Unlinked(@, i)]
    BY <1>0, <1>1, <2>1
  <2>3. /\ g \in [I -> Seq(Nodes)]
        /\ f[b][i] \in NodesOf(f)
        /\ NodesOf(g) = NodesOf(f) \ {f[b][i]}
        /\ KeysOf(g) = KeysOf(f) \ {f[b][i].key}
        /\ Unique(g)
        /\ \A s : InBuckets(f, s) => InBuckets(g, s)
    <3>1. g[b] = Unlinked(f[b], i) /\ f[b] \in Seq(Nodes) /\ \A c \in I \ {b} : g[c] = f[c]
      BY <2>2
    <3>2. UnlinkedLaw(Nodes, f[b], i, Unlinked(f[b], i))
      BY ONLY <2>2, <3>1, UnlinkedChain
    <3>3. g \in [I -> Seq(Nodes)]
      BY <2>2, <3>1, <3>2 DEF UnlinkedLaw
    <3>4. UnlinkLaw(f, b, i, g)
      BY ONLY <2>2, <3>1, <3>3, UnlinkNodes
    <3> QED
      BY ONLY <3>3, <3>4 DEF UnlinkLaw
  <2> QED
    BY ONLY <1>1, <2>1, <2>3
<1>3. f[b][i].key \in KeysOf(f)
  BY <1>2 DEF KeysOf
<1>4. IsFiniteSet(KeysOf(g)) /\ Cardinality(KeysOf(g)) = num - 1
  <2>1. PICK K, k : K = KeysOf(f) /\ IsFiniteSet(K) /\ k = f[b][i].key /\ k \in K
    BY <1>1, <1>3
  <2>2. /\ IsFiniteSet(K \ {k})
        /\ Cardinality(K \ {k}) = IF k \in K THEN Cardinality(K) - 1 ELSE Cardinality(K)
    BY ONLY <2>1, FS_RemoveElement
  <2>3. KeysOf(g) = K \ {k}
    BY ONLY <2>1, <1>2
  <2> QED
    BY <2>1, <2>2, <2>3, <1>1
<1>5. f[b][i].key \notin KeysOf(g)
  BY <1>2
<1>6. \A n \in NodesOf(g) : n.key \in KeysOf(g)
  BY DEF KeysOf
<1>7. NodesOf(g) = {n \in NodesOf(f) : n.key # f[b][i].key}
  BY <1>2, <1>5, <1>6
<1>8. Sound(g, size, num - 1, limit)
  <2>1. num - 1 <= limit
    BY <1>1
  <2>2. size > 0 /\ limit = Limit(size)
    BY DEF Sound
  <2> QED
    BY ONLY <1>1, <1>2, <1>4, <2>1, <2>2 DEF Sound
<1> QED
  BY <1>0, <1>7, <1>8 DEF RemovedLaw

\* g is f with the value of the i-th node of chain b overwritten.
WrittenLaw(f, size, num, limit, b, i, v, g) ==
  /\ Sound(g, size, num, limit)
  /\ KeysOf(g) = KeysOf(f)
  /\ NodesOf(g) = {n \in NodesOf(f) : n.key # f[b][i].key} \cup {Node(f[b][i].key, v)}

\* A value overwritten.
LEMMA SoundOverwrite ==
  ASSUME NEW f, NEW size, NEW num, NEW limit, Sound(f, size, num, limit),
         NEW b \in 0..(size - 1), NEW i \in 1..Len(f[b]), NEW v \in Values
  PROVE  WrittenLaw(f, size, num, limit, b, i, v, [f EXCEPT ![b][i].value = v])
<1>0. PICK g : g = [f EXCEPT ![b][i].value = v]
  OBVIOUS
<1>1. /\ size \in Nat /\ f \in [0..(size - 1) -> Seq(Nodes)] /\ Unique(f) /\ InBuckets(f, size)
  BY DEF Sound
<1>2. /\ g \in [0..(size - 1) -> Seq(Nodes)]
      /\ NodesOf(g) = {n \in NodesOf(f) : n.key # f[b][i].key} \cup {Node(f[b][i].key, v)}
      /\ KeysOf(g) = KeysOf(f)
      /\ Unique(g) /\ InBuckets(g, size)
  <2>1. PICK I : I = 0..(size - 1)
    OBVIOUS
  <2>2. /\ f \in [I -> Seq(Nodes)] /\ b \in I /\ Unique(f) /\ i \in 1..Len(f[b]) /\ v \in Values
        /\ g = [f EXCEPT ![b][i].value = v]
    BY <1>0, <1>1, <2>1
  <2>3. /\ g \in [I -> Seq(Nodes)]
        /\ NodesOf(g) = {n \in NodesOf(f) : n.key # f[b][i].key} \cup {Node(f[b][i].key, v)}
        /\ KeysOf(g) = KeysOf(f)
        /\ Unique(g)
        /\ \A s : InBuckets(f, s) => InBuckets(g, s)
    <3>1. /\ g[b] = [f[b] EXCEPT ![i] = [f[b][i] EXCEPT !.value = v]]
          /\ f[b] \in Seq(Nodes) /\ f[b][i] \in Nodes /\ \A c \in I \ {b} : g[c] = f[c]
      BY <2>2
    <3>2. [f[b][i] EXCEPT !.value = v] \in Nodes
      BY <2>2, <3>1 DEF Nodes
    <3>3. g[b] \in Seq(Nodes)
      BY ONLY <2>2, <3>1, <3>2
    <3>4. g \in [I -> Seq(Nodes)]
      BY <2>2, <3>1, <3>3
    <3>5. OverwriteLaw(f, b, i, v, g)
      BY ONLY <2>2, <3>1, <3>4, OverwriteNodes
    <3> QED
      BY ONLY <3>4, <3>5 DEF OverwriteLaw
  <2> QED
    BY ONLY <1>1, <2>1, <2>3
<1> QED
  BY <1>0, <1>2 DEF Sound, WrittenLaw
-----------------------------------------------------------------------------
(* The inductive invariant.  That every table is Sound is not enough: a Move  *)
(* must find its node absent from the table it is put into, and a Rehash it   *)
(* starts must not need what the outer loops have left.  So the nodes still   *)
(* to be moved are kept apart from those moved, and together they are no more *)
(* than the limit of the table, or one.                                      *)

Shape ==
  /\ table_size \in [Tables -> Nat] /\ key_number \in [Tables -> Nat]
  /\ rehash_size \in [Tables -> Nat] /\ DOMAIN table = Tables

AllSound ==
  \A t \in Tables : Sound(table[t], table_size[t], key_number[t], rehash_size[t])

\* The nodes of o can be moved into f, whose limit is given.
Moving(f, limit, o) ==
  /\ KeysOf(f) \cap KeysOf(o) = {}
  /\ IsFiniteSet(KeysOf(o))
  /\ \/ Cardinality(KeysOf(f) \cup KeysOf(o)) <= limit
     \/ Cardinality(KeysOf(f) \cup KeysOf(o)) <= 1

Frames ==
  /\ busy \in Tables \cup {NoTable} /\ (busy = NoTable <=> old = <<>>)
  /\ old \in Seq(Arrays)
  /\ \A j \in 1..Len(old) : Unique(old[j])
  /\ \A j \in 2..Len(old) : NodesOf(old[j]) = {}
  /\ busy # NoTable => Moving(table[busy], rehash_size[busy], old[1])

Outcome ==
  /\ ret \in Values \cup {"none", "true", "false", "thrown"}
  /\ crashed \in BOOLEAN

IInv == Shape /\ AllSound /\ Frames /\ Outcome

\* A step that leaves every table but t alone.
OnlyTable(t) ==
  /\ Shape'
  /\ \A s \in Tables \ {t} :
       /\ table'[s] = table[s] /\ table_size'[s] = table_size[s]
       /\ key_number'[s] = key_number[s] /\ rehash_size'[s] = rehash_size[s]

\* What Put makes of the table f, and of the arrays that wait in rest.
PutLaw(f, size, num, limit, k, v, f2, limit2, rest, old2) ==
  \/ /\ k \in KeysOf(f) /\ KeysOf(f2) = KeysOf(f)
     /\ NodesOf(f2) = {n \in NodesOf(f) : n.key # k} \cup {Node(k, v)}
     /\ limit2 = limit /\ old2 = rest
  \/ /\ k \notin KeysOf(f) /\ num + 1 <= limit
     /\ NodesOf(f2) = NodesOf(f) \cup {Node(k, v)}
     /\ KeysOf(f2) = KeysOf(f) \cup {k}
     /\ limit2 = limit /\ old2 = rest
  \/ /\ k \notin KeysOf(f) /\ num + 1 > limit
     /\ NodesOf(f2) = {} /\ KeysOf(f2) = {}
     /\ limit2 = Limit(2 * size)
     /\ \E full \in Arrays :
          /\ Unique(full)
          /\ NodesOf(full) = NodesOf(f) \cup {Node(k, v)}
          /\ KeysOf(full) = KeysOf(f) \cup {k}
          /\ old2 = <<full>> \o rest

\* Every table stays Sound if the one that changes does.
LEMMA OthersSound ==
  ASSUME AllSound, NEW t \in Tables, OnlyTable(t),
         Sound(table'[t], table_size'[t], key_number'[t], rehash_size'[t])
  PROVE  AllSound'
<1> SUFFICES ASSUME NEW s \in Tables
             PROVE  Sound(table'[s], table_size'[s], key_number'[s], rehash_size'[s])
  BY DEF AllSound
<1>1. CASE s = t
  BY <1>1
<1>2. CASE s # t
  BY <1>2 DEF OnlyTable, AllSound
<1> QED
  BY <1>1, <1>2

\* The body of Put, for one table.
LEMMA PutStep ==
  ASSUME Shape, AllSound, NEW t \in Tables, NEW k \in Keys, NEW v \in Values, NEW rest,
         PutNode(t, k, v, rest)
  PROVE  /\ OnlyTable(t) /\ AllSound'
         /\ PutLaw(table[t], table_size[t], key_number[t], rehash_size[t], k, v,
                   table'[t], rehash_size'[t], rest, old')
<1>1. PICK f, size, num, limit :
        /\ f = table[t] /\ size = table_size[t] /\ num = key_number[t] /\ limit = rehash_size[t]
        /\ Sound(f, size, num, limit)
  BY DEF AllSound
<1>2. /\ size \in Nat /\ size > 0 /\ num \in Nat /\ limit \in Nat
      /\ f \in [0..(size - 1) -> Seq(Nodes)]
  BY <1>1, SoundType
<1>3. PICK b : b = Bucket(k, size)
  OBVIOUS
<1>4. /\ b \in 0..(size - 1) /\ f[b] \in Seq(Nodes)
      /\ k \in KeysOf(f) <=> \E i \in 1..Len(f[b]) : f[b][i].key = k
  BY <1>1, <1>3, Lookup
<1>5. Chain(t, k) = f[b]
  BY <1>1, <1>3 DEF Chain
<1>6. k \in KeysOf(f) <=> Found(t, k)
  BY <1>4, <1>5 DEF Found, At
<1>7. ASSUME NEW i \in 1..Len(Chain(t, k)), At(t, k, i), Overwrite(t, k, i, v),
             old' = rest, UNCHANGED counters
      PROVE  /\ OnlyTable(t)
             /\ Sound(table'[t], table_size'[t], key_number'[t], rehash_size'[t])
             /\ PutLaw(f, size, num, limit, k, v, table'[t], rehash_size'[t], rest, old')
  <2>1. i \in 1..Len(f[b]) /\ f[b][i].key = k /\ k \in KeysOf(f)
    BY <1>5, <1>7, <1>6 DEF At, Found
  <2>2. PICK g : g = table'[t]
    OBVIOUS
  <2>3. g = [f EXCEPT ![b][i].value = v]
    BY <1>1, <1>3, <1>7, <2>2 DEF Overwrite, Shape
  <2>4. /\ Sound(g, size, num, limit)
        /\ KeysOf(g) = KeysOf(f)
        /\ NodesOf(g) = {n \in NodesOf(f) : n.key # f[b][i].key} \cup {Node(f[b][i].key, v)}
    <3>1. WrittenLaw(f, size, num, limit, b, i, v, [f EXCEPT ![b][i].value = v])
      BY ONLY <1>1, <1>4, <2>1, v \in Values, SoundOverwrite
    <3> QED
      BY <2>3, <3>1 DEF WrittenLaw
  <2>5. table_size' = table_size /\ key_number' = key_number /\ rehash_size' = rehash_size
    BY <1>7 DEF counters
  <2>6. OnlyTable(t)
    BY <1>7, <2>5 DEF Overwrite, Shape, OnlyTable
  <2>7. PutLaw(f, size, num, limit, k, v, g, limit, rest, old')
    BY <2>1, <2>4, <1>7 DEF PutLaw
  <2> QED
    BY <1>1, <2>2, <2>4, <2>5, <2>6, <2>7
<1>8. ASSUME ~Found(t, k) PROVE k \notin KeysOf(f)
  BY <1>6, <1>8
<1>9. PICK h : h = [f EXCEPT ![b] = Append(@, Node(k, v))]
  OBVIOUS
<1>10. k \notin KeysOf(f) =>
         /\ h \in Arrays /\ Unique(h)
         /\ NodesOf(h) = NodesOf(f) \cup {Node(k, v)}
         /\ KeysOf(h) = KeysOf(f) \cup {k}
         /\ num + 1 <= limit => Sound(h, size, num + 1, limit)
  <2>1. h = [f EXCEPT ![Bucket(k, size)] = Append(@, Node(k, v))]
    BY <1>3, <1>9
  <2>2. k \notin KeysOf(f) =>
          GrownLaw(f, size, num, limit, k, v,
                   [f EXCEPT ![Bucket(k, size)] = Append(@, Node(k, v))])
    BY ONLY <1>1, k \in Keys, v \in Values, SoundAppend
  <2> QED
    BY <2>1, <2>2 DEF GrownLaw
<1>11. Appended(t, k, v) = h
  BY <1>1, <1>3, <1>9 DEF Appended
<1>12. ASSUME ~Found(t, k), key_number[t] + 1 <= rehash_size[t],
              table' = [table EXCEPT ![t] = Appended(t, k, v)],
              key_number' = [key_number EXCEPT ![t] = @ + 1],
              old' = rest, UNCHANGED <<table_size, rehash_size>>
       PROVE  /\ OnlyTable(t)
              /\ Sound(table'[t], table_size'[t], key_number'[t], rehash_size'[t])
              /\ PutLaw(f, size, num, limit, k, v, table'[t], rehash_size'[t], rest, old')
  <2>1. /\ table'[t] = h /\ table_size'[t] = size /\ key_number'[t] = num + 1
        /\ rehash_size'[t] = limit /\ num + 1 <= limit
    BY <1>1, <1>11, <1>12 DEF Shape
  <2>2. OnlyTable(t)
    BY <1>12 DEF Shape, OnlyTable
  <2>3. PutLaw(f, size, num, limit, k, v, h, limit, rest, old')
    BY <2>1, <1>8, <1>10, <1>12 DEF PutLaw
  <2> QED
    BY <2>1, <2>2, <2>3, <1>8, <1>10, <1>12
<1>13. ASSUME ~Found(t, k), key_number[t] + 1 > rehash_size[t],
              Rehash(t, Appended(t, k, v), rest)
       PROVE  /\ OnlyTable(t)
              /\ Sound(table'[t], table_size'[t], key_number'[t], rehash_size'[t])
              /\ PutLaw(f, size, num, limit, k, v, table'[t], rehash_size'[t], rest, old')
  <2>1. /\ table'[t] = Empty(2 * size) /\ table_size'[t] = 2 * size /\ key_number'[t] = 0
        /\ rehash_size'[t] = Limit(2 * size) /\ num + 1 > limit /\ old' = <<h>> \o rest
    BY <1>1, <1>11, <1>13 DEF Shape, Rehash
  <2>2. 2 * size \in Nat /\ 2 * size > 0 /\ Limit(2 * size) \in Nat
    <3>1. 2 * size \in Nat /\ 2 * size > 0
      BY <1>2
    <3>2. Limit(2 * size) \in Nat
      BY ONLY <1>2, LimitDoubles
    <3> QED
      BY <3>1, <3>2
  <2>3. OnlyTable(t)
    BY <1>1, <1>13, <2>2 DEF Shape, OnlyTable, Rehash
  <2>4. Sound(Empty(2 * size), 2 * size, 0, Limit(2 * size))
    BY <2>2, SoundEmpty
  <2>5. NodesOf(Empty(2 * size)) = {} /\ KeysOf(Empty(2 * size)) = {}
    BY <2>2, EmptyNodes
  <2>6. \E full \in Arrays :
          /\ Unique(full)
          /\ NodesOf(full) = NodesOf(f) \cup {Node(k, v)}
          /\ KeysOf(full) = KeysOf(f) \cup {k}
          /\ old' = <<full>> \o rest
    BY <2>1, <1>8, <1>10, <1>13
  <2>7. PutLaw(f, size, num, limit, k, v, table'[t], rehash_size'[t], rest, old')
    BY <2>1, <2>5, <2>6, <1>8, <1>13 DEF PutLaw
  <2> QED
    BY <2>1, <2>3, <2>4, <2>7
<1>14. /\ OnlyTable(t)
       /\ Sound(table'[t], table_size'[t], key_number'[t], rehash_size'[t])
       /\ PutLaw(f, size, num, limit, k, v, table'[t], rehash_size'[t], rest, old')
  BY <1>7, <1>12, <1>13 DEF PutNode
<1> QED
  BY <1>1, <1>14, OthersSound

\* An array put before others.
LEMMA Before ==
  ASSUME NEW f \in Arrays, NEW rest \in Seq(Arrays)
  PROVE  /\ <<f>> \o rest \in Seq(Arrays) /\ Len(<<f>> \o rest) = Len(rest) + 1
         /\ <<f>> \o rest # <<>> /\ (<<f>> \o rest)[1] = f
         /\ \A j \in 2..Len(<<f>> \o rest) :
              j - 1 \in 1..Len(rest) /\ (<<f>> \o rest)[j] = rest[j - 1]
OBVIOUS

\* A set of keys with one more.
LEMMA OneMore ==
  ASSUME NEW K, IsFiniteSet(K), NEW k, k \notin K
  PROVE  IsFiniteSet(K \cup {k}) /\ Cardinality(K \cup {k}) = Cardinality(K) + 1
         /\ Cardinality(K) \in Nat
BY FS_AddElement, FS_CardinalityType

\* An array without keys has no nodes.
LEMMA NoKeysNoNodes ==
  ASSUME NEW f, KeysOf(f) = {}
  PROVE  NodesOf(f) = {}
BY DEF KeysOf

\* A Put by the program: if it rehashes, all it has to move fits, or is one node.
LEMMA PutFrames ==
  ASSUME Shape, AllSound, Frames, NEW t \in Tables, NEW k \in Keys, NEW v \in Values,
         Ready, PutNode(t, k, v, <<>>), BusyAfter(t)
  PROVE  Frames'
<1>1. PICK f, size, num, limit :
        /\ f = table[t] /\ size = table_size[t] /\ num = key_number[t] /\ limit = rehash_size[t]
        /\ Sound(f, size, num, limit)
  BY DEF AllSound
<1>2. /\ size \in Nat /\ num \in Nat /\ limit \in Nat /\ num <= limit /\ limit = Limit(size)
      /\ IsFiniteSet(KeysOf(f)) /\ num = Cardinality(KeysOf(f))
  BY <1>1, SoundType
<1>3. PutLaw(f, size, num, limit, k, v, table'[t], rehash_size'[t], <<>>, old')
  BY <1>1, PutStep
<1>4. t # NoTable
  BY HashAssumption
<1>5. CASE old' = <<>>
  <2>1. busy' = NoTable
    BY <1>5 DEF BusyAfter
  <2> QED
    BY <1>5, <2>1 DEF Frames
<1>6. ASSUME NEW full \in Arrays, Unique(full), KeysOf(full) = KeysOf(f) \cup {k},
             k \notin KeysOf(f), num + 1 > limit,
             KeysOf(table'[t]) = {}, rehash_size'[t] = Limit(2 * size),
             old' = <<full>> \o <<>>
      PROVE  Frames'
  <2>1. old' = <<full>>
    BY <1>6
  <2>2. busy' = t
    BY <2>1 DEF BusyAfter
  <2>3. IsFiniteSet(KeysOf(full)) /\ Cardinality(KeysOf(full)) = num + 1
    BY <1>2, <1>6, OneMore
  <2>4. PICK l2 : l2 = Limit(2 * size) /\ l2 \in Nat /\ l2 >= 2 * limit
    BY <1>2, LimitDoubles
  <2>5. num + 1 <= l2 \/ num + 1 <= 1
    BY <1>2, <1>6, <2>4
  <2>6. KeysOf(table'[t]) \cup KeysOf(full) = KeysOf(full)
    BY <1>6
  <2>7. Moving(table'[t], rehash_size'[t], full)
    BY <1>6, <2>3, <2>4, <2>5, <2>6 DEF Moving
  <2>8. Len(old') = 1 /\ old'[1] = full /\ old' \in Seq(Arrays) /\ old' # <<>>
    BY <2>1
  <2> QED
    BY <1>4, <1>6, <2>2, <2>7, <2>8 DEF Frames
<1> QED
  BY <1>3, <1>5, <1>6 DEF PutLaw

\* A Move: the node is new to the table, and what it leaves can still be moved.
LEMMA MoveFrames ==
  ASSUME Shape, AllSound, Frames, Move
  PROVE  /\ OnlyTable(busy) /\ AllSound' /\ Frames' /\ busy \in Tables
         /\ NodesOf(table'[busy]) \cup NodesOf(old'[1]) = NodesOf(table[busy]) \cup NodesOf(old[1])
         /\ old # <<>> /\ old' # <<>>
<1>1. /\ busy \in Tables /\ busy # NoTable /\ old # <<>> /\ old \in Seq(Arrays)
      /\ \A j \in 1..Len(old) : Unique(old[j])
      /\ \A j \in 2..Len(old) : NodesOf(old[j]) = {}
      /\ Moving(table[busy], rehash_size[busy], old[1])
      /\ busy' = busy
  BY DEF Move, Frames
<1>2. PICK t \in Tables : t = busy
  BY <1>1
<1>3. /\ Len(old) \in Nat /\ Len(old) >= 1 /\ old[1] \in Arrays /\ Tail(old) \in Seq(Arrays)
      /\ Len(Tail(old)) = Len(old) - 1
      /\ \A j \in 1..Len(Tail(old)) : Tail(old)[j] = old[j + 1] /\ j + 1 \in 2..Len(old)
  BY <1>1
<1>4. PICK o \in Arrays, q \in Seq(Arrays) : o = old[1] /\ q = Tail(old)
  BY <1>3
<1>5. /\ \A j \in 1..Len(q) : NodesOf(q[j]) = {} /\ Unique(q[j])
      /\ Unique(o) /\ Len(q) \in Nat
  <2>1. \A j \in 1..Len(q) : j + 1 \in 2..Len(old) /\ j + 1 \in 1..Len(old) /\ q[j] = old[j + 1]
    BY <1>3, <1>4
  <2>2. \A j \in 1..Len(q) : Unique(old[j + 1]) /\ NodesOf(old[j + 1]) = {}
    BY ONLY <1>1, <2>1
  <2>3. 1 \in 1..Len(old) /\ Len(q) \in Nat
    BY <1>3, <1>4
  <2> QED
    BY <1>1, <1>4, <2>1, <2>2, <2>3
<1>6. PICK b \in DOMAIN o :
        /\ o[b] # <<>>
        /\ LET n == Head(o[b])
               left == [o EXCEPT ![b] = Tail(@)]
           IN  PutNode(t, n.key, n.value, <<left>> \o q)
  BY <1>2, <1>4 DEF Move
<1>7. PICK n, left, rest :
        /\ n = Head(o[b]) /\ left = [o EXCEPT ![b] = Tail(@)] /\ rest = <<left>> \o q
        /\ PutNode(t, n.key, n.value, rest)
  BY <1>6
<1>8. /\ n \in Nodes /\ left \in Arrays /\ Unique(left)
      /\ NodesOf(o) = NodesOf(left) \cup {n}
      /\ KeysOf(o) = KeysOf(left) \cup {n.key} /\ n.key \notin KeysOf(left)
  <2>1. PICK m \in Nat : o \in [0..(m - 1) -> Seq(Nodes)]
    BY DEF Arrays
  <2>2. PICK I : I = 0..(m - 1)
    OBVIOUS
  <2>3. o \in [I -> Seq(Nodes)] /\ b \in I /\ o[b] # <<>> /\ Unique(o)
    BY <1>5, <1>6, <2>1, <2>2
  <2>4. left \in [I -> Seq(Nodes)] /\ left[b] = Tail(o[b]) /\ \A c \in I \ {b} : left[c] = o[c]
    BY <1>7, <2>3
  <2>5. TailLaw(o, b, left)
    BY ONLY <2>3, <2>4, TailNodes
  <2>6. left \in Arrays
    BY <2>1, <2>2, <2>4 DEF Arrays
  <2> QED
    BY <1>7, <2>5, <2>6 DEF TailLaw
<1>9. PICK k \in Keys, v \in Values : k = n.key /\ v = n.value /\ n = Node(k, v)
  BY <1>8 DEF Nodes, Node
<1>10. PICK f, size, num, limit :
        /\ f = table[t] /\ size = table_size[t] /\ num = key_number[t] /\ limit = rehash_size[t]
        /\ Sound(f, size, num, limit)
  BY DEF AllSound
<1>11. /\ size \in Nat /\ num \in Nat /\ limit \in Nat /\ num <= limit /\ limit = Limit(size)
       /\ IsFiniteSet(KeysOf(f)) /\ num = Cardinality(KeysOf(f))
  BY <1>10, SoundType
<1>12. PutNode(t, k, v, rest)
  BY <1>7, <1>9
<1>13. /\ OnlyTable(t) /\ AllSound'
       /\ PutLaw(f, size, num, limit, k, v, table'[t], rehash_size'[t], rest, old')
  BY <1>10, <1>12, PutStep
<1>14. /\ KeysOf(f) \cap KeysOf(o) = {} /\ IsFiniteSet(KeysOf(o))
       /\ \/ Cardinality(KeysOf(f) \cup KeysOf(o)) <= limit
          \/ Cardinality(KeysOf(f) \cup KeysOf(o)) <= 1
  BY <1>1, <1>2, <1>4, <1>10 DEF Moving
<1>15. k \in KeysOf(o) /\ k \notin KeysOf(f) /\ IsFiniteSet(KeysOf(left))
  <2>1. IsFiniteSet(KeysOf(left))
    BY <1>8, <1>14, FS_Subset
  <2> QED
    BY <2>1, <1>8, <1>9, <1>14
<1>16. /\ rest \in Seq(Arrays) /\ Len(rest) = Len(q) + 1 /\ rest # <<>> /\ rest[1] = left
       /\ \A j \in 2..Len(rest) : j - 1 \in 1..Len(q) /\ rest[j] = q[j - 1]
  BY <1>7, <1>8, Before
<1>17. CASE /\ NodesOf(table'[t]) = NodesOf(f) \cup {Node(k, v)}
            /\ KeysOf(table'[t]) = KeysOf(f) \cup {k}
            /\ rehash_size'[t] = limit /\ old' = rest
  <2>1. KeysOf(table'[t]) \cup KeysOf(left) = KeysOf(f) \cup KeysOf(o)
    BY <1>8, <1>9, <1>17
  <2>2. KeysOf(table'[t]) \cap KeysOf(left) = {}
    BY <1>8, <1>9, <1>14, <1>17
  <2>3. Moving(table'[t], rehash_size'[t], left)
    BY <1>14, <1>15, <1>17, <2>1, <2>2 DEF Moving
  <2>4. /\ old' \in Seq(Arrays) /\ old' # <<>> /\ old'[1] = left
        /\ \A j \in 1..Len(old') : Unique(old'[j])
        /\ \A j \in 2..Len(old') : NodesOf(old'[j]) = {}
    <3>1. \A j \in 1..Len(rest) : j = 1 \/ j \in 2..Len(rest)
      BY <1>5, <1>16
    <3> QED
      BY <3>1, <1>5, <1>8, <1>16, <1>17
  <2>5. Frames'
    BY <1>1, <1>2, <2>3, <2>4 DEF Frames
  <2>6. NodesOf(table'[t]) \cup NodesOf(left) = NodesOf(f) \cup NodesOf(o)
    BY <1>8, <1>9, <1>17
  <2> QED
    BY <1>1, <1>2, <1>4, <1>10, <1>13, <2>4, <2>5, <2>6
<1>18. ASSUME num + 1 > limit, NEW full \in Arrays, Unique(full),
              NodesOf(full) = NodesOf(f) \cup {Node(k, v)},
              KeysOf(full) = KeysOf(f) \cup {k}, old' = <<full>> \o rest,
              NodesOf(table'[t]) = {}, KeysOf(table'[t]) = {}
       PROVE  /\ Frames' /\ old' # <<>>
              /\ NodesOf(table'[t]) \cup NodesOf(old'[1]) = NodesOf(f) \cup NodesOf(o)
  <2>1. IsFiniteSet(KeysOf(f) \cup {k}) /\ Cardinality(KeysOf(f) \cup {k}) = num + 1
    BY <1>11, <1>15, OneMore
  <2>2. IsFiniteSet(KeysOf(f) \cup KeysOf(o))
    BY <1>11, <1>14, FS_Union
  <2>3. /\ Cardinality(KeysOf(f) \cup {k}) <= Cardinality(KeysOf(f) \cup KeysOf(o))
        /\ Cardinality(KeysOf(f) \cup KeysOf(o)) \in Nat
    <3>1. KeysOf(f) \cup {k} \in SUBSET (KeysOf(f) \cup KeysOf(o))
      BY <1>15
    <3> QED
      BY ONLY <2>2, <3>1, FS_Subset, FS_CardinalityType
  <2>4. Cardinality(KeysOf(f) \cup KeysOf(o)) <= 1 /\ num = 0
    BY <1>11, <1>14, <1>18, <2>1, <2>3
  <2>5. KeysOf(left) = {}
    <3>1. IsFiniteSet(KeysOf(left) \cup {k}) /\ Cardinality(KeysOf(left) \cup {k}) = Cardinality(KeysOf(left)) + 1
          /\ Cardinality(KeysOf(left)) \in Nat
      BY <1>8, <1>9, <1>15, OneMore
    <3>2. KeysOf(left) \cup {k} \in SUBSET (KeysOf(f) \cup KeysOf(o))
      BY <1>8, <1>15
    <3>3. Cardinality(KeysOf(left) \cup {k}) <= Cardinality(KeysOf(f) \cup KeysOf(o))
      BY ONLY <2>2, <3>2, FS_Subset
    <3>4. Cardinality(KeysOf(left)) = 0
      BY <3>1, <3>3, <2>3, <2>4
    <3> QED
      BY <3>4, <1>15, FS_EmptySet
  <2>6. NodesOf(left) = {}
    BY <2>5, NoKeysNoNodes
  <2>7. KeysOf(table'[t]) \cup KeysOf(full) = KeysOf(f) \cup {k}
    BY <1>18
  <2>8. Cardinality(KeysOf(table'[t]) \cup KeysOf(full)) <= 1
    <3>1. PICK K : K = KeysOf(f) \cup {k}
      OBVIOUS
    <3>2. Cardinality(K) <= 1
      BY ONLY <2>1, <2>4, <3>1
    <3> QED
      BY ONLY <2>7, <3>1, <3>2
  <2>9. Moving(table'[t], rehash_size'[t], full)
    BY <1>18, <2>1, <2>8 DEF Moving
  <2>10. /\ old' \in Seq(Arrays) /\ Len(old') = Len(rest) + 1 /\ old' # <<>> /\ old'[1] = full
         /\ \A j \in 2..Len(old') : j - 1 \in 1..Len(rest) /\ old'[j] = rest[j - 1]
    BY <1>16, <1>18, Before
  <2>11. \A j \in 1..Len(rest) : NodesOf(rest[j]) = {} /\ Unique(rest[j])
    <3>1. \A j \in 1..Len(rest) : j = 1 \/ j \in 2..Len(rest)
      BY <1>5, <1>16
    <3> QED
      BY <3>1, <1>5, <1>8, <1>16, <2>6
  <2>12. /\ \A j \in 1..Len(old') : Unique(old'[j])
         /\ \A j \in 2..Len(old') : NodesOf(old'[j]) = {}
    <3>1. \A j \in 1..Len(old') : j = 1 \/ j \in 2..Len(old')
      BY <2>10
    <3> QED
      BY <3>1, <2>10, <2>11, <1>18
  <2>13. Frames'
    BY <1>1, <1>2, <2>9, <2>10, <2>12 DEF Frames
  <2>14. NodesOf(table'[t]) \cup NodesOf(full) = NodesOf(f) \cup NodesOf(o)
    BY <1>8, <1>9, <1>18, <2>6
  <2> QED
    BY <2>10, <2>13, <2>14
<1> QED
  BY <1>1, <1>2, <1>4, <1>10, <1>13, <1>15, <1>17, <1>18 DEF PutLaw
-----------------------------------------------------------------------------
(* Each operation preserves the inductive invariant.                         *)

\* An operation on t that ends at once, and leaves a Sound table.
LEMMA Ends ==
  ASSUME IInv, Ready, NEW t \in Tables, OnlyTable(t),
         Sound(table'[t], table_size'[t], key_number'[t], rehash_size'[t]),
         UNCHANGED <<busy, old>>, Outcome'
  PROVE  IInv'
<1>1. AllSound'
  BY OthersSound DEF IInv
<1>2. Shape'
  BY DEF OnlyTable
<1>3. Frames'
  BY DEF IInv, Frames, Ready
<1> QED
  BY <1>1, <1>2, <1>3 DEF IInv

\* An operation that only reads.
LEMMA Reads ==
  ASSUME IInv, UNCHANGED <<counters, table, busy, old>>, Outcome'
  PROVE  IInv'
<1>1. Shape'
  BY DEF IInv, Shape, counters
<1>2. AllSound'
  BY DEF IInv, AllSound, counters
<1>3. Frames'
  BY DEF IInv, Frames, counters
<1> QED
  BY <1>1, <1>2, <1>3 DEF IInv

\* What a lookup returns is a value of the table.
LEMMA ChainNodes ==
  ASSUME IInv, NEW t \in Tables, NEW k \in Keys
  PROVE  /\ Bucket(k, table_size[t]) \in 0..(table_size[t] - 1)
         /\ Chain(t, k) \in Seq(Nodes)
         /\ Found(t, k) <=> k \in KeysOf(table[t])
<1>1. PICK f, size, num, limit :
        /\ f = table[t] /\ size = table_size[t] /\ num = key_number[t] /\ limit = rehash_size[t]
        /\ Sound(f, size, num, limit)
  BY DEF IInv, AllSound
<1>2. PICK b : b = Bucket(k, size)
  OBVIOUS
<1>3. /\ b \in 0..(size - 1) /\ f[b] \in Seq(Nodes)
      /\ k \in KeysOf(f) <=> \E i \in 1..Len(f[b]) : f[b][i].key = k
  BY <1>1, <1>2, Lookup
<1>4. Chain(t, k) = f[b]
  BY <1>1, <1>2 DEF Chain
<1> QED
  BY <1>1, <1>2, <1>3, <1>4 DEF Found, At

\* A Put of the program.
LEMMA PutInv ==
  ASSUME IInv, NEW t \in Tables, NEW k \in Keys, NEW v \in Values, Put(t, k, v)
  PROVE  IInv'
<1>1. Ready /\ PutNode(t, k, v, <<>>) /\ BusyAfter(t)
  BY DEF Put
<1>2. OnlyTable(t) /\ AllSound'
  BY <1>1, PutStep DEF IInv
<1>3. Frames'
  BY <1>1, PutFrames DEF IInv
<1>4. Outcome'
  BY DEF Put, Outcome, IInv
<1> QED
  BY <1>2, <1>3, <1>4 DEF IInv, OnlyTable

\* One node moved by a Rehash or copied by operator=.
LEMMA MoveInv ==
  ASSUME IInv, Move
  PROVE  IInv'
<1>1. OnlyTable(busy) /\ AllSound' /\ Frames'
  BY MoveFrames DEF IInv
<1>2. Outcome'
  BY DEF Move, Outcome, IInv
<1> QED
  BY <1>1, <1>2 DEF IInv, OnlyTable

\* The array that was emptied goes; what waits behind it is empty too.
LEMMA MovedInv ==
  ASSUME IInv, Moved
  PROVE  IInv'
<1>1. /\ busy \in Tables /\ busy # NoTable /\ old # <<>> /\ old \in Seq(Arrays)
      /\ \A j \in 1..Len(old) : Unique(old[j])
      /\ \A j \in 2..Len(old) : NodesOf(old[j]) = {}
      /\ old' = Tail(old)
      /\ busy' = IF old' = <<>> THEN NoTable ELSE busy
  BY DEF Moved, IInv, Frames, BusyAfter
<1>2. /\ old' \in Seq(Arrays) /\ Len(old') = Len(old) - 1 /\ Len(old) \in Nat
      /\ \A j \in 1..Len(old') : old'[j] = old[j + 1] /\ j + 1 \in 2..Len(old)
  BY <1>1
<1>3. ASSUME NEW j \in 1..Len(old')
      PROVE  Unique(old'[j]) /\ NodesOf(old'[j]) = {}
  <2>1. PICK i \in 2..Len(old) : old'[j] = old[i] /\ i \in 1..Len(old)
    BY <1>2
  <2>2. Unique(old[i]) /\ NodesOf(old[i]) = {}
    BY <1>1, <2>1
  <2> QED
    BY ONLY <2>1, <2>2
<1>4. UNCHANGED <<table, table_size, key_number, rehash_size, ret, crashed>>
  BY DEF Moved, counters
<1>5. ASSUME busy' # NoTable
      PROVE  Moving(table'[busy'], rehash_size'[busy'], old'[1])
  <2>1. busy' = busy /\ old' # <<>> /\ 1 \in 1..Len(old')
    BY <1>1, <1>2, <1>5
  <2>2. PICK f, size, num, limit :
          /\ f = table[busy] /\ size = table_size[busy] /\ num = key_number[busy]
          /\ limit = rehash_size[busy]
          /\ Sound(f, size, num, limit)
    BY <1>1 DEF IInv, AllSound
  <2>3. num = Cardinality(KeysOf(f)) /\ num <= limit
    BY <2>2, SoundType
  <2>4. NodesOf(old'[1]) = {} /\ KeysOf(old'[1]) = {}
    BY <1>3, <2>1 DEF KeysOf
  <2>5. IsFiniteSet({})
    BY FS_EmptySet
  <2>6. KeysOf(f) \cup {} = KeysOf(f)
    OBVIOUS
  <2>7. Moving(f, limit, old'[1])
    BY <2>3, <2>4, <2>5, <2>6 DEF Moving
  <2> QED
    BY <1>4, <2>1, <2>2, <2>7
<1>6. Frames'
  <2>1. busy' \in Tables \cup {NoTable} /\ (busy' = NoTable <=> old' = <<>>)
    BY <1>1
  <2>2. 2..Len(old') \subseteq 1..Len(old')
    BY <1>2
  <2> QED
    BY <1>2, <1>3, <1>5, <2>1, <2>2 DEF Frames
<1>7. Shape' /\ AllSound' /\ Outcome'
  BY <1>4 DEF IInv, Shape, AllSound, Outcome
<1> QED
  BY <1>6, <1>7 DEF IInv

\* Get.
LEMMA GetInv ==
  ASSUME IInv, NEW t \in Tables, NEW k \in Keys, Get(t, k)
  PROVE  IInv'
<1>1. ret' \in Values \cup {"false"}
  <2>1. PICK c \in Seq(Nodes) : c = Chain(t, k)
    BY ChainNodes
  <2>2. ASSUME NEW i \in 1..Len(c) PROVE c[i].value \in Values
    <3>1. c[i] \in Nodes
      OBVIOUS
    <3> QED
      BY ONLY <3>1 DEF Nodes
  <2> QED
    BY <2>1, <2>2 DEF Get
<1>2. Outcome'
  BY <1>1 DEF Get, Outcome, IInv
<1> QED
  BY <1>2, Reads DEF Get

\* operator[].
LEMMA IndexInv ==
  ASSUME IInv, NEW t \in Tables, NEW k \in Keys, NEW v \in Values, Index(t, k, v)
  PROVE  IInv'
<1>1. Outcome'
  BY DEF Index, Outcome, IInv
<1>2. CASE Found(t, k)
  <2>1. PutNode(t, k, v, old)
    BY <1>2 DEF Index, PutNode
  <2>2. OnlyTable(t) /\ AllSound'
    BY <2>1, PutStep DEF IInv
  <2>3. Frames'
    BY DEF Index, IInv, Frames, Ready
  <2> QED
    BY <1>1, <2>2, <2>3 DEF IInv, OnlyTable
<1>3. CASE ~Found(t, k)
  <2>1. UNCHANGED table
    BY <1>3 DEF Index, Found
  <2> QED
    BY <1>1, <2>1, Reads DEF Index
<1> QED
  BY <1>2, <1>3

\* Remove.
LEMMA RemoveInv ==
  ASSUME IInv, NEW t \in Tables, NEW k \in Keys, Remove(t, k)
  PROVE  /\ IInv'
         /\ k \in KeysOf(table[t]) =>
              /\ OnlyTable(t)
              /\ NodesOf(table'[t]) = {n \in NodesOf(table[t]) : n.key # k}
<1>1. Outcome' /\ Ready /\ UNCHANGED <<table_size, rehash_size, busy, old>>
  BY DEF Remove, Outcome, IInv
<1>2. ASSUME NEW i \in 1..Len(Chain(t, k)), At(t, k, i),
             table' = [table EXCEPT ![t][Bucket(k, table_size[t])] = Unlinked(@, i)],
             key_number' = [key_number EXCEPT ![t] = @ - 1]
      PROVE  /\ IInv' /\ OnlyTable(t)
             /\ NodesOf(table'[t]) = {n \in NodesOf(table[t]) : n.key # k}
  <2>1. PICK f, size, num, limit, b :
          /\ f = table[t] /\ size = table_size[t] /\ num = key_number[t] /\ limit = rehash_size[t]
          /\ Sound(f, size, num, limit) /\ b = Bucket(k, size)
    BY DEF IInv, AllSound
  <2>2. b \in 0..(size - 1) /\ i \in 1..Len(f[b]) /\ f[b][i].key = k
    BY <1>2, <2>1, ChainNodes DEF Chain, At
  <2>3. PICK g : g = [f EXCEPT ![b] = Unlinked(@, i)]
    OBVIOUS
  <2>4. Sound(g, size, num - 1, limit) /\ NodesOf(g) = {n \in NodesOf(f) : n.key # k}
    <3>1. RemovedLaw(f, size, num, limit, b, i, [f EXCEPT ![b] = Unlinked(@, i)])
      BY ONLY <2>1, <2>2, SoundUnlink
    <3> QED
      BY <2>2, <2>3, <3>1 DEF RemovedLaw
  <2>5. table'[t] = g /\ table_size'[t] = size /\ key_number'[t] = num - 1 /\ rehash_size'[t] = limit
    BY <1>1, <1>2, <2>1, <2>3 DEF IInv, Shape
  <2>6. num - 1 \in Nat
    BY <2>4, SoundType
  <2>7. OnlyTable(t)
    BY <1>1, <1>2, <2>1, <2>6 DEF IInv, Shape, OnlyTable
  <2>8. IInv'
    BY <1>1, <2>4, <2>5, <2>7, Ends
  <2> QED
    BY <2>1, <2>4, <2>5, <2>7, <2>8
<1>3. CASE Found(t, k)
  <2>1. Chain(t, k) # <<>>
    BY <1>3, ChainNodes DEF Found
  <2> QED
    BY <1>2, <1>3, <2>1 DEF Remove
<1>4. CASE ~Found(t, k)
  <2>1. UNCHANGED <<table, key_number>>
    BY <1>4 DEF Remove, Found
  <2>2. IInv'
    BY <1>1, <2>1, Reads DEF counters
  <2> QED
    BY <1>4, <2>2, ChainNodes
<1> QED
  BY <1>3, <1>4

\* Clear.
LEMMA ClearInv ==
  ASSUME IInv, NEW t \in Tables, Clear(t)
  PROVE  IInv' /\ OnlyTable(t) /\ NodesOf(table'[t]) = {}
<1>1. PICK size : size = table_size[t] /\ size \in Nat /\ size > 0 /\ rehash_size[t] = Limit(size)
  BY SoundType DEF IInv, AllSound
<1>2. /\ table'[t] = Empty(size) /\ table_size'[t] = size /\ key_number'[t] = 0
      /\ rehash_size'[t] = Limit(size)
  BY <1>1 DEF Clear, IInv, Shape
<1>3. OnlyTable(t)
  BY DEF Clear, IInv, Shape, OnlyTable
<1>4. Sound(Empty(size), size, 0, Limit(size)) /\ NodesOf(Empty(size)) = {}
  BY <1>1, SoundEmpty, EmptyNodes
<1>5. Ready /\ UNCHANGED <<busy, old>> /\ Outcome'
  BY DEF Clear, Outcome, IInv
<1> QED
  BY <1>2, <1>3, <1>4, <1>5, Ends

\* The constructor, where the table was destroyed.
LEMMA ConstructInv ==
  ASSUME IInv, NEW t \in Tables, Construct(t)
  PROVE  IInv' /\ OnlyTable(t) /\ NodesOf(table'[t]) = {}
<1>1. PICK size : size = TableSize /\ size \in Nat /\ size > 0
  BY HashAssumption
<1>2. /\ table'[t] = Empty(size) /\ table_size'[t] = size /\ key_number'[t] = 0
      /\ rehash_size'[t] = Limit(size)
  BY <1>1 DEF Construct, IInv, Shape
<1>3. Limit(size) \in Nat
  BY <1>1, LimitDoubles
<1>4. OnlyTable(t)
  BY <1>1, <1>3 DEF Construct, IInv, Shape, OnlyTable
<1>5. Sound(Empty(size), size, 0, Limit(size)) /\ NodesOf(Empty(size)) = {}
  BY <1>1, SoundEmpty, EmptyNodes
<1>6. Ready /\ UNCHANGED <<busy, old>> /\ Outcome'
  BY DEF Construct, Outcome, IInv
<1> QED
  BY <1>2, <1>4, <1>5, <1>6, Ends

\* The copy has the limit of what it copies, so all the nodes fit.
LEMMA AssignInv ==
  ASSUME IInv, NEW t \in Tables, NEW s \in Tables, Assign(t, s)
  PROVE  /\ IInv' /\ OnlyTable(t) /\ busy' = t /\ old'[1] = table'[s]
         /\ NodesOf(table'[t]) = {} /\ (t # s => table'[s] = table[s])
<1>1. PICK f, size, num, limit :
        /\ f = table[s] /\ size = table_size[s] /\ num = key_number[s] /\ limit = rehash_size[s]
        /\ Sound(f, size, num, limit)
  BY DEF IInv, AllSound
<1>2. /\ size \in Nat /\ size > 0 /\ limit = Limit(size) /\ limit \in Nat
      /\ f \in [0..(size - 1) -> Seq(Nodes)] /\ Unique(f) /\ IsFiniteSet(KeysOf(f))
      /\ num = Cardinality(KeysOf(f)) /\ num <= limit
  BY <1>1, SoundType DEF Sound
<1>3. /\ table'[t] = Empty(size) /\ table_size'[t] = size /\ key_number'[t] = 0
      /\ rehash_size'[t] = limit /\ busy' = t /\ old' = <<table'[s]>>
      /\ (t # s => table'[s] = f)
  BY <1>1 DEF Assign, IInv, Shape
<1>4. OnlyTable(t)
  BY <1>1, <1>2 DEF Assign, IInv, Shape, OnlyTable
<1>5. /\ Sound(Empty(size), size, 0, limit) /\ NodesOf(Empty(size)) = {} /\ KeysOf(Empty(size)) = {}
      /\ Empty(size) \in [0..(size - 1) -> Seq(Nodes)] /\ Unique(Empty(size))
  BY <1>2, SoundEmpty, EmptyNodes
<1>6. AllSound'
  BY <1>3, <1>4, <1>5, OthersSound DEF IInv
<1>7. PICK o : o = table'[s]
  OBVIOUS
<1>8. /\ o \in [0..(size - 1) -> Seq(Nodes)] /\ Unique(o)
      /\ KeysOf(o) = {} \/ KeysOf(o) = KeysOf(f)
  BY <1>2, <1>3, <1>5, <1>7
<1>9. Moving(table'[t], rehash_size'[t], o)
  <2>1. IsFiniteSet({}) /\ Cardinality({}) = 0
    BY FS_EmptySet
  <2>2. KeysOf(table'[t]) = {} /\ {} \cup KeysOf(o) = KeysOf(o)
    BY <1>3, <1>5
  <2>3. IsFiniteSet(KeysOf(o)) /\ Cardinality(KeysOf(o)) <= limit
    <3>1. CASE KeysOf(o) = {}
      <4>1. IsFiniteSet(KeysOf(o)) /\ Cardinality(KeysOf(o)) = 0
        BY ONLY <2>1, <3>1
      <4> QED
        BY ONLY <1>2, <4>1
    <3>2. CASE KeysOf(o) = KeysOf(f)
      BY <1>2, <3>2
    <3> QED
      BY <1>8, <3>1, <3>2
  <2> QED
    BY <1>3, <2>2, <2>3 DEF Moving
<1>10. Frames'
  <2>1. o \in Arrays
    BY <1>2, <1>8 DEF Arrays
  <2>2. old' = <<o>> /\ old' # <<>> /\ old'[1] = o /\ Len(old') = 1 /\ old' \in Seq(Arrays)
    BY <1>3, <1>7, <2>1
  <2>3. t # NoTable
    BY HashAssumption
  <2> QED
    BY <1>3, <1>8, <1>9, <2>2, <2>3 DEF Frames
<1>11. Outcome'
  BY DEF Assign, Outcome, IInv
<1>12. IInv'
  BY <1>4, <1>6, <1>10, <1>11 DEF IInv, OnlyTable
<1>13. NodesOf(table'[t]) = {} /\ old'[1] = table'[s] /\ (t # s => table'[s] = table[s])
  <2>1. NodesOf(table'[t]) = {}
    BY <1>3, <1>5
  <2>2. old'[1] = table'[s]
    BY <1>3
  <2>3. t # s => table'[s] = table[s]
    BY <1>1, <1>3
  <2> QED
    BY <2>1, <2>2, <2>3
<1> QED
  BY <1>3, <1>4, <1>12, <1>13
-----------------------------------------------------------------------------
\* Every table is empty and Sound at first.
LEMMA InitInv == Init => IInv
<1> SUFFICES ASSUME Init PROVE IInv
  OBVIOUS
<1>1. PICK size : size = TableSize /\ size \in Nat /\ size > 0
  BY HashAssumption
<1>2. Limit(size) \in Nat
  BY <1>1, LimitDoubles
<1>3. Shape
  BY <1>1, <1>2 DEF Init, Shape
<1>4. Sound(Empty(size), size, 0, Limit(size))
  BY <1>1, SoundEmpty
<1>5. AllSound
  BY <1>1, <1>4 DEF Init, AllSound
<1>6. Frames
  BY DEF Init, Frames
<1>7. Outcome
  BY DEF Init, Outcome
<1> QED
  BY <1>3, <1>5, <1>6, <1>7 DEF IInv

\* Every step preserves the inductive invariant.
LEMMA NextInv == IInv /\ [Next]_vars => IInv'
<1> SUFFICES ASSUME IInv, [Next]_vars PROVE IInv'
  OBVIOUS
<1>1. CASE Move
  BY <1>1, MoveInv
<1>2. CASE Moved
  BY <1>2, MovedInv
<1>3. CASE EmptyKey
  <2>1. Outcome'
    BY <1>3 DEF EmptyKey, Outcome, IInv
  <2> QED
    BY <1>3, <2>1, Reads DEF EmptyKey
<1>4. ASSUME NEW t \in Tables, Clear(t) PROVE IInv'
  BY <1>4, ClearInv
<1>5. ASSUME NEW t \in Tables, Construct(t) PROVE IInv'
  BY <1>5, ConstructInv
<1>6. ASSUME NEW t \in Tables, NEW s \in Tables, Assign(t, s) PROVE IInv'
  BY <1>6, AssignInv
<1>7. ASSUME NEW t \in Tables, NEW k \in Keys, Get(t, k) PROVE IInv'
  BY <1>7, GetInv
<1>8. ASSUME NEW t \in Tables, NEW k \in Keys, Contains(t, k) PROVE IInv'
  <2>1. Outcome'
    BY <1>8 DEF Contains, Outcome, IInv
  <2> QED
    BY <1>8, <2>1, Reads DEF Contains
<1>9. ASSUME NEW t \in Tables, NEW k \in Keys, Remove(t, k) PROVE IInv'
  BY <1>9, RemoveInv
<1>10. ASSUME NEW t \in Tables, NEW k \in Keys, NEW v \in Values, Put(t, k, v) PROVE IInv'
  BY <1>10, PutInv
<1>11. ASSUME NEW t \in Tables, NEW k \in Keys, NEW v \in Values, Index(t, k, v) PROVE IInv'
  BY <1>11, IndexInv
<1>12. CASE UNCHANGED vars
  <2>1. Outcome'
    BY <1>12 DEF vars, Outcome, IInv
  <2> QED
    BY <1>12, <2>1, Reads DEF vars, counters
<1> QED
  BY <1>1, <1>2, <1>3, <1>4, <1>5, <1>6, <1>7, <1>8, <1>9, <1>10, <1>11, <1>12 DEF Next
-----------------------------------------------------------------------------
\* The inductive invariant.
THEOREM InvHolds == Spec => []IInv
<1>1. Init => IInv
  BY InitInv
<1>2. IInv /\ [Next]_vars => IInv'
  BY NextInv
<1> QED
  BY <1>1, <1>2, PTL DEF Spec

\* The buckets of an old table count from 0.
LEMMA ArraysAreTables ==
  ASSUME NEW f \in Arrays
  PROVE  IsTable(f)
<1>1. PICK n \in Nat : f \in [0..(n - 1) -> Seq(Nodes)]
  BY DEF Arrays
<1>2. \A b \in 0..(n - 1) : b \in Nat /\ \A c \in 0..b : c \in 0..(n - 1)
  BY <1>1
<1>3. DOMAIN f = 0..(n - 1) /\ \A b \in 0..(n - 1) : f[b] \in Seq(Nodes)
  BY <1>1
<1> QED
  BY ONLY <1>2, <1>3 DEF IsTable

\* The types, of every object and of the arrays a rehash has put aside.
THEOREM TypeCorrect == Spec => []TypeOK
<1>1. IInv => TypeOK
  <2> SUFFICES ASSUME IInv PROVE TypeOK
    OBVIOUS
  <2>1. ASSUME NEW t \in Tables
        PROVE  table_size[t] > 0 /\ table[t] \in [0..(table_size[t] - 1) -> Seq(Nodes)]
    <3>1. PICK f, size, num, limit :
            /\ f = table[t] /\ size = table_size[t] /\ num = key_number[t] /\ limit = rehash_size[t]
            /\ Sound(f, size, num, limit)
      BY DEF IInv, AllSound
    <3> QED
      BY <3>1 DEF Sound
  <2>2. \A j \in 1..Len(old) : IsTable(old[j])
    BY ArraysAreTables DEF IInv, Frames
  <2> QED
    BY <2>1, <2>2 DEF IInv, Shape, Frames, Outcome, TypeOK
<1> QED
  BY <1>1, InvHolds, PTL

\* Every node is where Get, Put and Remove look for it, and is the only one
\* there with its key, in the table and in what a rehash has left to move.
THEOREM PlacedHolds == Spec => []Placed
<1>1. IInv => Placed
  <2> SUFFICES ASSUME IInv PROVE Placed
    OBVIOUS
  <2>1. ASSUME NEW t \in Tables
        PROVE  /\ \A b \in DOMAIN table[t] : \A i \in 1..Len(table[t][b]) :
                    Bucket(table[t][b][i].key, table_size[t]) = b
               /\ \A b \in DOMAIN table[t] : \A i, j \in 1..Len(table[t][b]) :
                    i # j => table[t][b][i].key # table[t][b][j].key
    <3>1. PICK f, size, num, limit :
            /\ f = table[t] /\ size = table_size[t] /\ num = key_number[t] /\ limit = rehash_size[t]
            /\ Sound(f, size, num, limit)
      BY DEF IInv, AllSound
    <3>2. Unique(f) /\ InBuckets(f, size)
      BY <3>1 DEF Sound
    <3>3. \A b \in DOMAIN f : \A i, j \in 1..Len(f[b]) : i # j => f[b][i].key # f[b][j].key
      BY ONLY <3>2 DEF Unique
    <3>4. \A b \in DOMAIN f : \A i \in 1..Len(f[b]) : Bucket(f[b][i].key, size) = b
      BY ONLY <3>2 DEF InBuckets
    <3> QED
      BY ONLY <3>1, <3>3, <3>4
  <2>2. ASSUME busy # NoTable, NEW j \in 1..Len(old)
        PROVE  KeysOf(table[busy]) \cap KeysOf(old[j]) = {}
    <3>1. CASE j = 1
      BY <2>2, <3>1 DEF IInv, Frames, Moving
    <3>2. CASE j # 1
      <4>1. j \in 2..Len(old)
        BY <3>2 DEF IInv, Frames
      <4>2. NodesOf(old[j]) = {}
        BY <4>1 DEF IInv, Frames
      <4> QED
        BY <4>2 DEF KeysOf
    <3> QED
      BY <3>1, <3>2
  <2> QED
    BY ONLY <2>1, <2>2 DEF Placed
<1> QED
  BY <1>1, InvHolds, PTL

\* key_number is the number of keys, between any two steps of any operation.
THEOREM CountsNodesHolds == Spec => []CountsNodes
<1>1. IInv => CountsNodes
  BY SoundType DEF IInv, AllSound, CountsNodes
<1> QED
  BY <1>1, InvHolds, PTL

\* The load factor is respected, whatever the history of the table.
THEOREM LoadBoundedHolds == Spec => []LoadBounded
<1>1. IInv => LoadBounded
  BY SoundType DEF IInv, AllSound, LoadBounded
<1> QED
  BY <1>1, InvHolds, PTL

\* A rehash inside a rehash never leaves the outer one anything to move.
THEOREM NestedIsLastHolds == Spec => []NestedIsLast
<1>1. IInv => NestedIsLast
  BY DEF IInv, Frames, NestedIsLast
<1> QED
  BY <1>1, InvHolds, PTL
-----------------------------------------------------------------------------
(* The table implements the dictionary.  What a caller can see of a table is  *)
(* the nodes it has, and those its rehash or assignment has yet to move.     *)

Dict == [t \in Tables |-> Content(t)]

\* Only the array that is being moved has nodes.
LEMMA FirstOnly ==
  ASSUME NEW q \in Seq(Arrays), q # <<>>, \A j \in 2..Len(q) : NodesOf(q[j]) = {}
  PROVE  UNION {NodesOf(q[j]) : j \in 1..Len(q)} = NodesOf(q[1])
<1>1. 1 \in 1..Len(q) /\ \A j \in 1..Len(q) : j = 1 \/ j \in 2..Len(q)
  OBVIOUS
<1>2. \A j \in 1..Len(q) : NodesOf(q[j]) \subseteq NodesOf(q[1])
  BY <1>1
<1> QED
  BY ONLY <1>1, <1>2

\* What can be seen of the table that is busy.
LEMMA BusyContent ==
  ASSUME Frames, NEW t \in Tables, busy = t
  PROVE  Content(t) = NodesOf(table[t]) \cup NodesOf(old[1])
<1>1. busy # NoTable
  BY HashAssumption
<1>2. old \in Seq(Arrays) /\ old # <<>> /\ \A j \in 2..Len(old) : NodesOf(old[j]) = {}
  BY <1>1 DEF Frames
<1> QED
  BY <1>2, FirstOnly DEF Content

\* The same after a step.
LEMMA BusyContentAfter ==
  ASSUME Frames', NEW t \in Tables, busy' = t
  PROVE  Content(t)' = NodesOf(table'[t]) \cup NodesOf(old'[1])
<1>1. busy' # NoTable
  BY HashAssumption
<1>2. old' \in Seq(Arrays) /\ old' # <<>> /\ \A j \in 2..Len(old') : NodesOf(old'[j]) = {}
  BY <1>1 DEF Frames
<1> QED
  BY <1>2, FirstOnly DEF Content

\* A step of an operation on t changes the content of no other table.
LEMMA OtherContent ==
  ASSUME Frames, Frames', NEW t \in Tables, OnlyTable(t),
         busy \in {NoTable, t}, busy' \in {NoTable, t}
  PROVE  Dict' = [Dict EXCEPT ![t] = Content(t)']
<1>1. ASSUME NEW s \in Tables \ {t}
      PROVE  Content(s)' = Content(s)
  <2>1. busy # s /\ busy' # s
    BY HashAssumption
  <2>2. table'[s] = table[s]
    BY DEF OnlyTable
  <2> QED
    BY <2>1, <2>2 DEF Content
<1>2. DOMAIN Dict = Tables /\ DOMAIN Dict' = Tables
  BY DEF Dict
<1>3. \A s \in Tables : Dict[s] = Content(s) /\ Dict'[s] = Content(s)'
  BY DEF Dict
<1>4. Dict = [s \in Tables |-> Dict[s]] /\ Dict' = [s \in Tables |-> Dict'[s]]
  BY DEF Dict
<1>5. \A s \in Tables \ {t} : Dict'[s] = Dict[s]
  BY <1>1, <1>3
<1> QED
  BY <1>2, <1>3, <1>4, <1>5

\* Between operations the content of a table is its nodes.
LEMMA ReadyContent ==
  ASSUME IInv, Ready, NEW t \in Tables
  PROVE  Content(t) = NodesOf(table[t]) /\ Dict[t] = NodesOf(table[t])
<1>1. busy # t
  BY HashAssumption DEF Ready
<1> QED
  BY <1>1 DEF Content, Dict

\* A Put that may leave nodes to be moved is a Put of the dictionary.
LEMMA PutContent ==
  ASSUME IInv, IInv', Ready, NEW t \in Tables, NEW k \in Keys, NEW v \in Values,
         PutNode(t, k, v, <<>>), BusyAfter(t)
  PROVE  Dict' = [Dict EXCEPT ![t] = {n \in Dict[t] : n.key # k} \cup {Node(k, v)}]
<1>1. PICK f, size, num, limit :
        f = table[t] /\ size = table_size[t] /\ num = key_number[t] /\ limit = rehash_size[t]
  OBVIOUS
<1>2. /\ OnlyTable(t)
      /\ PutLaw(f, size, num, limit, k, v, table'[t], rehash_size'[t], <<>>, old')
  BY <1>1, PutStep DEF IInv
<1>3. t # NoTable
  BY HashAssumption
<1>4. PICK d : d = {n \in NodesOf(f) : n.key # k} \cup {Node(k, v)}
  OBVIOUS
<1>5. k \notin KeysOf(f) => d = NodesOf(f) \cup {Node(k, v)}
  BY <1>4 DEF KeysOf
<1>6. CASE old' = <<>>
  <2>1. NodesOf(table'[t]) = d
    <3>1. CASE k \in KeysOf(f)
      BY <1>2, <1>4, <1>6, <3>1 DEF PutLaw
    <3>2. CASE k \notin KeysOf(f)
      <4>1. \A full \in Arrays : <<full>> \o <<>> # <<>>
        OBVIOUS
      <4> QED
        BY <1>2, <1>5, <1>6, <3>2, <4>1 DEF PutLaw
    <3> QED
      BY <3>1, <3>2
  <2>2. busy' = NoTable
    BY <1>6 DEF BusyAfter
  <2>3. busy' # t
    BY <1>3, <2>2
  <2>4. Content(t)' = NodesOf(table'[t])
    BY <2>3 DEF Content
  <2>5. Content(t)' = d
    BY <2>1, <2>4
  <2> QED
    BY <1>1, <1>2, <1>4, <2>2, <2>5, ReadyContent, OtherContent DEF IInv, Ready
<1>7. CASE old' # <<>>
  <2>1. PICK full \in Arrays :
          old' = <<full>> \o <<>> /\ NodesOf(full) = d /\ NodesOf(table'[t]) = {}
    BY <1>2, <1>5, <1>7 DEF PutLaw
  <2>2. old'[1] = full
    BY <2>1
  <2>3. busy' = t
    BY <1>7 DEF BusyAfter
  <2>4. Content(t)' = NodesOf(table'[t]) \cup NodesOf(old'[1])
    BY <2>3, BusyContentAfter DEF IInv
  <2>5. Content(t)' = d
    BY <2>1, <2>2, <2>4
  <2> QED
    BY <1>1, <1>2, <1>4, <2>3, <2>5, ReadyContent, OtherContent DEF IInv, Ready
<1> QED
  BY <1>6, <1>7

\* Moving nodes changes nothing that a caller can see.
LEMMA MoveContent ==
  ASSUME IInv, IInv', Move
  PROVE  Dict' = Dict
<1>1. PICK t \in Tables : t = busy
  BY MoveFrames DEF IInv
<1>2. /\ OnlyTable(t) /\ busy' = t
      /\ NodesOf(table'[t]) \cup NodesOf(old'[1]) = NodesOf(table[t]) \cup NodesOf(old[1])
  BY <1>1, MoveFrames DEF IInv, Move
<1>3. Content(t) = NodesOf(table[t]) \cup NodesOf(old[1])
  BY <1>1, BusyContent DEF IInv
<1>4. Content(t)' = NodesOf(table'[t]) \cup NodesOf(old'[1])
  BY <1>2, BusyContentAfter DEF IInv
<1>5. Content(t)' = Dict[t] /\ Dict = [s \in Tables |-> Dict[s]]
  BY <1>2, <1>3, <1>4 DEF IInv, Dict
<1>6. Dict' = [Dict EXCEPT ![t] = Content(t)']
  BY <1>1, <1>2, OtherContent DEF IInv
<1> QED
  BY <1>5, <1>6

\* The end of a loop: what is left behind is empty.
LEMMA MovedContent ==
  ASSUME IInv, IInv', Moved
  PROVE  Dict' = Dict
<1>1. /\ busy \in Tables /\ busy # NoTable /\ old # <<>> /\ old \in Seq(Arrays)
      /\ \A j \in 2..Len(old) : NodesOf(old[j]) = {}
      /\ old' = Tail(old) /\ UNCHANGED table
      /\ busy' = IF old' = <<>> THEN NoTable ELSE busy
  BY DEF Moved, IInv, Frames, BusyAfter
<1>2. PICK t \in Tables : t = busy
  BY <1>1
<1>3. NodesOf(old[1]) = {}
  <2>1. \A b \in DOMAIN old[1] : Len(old[1][b]) = 0
    BY DEF Moved
  <2> QED
    BY <2>1 DEF NodesOf
<1>4. Content(t) = NodesOf(table[t])
  BY <1>2, <1>3, BusyContent DEF IInv
<1>5. Content(t)' = NodesOf(table'[t])
  <2>1. CASE old' = <<>>
    BY <1>1, <1>2, <2>1 DEF Content
  <2>2. CASE old' # <<>>
    <3>1. NodesOf(old'[1]) = {}
      <4>1. old'[1] = old[2] /\ 2 \in 2..Len(old)
        BY <1>1, <2>2
      <4> QED
        BY <1>1, <4>1
    <3> QED
      BY <1>1, <1>2, <2>2, <3>1, BusyContentAfter DEF IInv
  <2> QED
    BY <2>1, <2>2
<1>6. \A s \in Tables \ {t} : Content(s)' = Content(s)
  <2>1. \A s \in Tables \ {t} : busy # s /\ busy' # s
    BY <1>1, <1>2, HashAssumption
  <2> QED
    BY <1>1, <2>1 DEF Content
<1>7. \A s \in Tables : Content(s)' = Content(s)
  BY <1>1, <1>4, <1>5, <1>6
<1> QED
  BY <1>7 DEF Dict

\* A step that changes no table, and none of what waits.
LEMMA SameContent ==
  ASSUME UNCHANGED <<table, busy, old>>
  PROVE  Dict' = Dict
BY DEF Dict, Content

\* Found is what the dictionary has.
LEMMA FoundHas ==
  ASSUME IInv, Ready, NEW t \in Tables, NEW k \in Keys
  PROVE  /\ Found(t, k) <=> \E n \in Dict[t] : n.key = k
         /\ \A i \in 1..Len(Chain(t, k)) : Chain(t, k)[i] \in Dict[t]
<1>1. PICK f : f = table[t]
  OBVIOUS
<1>2. Dict[t] = NodesOf(f)
  BY <1>1, ReadyContent
<1>3. Found(t, k) <=> k \in KeysOf(f)
  BY <1>1, ChainNodes
<1>4. k \in KeysOf(f) <=> \E n \in NodesOf(f) : n.key = k
  BY DEF KeysOf
<1>5. PICK b : b = Bucket(k, table_size[t]) /\ Chain(t, k) = f[b]
  BY <1>1 DEF Chain
<1>6. b \in DOMAIN f
  <2>1. b \in 0..(table_size[t] - 1)
    BY <1>5, ChainNodes
  <2>2. f \in [0..(table_size[t] - 1) -> Seq(Nodes)]
    BY <1>1 DEF IInv, AllSound, Sound
  <2> QED
    BY <2>1, <2>2
<1>7. \A i \in 1..Len(f[b]) : f[b][i] \in NodesOf(f)
  BY <1>6 DEF NodesOf
<1> QED
  BY <1>2, <1>3, <1>4, <1>5, <1>7

\* Each operation of the table is the operation of the dictionary.
LEMMA NextDictionary ==
  ASSUME IInv, IInv', [Next]_vars
  PROVE  [D!Next]_(D!dVars)
<1> USE DEF D!dVars
<1>1. CASE Move
  <2>1. Dict' = Dict /\ ret' = ret
    BY <1>1, MoveContent DEF Move
  <2> QED
    BY <2>1 DEF Dict
<1>2. CASE Moved
  <2>1. Dict' = Dict /\ ret' = ret
    BY <1>2, MovedContent DEF Moved
  <2> QED
    BY <2>1 DEF Dict
<1>3. CASE EmptyKey
  <2>1. Dict' = Dict /\ ret' = "thrown"
    BY <1>3, SameContent DEF EmptyKey
  <2>2. D!EmptyKey
    BY <2>1 DEF Dict, D!EmptyKey
  <2> QED
    BY <2>2 DEF D!Next
<1>4. ASSUME NEW t \in Tables, Clear(t) PROVE D!Next
  <2>1. Ready /\ ret' = "none" /\ busy = NoTable /\ busy' = NoTable
    BY <1>4 DEF Clear, Ready
  <2>2. OnlyTable(t) /\ NodesOf(table'[t]) = {}
    BY <1>4, ClearInv
  <2>3. Content(t)' = {}
    BY <2>1, <2>2, HashAssumption DEF Content
  <2>4. Dict' = [Dict EXCEPT ![t] = {}]
    BY <2>1, <2>2, <2>3, OtherContent DEF IInv
  <2>5. D!Clear(t)
    BY <2>1, <2>4 DEF Dict, D!Clear
  <2> QED
    BY <2>5 DEF D!Next
<1>5. ASSUME NEW t \in Tables, Construct(t) PROVE D!Next
  <2>1. Ready /\ ret' = "none" /\ busy = NoTable /\ busy' = NoTable
    BY <1>5 DEF Construct, Ready
  <2>2. OnlyTable(t) /\ NodesOf(table'[t]) = {}
    BY <1>5, ConstructInv
  <2>3. Content(t)' = {}
    BY <2>1, <2>2, HashAssumption DEF Content
  <2>4. Dict' = [Dict EXCEPT ![t] = {}]
    BY <2>1, <2>2, <2>3, OtherContent DEF IInv
  <2>5. D!Clear(t)
    BY <2>1, <2>4 DEF Dict, D!Clear
  <2> QED
    BY <2>5 DEF D!Next
<1>6. ASSUME NEW t \in Tables, NEW s \in Tables, Assign(t, s) PROVE D!Next
  <2>1. Ready /\ ret' = "none" /\ busy = NoTable
    BY <1>6 DEF Assign, Ready
  <2>2. OnlyTable(t) /\ busy' = t
    BY <1>6, AssignInv
  <2>3. PICK o : o = table'[s] /\ old'[1] = o
    BY <1>6, AssignInv
  <2>4. Content(t)' = IF s = t THEN {} ELSE Dict[s]
    <3>1. Dict[s] = NodesOf(table[s])
      BY <2>1, ReadyContent
    <3>2. NodesOf(table'[t]) = {}
      BY <1>6, AssignInv
    <3>3. Content(t)' = NodesOf(table'[t]) \cup NodesOf(old'[1])
      BY <2>2, BusyContentAfter DEF IInv
    <3>4. Content(t)' = NodesOf(o)
      BY <2>3, <3>2, <3>3
    <3>5. s = t => o = table'[t]
      BY <2>3
    <3>6. s # t => o = table[s]
      BY <1>6, <2>3, AssignInv
    <3> QED
      BY <3>1, <3>2, <3>4, <3>5, <3>6
  <2>5. Dict' = [Dict EXCEPT ![t] = IF s = t THEN {} ELSE Dict[s]]
    BY <2>1, <2>2, <2>4, OtherContent DEF IInv
  <2>6. D!Assign(t, s)
    BY <2>1, <2>5 DEF Dict, D!Assign
  <2> QED
    BY <2>6 DEF D!Next
<1>7. ASSUME NEW t \in Tables, NEW k \in Keys, Get(t, k) PROVE D!Next
  <2>1. Dict' = Dict /\ Ready
    BY <1>7, SameContent DEF Get
  <2>2. \/ \E n \in Dict[t] : n.key = k /\ ret' = n.value
        \/ ~(\E n \in Dict[t] : n.key = k) /\ ret' = "false"
    BY <1>7, <2>1, FoundHas DEF Get, At
  <2>3. D!Get(t, k)
    BY <2>1, <2>2 DEF Dict, D!Get, D!Has
  <2> QED
    BY <2>3 DEF D!Next
<1>8. ASSUME NEW t \in Tables, NEW k \in Keys, Contains(t, k) PROVE D!Next
  <2>1. Dict' = Dict /\ Ready
    BY <1>8, SameContent DEF Contains
  <2>2. ret' = IF \E n \in Dict[t] : n.key = k THEN "true" ELSE "false"
    BY <1>8, <2>1, FoundHas DEF Contains
  <2>3. D!Contains(t, k)
    BY <2>1, <2>2 DEF Dict, D!Contains, D!Has
  <2> QED
    BY <2>3 DEF D!Next
<1>9. ASSUME NEW t \in Tables, NEW k \in Keys, Remove(t, k) PROVE [D!Next]_(D!dVars)
  <2>1. Ready /\ busy = NoTable /\ busy' = NoTable /\ UNCHANGED old
    BY <1>9 DEF Remove, Ready
  <2>2. CASE Found(t, k)
    <3>1. ret' = "true"
      <4>1. Chain(t, k) # <<>>
        BY <2>2, ChainNodes DEF Found
      <4> QED
        BY <1>9, <2>2, <4>1 DEF Remove
    <3>2. OnlyTable(t) /\ NodesOf(table'[t]) = {n \in NodesOf(table[t]) : n.key # k}
      BY <1>9, <2>2, RemoveInv, ChainNodes
    <3>3. Content(t)' = NodesOf(table'[t])
      BY <2>1, HashAssumption DEF Content
    <3>4. Dict' = [Dict EXCEPT ![t] = {n \in Dict[t] : n.key # k}]
      BY <2>1, <3>2, <3>3, OtherContent, ReadyContent DEF IInv
    <3>5. \E n \in Dict[t] : n.key = k
      BY <2>1, <2>2, FoundHas
    <3>6. D!Remove(t, k)
      BY <3>1, <3>4, <3>5 DEF Dict, D!Remove, D!Has, D!Others
    <3> QED
      BY <3>6 DEF D!Next
  <2>3. CASE ~Found(t, k)
    <3>1. UNCHANGED table /\ (UNCHANGED ret \/ ret' = "false")
      BY <1>9, <2>3 DEF Remove, Found
    <3>2. Dict' = Dict
      BY <2>1, <3>1, SameContent
    <3>3. ~\E n \in Dict[t] : n.key = k
      BY <2>1, <2>3, FoundHas
    <3>4. CASE UNCHANGED ret
      BY <3>2, <3>4 DEF Dict
    <3>5. CASE ret' = "false"
      <4>1. Dict = [s \in Tables |-> Dict[s]]
        BY DEF Dict
      <4>2. {n \in Dict[t] : n.key # k} = Dict[t]
        BY <3>3
      <4>3. Dict' = [Dict EXCEPT ![t] = {n \in Dict[t] : n.key # k}]
        BY <3>2, <4>1, <4>2
      <4>4. D!Remove(t, k)
        BY <3>3, <3>5, <4>3 DEF Dict, D!Remove, D!Has, D!Others
      <4> QED
        BY <4>4 DEF D!Next
    <3> QED
      BY <3>1, <3>4, <3>5
  <2> QED
    BY <2>2, <2>3
<1>10. ASSUME NEW t \in Tables, NEW k \in Keys, NEW v \in Values, Put(t, k, v) PROVE D!Next
  <2>1. Dict' = [Dict EXCEPT ![t] = {n \in Dict[t] : n.key # k} \cup {Node(k, v)}]
    BY <1>10, PutContent DEF Put
  <2>2. ret' = "none"
    BY <1>10 DEF Put
  <2>3. D!Put(t, k, v)
    BY <2>1, <2>2 DEF Dict, D!Put, D!Others, D!Node, Node
  <2> QED
    BY <2>3 DEF D!Next
<1>11. ASSUME NEW t \in Tables, NEW k \in Keys, NEW v \in Values, Index(t, k, v) PROVE D!Next
  <2>1. Ready /\ busy = NoTable /\ UNCHANGED <<busy, old>> /\ old = <<>>
    BY <1>11 DEF Index, Ready, IInv, Frames
  <2>2. CASE Found(t, k)
    <3>1. PutNode(t, k, v, <<>>) /\ BusyAfter(t)
      BY <1>11, <2>1, <2>2 DEF Index, PutNode, BusyAfter
    <3>2. Dict' = [Dict EXCEPT ![t] = {n \in Dict[t] : n.key # k} \cup {Node(k, v)}]
      BY <2>1, <3>1, PutContent
    <3>3. ret' = "none"
      BY <1>11, <2>2 DEF Index
    <3>4. \E n \in Dict[t] : n.key = k
      BY <2>1, <2>2, FoundHas
    <3>5. D!Index(t, k, v)
      BY <3>2, <3>3, <3>4 DEF Dict, D!Index, D!Put, D!Has, D!Others, D!Node, Node
    <3> QED
      BY <3>5 DEF D!Next
  <2>3. CASE ~Found(t, k)
    <3>1. UNCHANGED table /\ ret' = "thrown"
      BY <1>11, <2>3 DEF Index, Found
    <3>2. Dict' = Dict
      BY <2>1, <3>1, SameContent
    <3>3. ~\E n \in Dict[t] : n.key = k
      BY <2>1, <2>3, FoundHas
    <3>4. D!Index(t, k, v)
      BY <3>1, <3>2, <3>3 DEF Dict, D!Index, D!Has
    <3> QED
      BY <3>4 DEF D!Next
  <2> QED
    BY <2>2, <2>3
<1>12. CASE UNCHANGED vars
  <2>1. Dict' = Dict /\ ret' = ret
    BY <1>12, SameContent DEF vars
  <2> QED
    BY <2>1 DEF Dict
<1> QED
  BY <1>1, <1>2, <1>3, <1>4, <1>5, <1>6, <1>7, <1>8, <1>9, <1>10, <1>11, <1>12 DEF Next

\* The hash table is a dictionary, for all keys, hashes and load factors: a caller
\* sees no trace of the buckets, of a rehash, or of a rehash in a rehash.
THEOREM DictionaryImplemented == Spec => ImplementsDictionary
<1>1. Init => D!Init
  <2> SUFFICES ASSUME Init PROVE D!Init
    OBVIOUS
  <2>1. IInv /\ Ready
    BY InitInv DEF Init, Ready
  <2>2. TableSize \in Nat
    BY HashAssumption
  <2>3. ASSUME NEW t \in Tables PROVE Content(t) = {}
    <3>1. table[t] = Empty(TableSize)
      BY DEF Init
    <3> QED
      BY <2>1, <2>2, <3>1, ReadyContent, EmptyNodes
  <2> QED
    BY <2>3 DEF Init, D!Init
<1>2. IInv /\ IInv' /\ [Next]_vars => [D!Next]_(D!dVars)
  BY NextDictionary
<1> QED
  BY <1>1, <1>2, InvHolds, PTL DEF Spec, ImplementsDictionary, D!Spec
-----------------------------------------------------------------------------
(* ConfigReader.                                                             *)
\* Line i of r is the last one that sets k.
Sets(r, i, k) == r[i].text.kind = "setting" /\ r[i].text.key = k
IsLast(r, i, k) == i \in DOMAIN r /\ Sets(r, i, k) /\ \A j \in DOMAIN r : Sets(r, j, k) => j <= i

\* Lines are numbered from 1.
HasLasts(r, m) == DOMAIN r = 1..m /\ \A k \in KeysIn(r) : \E i \in 1..m : IsLast(r, i, k)

IsSettings(f) == f = [k \in DOMAIN f |-> f[k]]

\* The table f is what the lines r say, over what there was.
AsRead(f, kept, old_settings, r) ==
  f = [k \in kept \cup KeysIn(r) |-> IF k \in KeysIn(r) THEN LastOf(r, k) ELSE old_settings[k]]

LEMMA KeysInFacts ==
  ASSUME NEW r
  PROVE  \A k : k \in KeysIn(r) <=> \E i \in DOMAIN r : Sets(r, i, k)
BY DEF KeysIn, Sets

LEMMA LastOfFacts ==
  ASSUME NEW r, NEW m \in Nat, DOMAIN r = 1..m, NEW k, NEW i, IsLast(r, i, k)
  PROVE  LastOf(r, k) = r[i].text.value
<1> DEFINE P(x) == x \in DOMAIN r /\ Sets(r, x, k) /\ \A j \in DOMAIN r : Sets(r, j, k) => j <= x
           c == CHOOSE x \in DOMAIN r : Sets(r, x, k) /\ \A j \in DOMAIN r : Sets(r, j, k) => j <= x
<1>1. P(i)
  BY DEF IsLast
<1>2. P(c)
  BY <1>1
<1>3. c <= i /\ i <= c /\ c \in 1..m /\ i \in 1..m
  BY <1>1, <1>2
<1>4. c = i
  <2> HIDE DEF c
  <2> QED BY <1>3
<1>5. LastOf(r, k) = r[c].text.value
  BY DEF LastOf, Sets
<1> QED BY <1>4, <1>5

\* One line more.
LEMMA LineMore ==
  ASSUME NEW m \in Nat, NEW r, HasLasts(r, m), NEW r2, DOMAIN r2 = 1..(m + 1),
         \A j \in 1..m : r2[j] = r[j]
  PROVE  /\ HasLasts(r2, m + 1)
         /\ r2[m + 1].text.kind # "setting" =>
              KeysIn(r2) = KeysIn(r) /\ \A k \in KeysIn(r) : LastOf(r2, k) = LastOf(r, k)
         /\ r2[m + 1].text.kind = "setting" =>
              /\ KeysIn(r2) = KeysIn(r) \cup {r2[m + 1].text.key}
              /\ LastOf(r2, r2[m + 1].text.key) = r2[m + 1].text.value
              /\ \A k \in KeysIn(r) : k # r2[m + 1].text.key => LastOf(r2, k) = LastOf(r, k)
<1> DEFINE n == m + 1
<1>1. /\ DOMAIN r = 1..m /\ DOMAIN r2 = 1..n /\ n \in Nat /\ 1..n = (1..m) \cup {n}
      /\ n \notin 1..m /\ \A j \in 1..m : j <= n /\ n <= n
  BY DEF HasLasts
<1> HIDE DEF n
<1>2. \A k : \A j \in 1..m : Sets(r2, j, k) <=> Sets(r, j, k)
  BY DEF Sets, n
<1>3. \A k : k \in KeysIn(r2) <=> k \in KeysIn(r) \/ Sets(r2, n, k)
  BY <1>1, <1>2, KeysInFacts
<1>4. ASSUME NEW k, Sets(r2, n, k) PROVE IsLast(r2, n, k)
  BY <1>1, <1>4 DEF IsLast
<1>5. ASSUME NEW k, NEW i, IsLast(r, i, k), ~Sets(r2, n, k) PROVE IsLast(r2, i, k)
  BY <1>1, <1>2, <1>5 DEF IsLast
<1>6. ASSUME NEW k \in KeysIn(r), ~Sets(r2, n, k) PROVE LastOf(r2, k) = LastOf(r, k)
  <2>1. PICK i \in 1..m : IsLast(r, i, k)
    BY DEF HasLasts
  <2>2. LastOf(r, k) = r[i].text.value
    BY <1>1, <2>1, LastOfFacts
  <2>3. LastOf(r2, k) = r2[i].text.value
    BY <1>1, <1>5, <1>6, <2>1, LastOfFacts
  <2> QED BY <2>2, <2>3
<1>7. HasLasts(r2, n)
  <2> SUFFICES ASSUME NEW k \in KeysIn(r2) PROVE \E i \in 1..n : IsLast(r2, i, k)
    BY <1>1 DEF HasLasts
  <2>1. CASE Sets(r2, n, k)
    BY <2>1, <1>4, <1>1
  <2>2. CASE ~Sets(r2, n, k)
    <3>1. PICK i \in 1..m : IsLast(r, i, k)
      BY <2>2, <1>3 DEF HasLasts
    <3> QED BY <3>1, <2>2, <1>5, <1>1
  <2> QED BY <2>1, <2>2
<1>8. ASSUME r2[n].text.kind # "setting"
      PROVE  KeysIn(r2) = KeysIn(r) /\ \A k \in KeysIn(r) : LastOf(r2, k) = LastOf(r, k)
  <2>1. \A k : ~Sets(r2, n, k)
    BY <1>8 DEF Sets
  <2> QED BY <2>1, <1>3, <1>6
<1>9. ASSUME r2[n].text.kind = "setting"
      PROVE  /\ KeysIn(r2) = KeysIn(r) \cup {r2[n].text.key}
             /\ LastOf(r2, r2[n].text.key) = r2[n].text.value
             /\ \A k \in KeysIn(r) : k # r2[n].text.key => LastOf(r2, k) = LastOf(r, k)
  <2>1. \A k : Sets(r2, n, k) <=> k = r2[n].text.key
    BY <1>9 DEF Sets
  <2>2. LastOf(r2, r2[n].text.key) = r2[n].text.value
    BY <2>1, <1>4, <1>1, LastOfFacts
  <2> QED BY <2>1, <2>2, <1>3, <1>6
<1> QED BY <1>7, <1>8, <1>9 DEF n

\* A table that another line was put in.
LEMMA SettingMore ==
  ASSUME NEW m \in Nat, NEW r, HasLasts(r, m), NEW r2, DOMAIN r2 = 1..(m + 1),
         \A j \in 1..m : r2[j] = r[j], NEW f, NEW kept, NEW o, AsRead(f, kept, o, r)
  PROVE  /\ r2[m + 1].text.kind # "setting" => AsRead(f, kept, o, r2)
         /\ r2[m + 1].text.kind = "setting" =>
              AsRead(PutSetting(f, r2[m + 1].text.key, r2[m + 1].text.value), kept, o, r2)
<1>1. CASE r2[m + 1].text.kind # "setting"
  <2>1. KeysIn(r2) = KeysIn(r) /\ \A k \in KeysIn(r) : LastOf(r2, k) = LastOf(r, k)
    BY <1>1, LineMore
  <2> QED BY <2>1, <1>1 DEF AsRead
<1>2. CASE r2[m + 1].text.kind = "setting"
  <2> DEFINE x == r2[m + 1].text.key
             v == r2[m + 1].text.value
  <2>1. /\ KeysIn(r2) = KeysIn(r) \cup {x} /\ LastOf(r2, x) = v
        /\ \A k \in KeysIn(r) : k # x => LastOf(r2, k) = LastOf(r, k)
    BY <1>2, LineMore
  <2> HIDE DEF x, v
  <2>2. AsRead(PutSetting(f, x, v), kept, o, r2)
    BY <2>1 DEF AsRead, PutSetting
  <2> QED BY <1>2, <2>2 DEF x, v
<1> QED BY <1>1, <1>2
-----------------------------------------------------------------------------
Kept == IF call = "Load" /\ named THEN {} ELSE DOMAIN before

\* The lines that are not read yet are the last of those in the file.
Rest ==
  /\ content \in Seq(Lines) /\ ifs \in Seq(Lines) /\ Len(ifs) <= Len(content)
  /\ \A j \in 1..Len(ifs) : ifs[j] = content[Len(content) - Len(ifs) + j]

\* While a call runs, the table is what the lines read so far say.
ConfigInv ==
  /\ pc \in {"idle", "read", "failed"}
  /\ made \in BOOLEAN /\ (pc # "idle" => made) /\ (~made => config_table_m = NoSettings)
  /\ IsSettings(config_table_m)
  /\ pc # "idle" =>
       /\ Rest /\ HasLasts(Read, Len(content) - Len(ifs))
       /\ AsRead(config_table_m, Kept, before, Read)

LEMMA SubSeqFacts ==
  \A c \in Seq(Lines), m \in Nat : m <= Len(c) =>
    DOMAIN SubSeq(c, 1, m) = 1..m /\ \A j \in 1..m : SubSeq(c, 1, m)[j] = c[j]
OBVIOUS

\* A line is read: what is read has that line more.
LEMMA NextLine ==
  ASSUME Rest, ifs # <<>>, ifs' = Tail(ifs), content' = content
  PROVE  /\ Rest' /\ Len(content') - Len(ifs') = (Len(content) - Len(ifs)) + 1
         /\ DOMAIN Read' = 1..((Len(content) - Len(ifs)) + 1)
         /\ \A j \in 1..(Len(content) - Len(ifs)) : Read'[j] = Read[j]
         /\ Read'[(Len(content) - Len(ifs)) + 1] = Head(ifs)
<1>1. PICK n \in Nat, l \in Nat, s \in Seq(Lines), t \in Seq(Lines) :
        n = Len(content) /\ l = Len(ifs) /\ s = ifs /\ t = Tail(ifs)
  <2>1. content \in Seq(Lines) /\ ifs \in Seq(Lines)
    BY DEF Rest
  <2>2. Len(content) \in Nat /\ Len(ifs) \in Nat
    BY <2>1
  <2>3. Tail(ifs) \in Seq(Lines)
    BY <2>1
  <2> QED BY <2>1, <2>2, <2>3
<1>2. /\ l >= 1 /\ l <= n /\ Len(t) = l - 1 /\ Head(ifs) = s[1]
      /\ \A j \in 1..(l - 1) : t[j] = s[j + 1]
  BY <1>1 DEF Rest
<1>3. \A j \in 1..l : s[j] = content[n - l + j]
  BY <1>1 DEF Rest
<1>4. \A j \in 1..(l - 1) : t[j] = content[n - (l - 1) + j]
  <2> TAKE j \in 1..(l - 1)
  <2>1. t[j] = s[j + 1] /\ s[j + 1] = content[n - l + (j + 1)]
    BY <1>2, <1>3
  <2>2. n - l + (j + 1) = n - (l - 1) + j
    OBVIOUS
  <2> QED BY <2>1, <2>2
<1>5. Rest'
  <2>1. content' \in Seq(Lines) /\ ifs' \in Seq(Lines) /\ Len(ifs') = l - 1 /\ Len(content') = n
    BY <1>1, <1>2 DEF Rest
  <2>2. l - 1 <= n
    BY <1>2
  <2>3. \A j \in 1..(l - 1) : ifs'[j] = content'[n - (l - 1) + j]
    BY <1>1, <1>4
  <2> QED BY <2>1, <2>2, <2>3 DEF Rest
<1>6. PICK m \in Nat : m = n - l /\ n - (l - 1) = m + 1
  BY <1>2
<1>7. Len(content') = n /\ Len(ifs') = l - 1 /\ content' \in Seq(Lines)
  BY <1>1, <1>2 DEF Rest
<1>8. Read = SubSeq(content, 1, m) /\ Read' = SubSeq(content, 1, m + 1)
  BY <1>1, <1>6, <1>7 DEF Read
<1>9. /\ \A j \in 1..m : Read[j] = content[j]
      /\ DOMAIN Read' = 1..(m + 1)
      /\ \A j \in 1..(m + 1) : Read'[j] = content[j]
  <2>1. m <= Len(content) /\ m + 1 <= Len(content) /\ m + 1 \in Nat
    BY <1>1, <1>2, <1>6
  <2> QED BY <2>1, <1>8, SubSeqFacts DEF Rest
<1>10. content[m + 1] = s[1]
  <2>1. 1 \in 1..l /\ n - l + 1 = m + 1
    BY <1>2, <1>6
  <2> QED BY <2>1, <1>3
<1>11. m + 1 \in 1..(m + 1) /\ \A j \in 1..m : j \in 1..(m + 1)
  OBVIOUS
<1>12. Len(content) - Len(ifs) = m /\ Len(content') - Len(ifs') = m + 1
  BY <1>1, <1>6, <1>7
<1> QED BY <1>2, <1>5, <1>8, <1>9, <1>10, <1>11, <1>12

LEMMA ConfigInitInv == ConfigInit => ConfigInv
<1> SUFFICES ASSUME ConfigInit PROVE ConfigInv
  OBVIOUS
<1>1. config_table_m = NoSettings /\ pc = "idle" /\ made = FALSE
  BY DEF ConfigInit
<1> QED BY <1>1 DEF ConfigInv, IsSettings, NoSettings

\* A line is read and the call goes on.
LEMMA LineInv ==
  ASSUME ConfigInv, pc = "read", BlankLine \/ SettingLine
  PROVE  ConfigInv'
<1>1. /\ Rest /\ HasLasts(Read, Len(content) - Len(ifs)) /\ made
      /\ AsRead(config_table_m, Kept, before, Read)
  BY DEF ConfigInv
<1>2. /\ ifs # <<>> /\ ifs' = Tail(ifs) /\ content' = content
      /\ made' = made /\ call' = call /\ before' = before /\ named' = named
      /\ pc' \in {"read", "failed"}
  BY DEF BlankLine, SettingLine, object
<1>3. PICK m \in Nat : m = Len(content) - Len(ifs)
  <2>1. Len(content) \in Nat /\ Len(ifs) \in Nat /\ Len(ifs) <= Len(content)
    BY <1>1 DEF Rest
  <2> QED BY <2>1
<1>4. PICK r, r2 : r = Read /\ r2 = Read'
  OBVIOUS
<1>5. /\ Rest' /\ Len(content') - Len(ifs') = m + 1
      /\ DOMAIN r2 = 1..(m + 1) /\ (\A j \in 1..m : r2[j] = r[j]) /\ r2[m + 1] = Head(ifs)
  BY <1>1, <1>2, <1>3, <1>4, NextLine
<1>6. HasLasts(r, m)
  BY <1>1, <1>3, <1>4
<1>7. HasLasts(r2, m + 1)
  BY <1>5, <1>6, LineMore
<1>8. Kept' = Kept
  BY <1>2 DEF Kept
<1>9. AsRead(config_table_m', Kept, before, r2)
  <2>1. /\ r2[m + 1].text.kind # "setting" => AsRead(config_table_m, Kept, before, r2)
        /\ r2[m + 1].text.kind = "setting" =>
             AsRead(PutSetting(config_table_m, r2[m + 1].text.key, r2[m + 1].text.value), Kept, before, r2)
    BY <1>1, <1>4, <1>5, <1>6, SettingMore
  <2>2. CASE BlankLine
    <3>1. r2[m + 1].text.kind # "setting" /\ config_table_m' = config_table_m
      BY <2>2, <1>5 DEF BlankLine, object
    <3> QED BY <3>1, <2>1
  <2>3. CASE SettingLine
    <3>1. /\ r2[m + 1].text.kind = "setting"
          /\ config_table_m' = PutSetting(config_table_m, r2[m + 1].text.key, r2[m + 1].text.value)
      BY <2>3, <1>5 DEF SettingLine
    <3> QED BY <3>1, <2>1
  <2> QED BY <2>2, <2>3
<1>10. IsSettings(config_table_m')
  BY <1>9 DEF AsRead, IsSettings
<1>11. HasLasts(Read', Len(content') - Len(ifs')) /\ AsRead(config_table_m', Kept', before', Read')
  BY <1>2, <1>4, <1>5, <1>7, <1>8, <1>9
<1> QED BY <1>1, <1>2, <1>5, <1>10, <1>11 DEF ConfigInv

\* A file is opened: nothing of it is read yet.
LEMMA OpensInv ==
  ASSUME ConfigInv, pc = "idle", NEW function, NEW f, Opens(function, f),
         IsSettings(config_table_m'), ~made' => config_table_m' = NoSettings,
         config_table_m' = IF function = "Load" /\ config_file_m # EmptyString THEN NoSettings ELSE config_table_m
  PROVE  ConfigInv'
<1>1. CASE NotReading /\ made' = (made /\ function # "ConfigReader")
  BY <1>1 DEF ConfigInv, NotReading
<1>2. ASSUME NEW c \in Contents,
             f # EmptyString, pc' = "read", ifs' = c, content' = c, call' = function,
             before' = config_table_m, named' = (config_file_m # EmptyString), made' = TRUE
      PROVE  ConfigInv'
  <2>1. PICK n \in Nat : c \in Seq(Lines) /\ Len(c) = n
    <3>1. PICK n \in 0..MaxLines : c \in [1..n -> Lines]
      BY DEF Contents
    <3> QED BY <3>1, ConfigAssumption
  <2>2. Len(content') = n /\ Len(ifs') = n /\ n - n = 0 /\ n <= n
    BY <2>1, <1>2
  <2>3. Rest'
    <3>1. \A j \in 1..n : ifs'[j] = content'[n - n + j]
      <4> TAKE j \in 1..n
      <4>1. n - n + j = j
        OBVIOUS
      <4> QED BY <4>1, <1>2
    <3>2. content' \in Seq(Lines) /\ ifs' \in Seq(Lines)
      BY <1>2, <2>1
    <3> QED BY <3>1, <3>2, <2>2 DEF Rest
  <2>4. PICK r : r = Read' /\ DOMAIN r = 1..0
    <3>1. Read' = SubSeq(c, 1, 0)
      BY <2>2, <1>2 DEF Read
    <3>2. 0 \in Nat /\ 0 <= Len(c)
      BY <2>1
    <3>3. DOMAIN SubSeq(c, 1, 0) = 1..0
      BY <3>2, <2>1, SubSeqFacts
    <3> QED BY <3>1, <3>3
  <2>5. KeysIn(r) = {}
    <3>1. \A i : i \notin DOMAIN r
      BY <2>4
    <3> QED BY <3>1 DEF KeysIn
  <2>6. HasLasts(r, 0)
    BY <2>4, <2>5 DEF HasLasts
  <2>7. Kept' = IF function = "Load" /\ config_file_m # EmptyString THEN {} ELSE DOMAIN config_table_m
    BY <1>2 DEF Kept
  <2>8. IsSettings(config_table_m)
    BY DEF ConfigInv
  <2>9. AsRead(config_table_m', Kept', config_table_m, r)
    <3>1. CASE function = "Load" /\ config_file_m # EmptyString
      BY <3>1, <2>5, <2>7 DEF AsRead, NoSettings
    <3>2. CASE ~(function = "Load" /\ config_file_m # EmptyString)
      BY <3>2, <2>5, <2>7, <2>8 DEF AsRead, IsSettings
    <3> QED BY <3>1, <3>2
  <2>10. HasLasts(Read', Len(content') - Len(ifs')) /\ AsRead(config_table_m', Kept', before', Read')
    BY <1>2, <2>2, <2>4, <2>6, <2>9
  <2> QED BY <1>2, <2>3, <2>10 DEF ConfigInv
<1> QED BY <1>1, <1>2 DEF Opens

LEMMA ConfigStep == ConfigInv /\ [ConfigNext]_configVars => ConfigInv'
<1> SUFFICES ASSUME ConfigInv, [ConfigNext]_configVars PROVE ConfigInv'
  OBVIOUS
<1>e. IsSettings(NoSettings)
  BY DEF NoSettings, IsSettings
<1>1. CASE ConstructUnnamed
  <2>1. ~made /\ pc = "idle"
    BY <1>1 DEF ConstructUnnamed, ConfigInv
  <2> QED BY <2>1, <1>1, <1>e DEF ConstructUnnamed, ConfigInv, reading
<1>2. CASE Destroy
  BY <1>2, <1>e DEF Destroy, ConfigInv, reading
<1>3. CASE Reload
  <2>1. /\ pc = "idle" /\ made /\ Opens("Reload", config_file_m) /\ config_table_m' = config_table_m
        /\ made'
    BY <1>3 DEF Reload, Opens
  <2> QED BY <2>1, OpensInv DEF ConfigInv
<1>4. ASSUME NEW f, ConstructFrom(f) PROVE ConfigInv'
  <2>1. /\ ~made /\ pc = "idle" /\ config_table_m = NoSettings /\ config_table_m' = NoSettings
        /\ Opens("ConfigReader", f)
    BY <1>4 DEF ConstructFrom, ConfigInv
  <2> QED BY <2>1, <1>e, OpensInv
<1>5. ASSUME NEW f, Load(f) PROVE ConfigInv'
  <2>1. /\ pc = "idle" /\ made /\ Opens("Load", f) /\ made'
        /\ config_table_m' = IF config_file_m # EmptyString THEN NoSettings ELSE config_table_m
    BY <1>5 DEF Load, Opens
  <2>2. IsSettings(config_table_m')
    BY <2>1, <1>e DEF ConfigInv
  <2> QED BY <2>1, <2>2, OpensInv
<1>6. CASE BlankLine
  <2>1. pc = "read"
    BY <1>6 DEF BlankLine
  <2> QED BY <2>1, <1>6, LineInv
<1>7. CASE SettingLine
  <2>1. pc = "read"
    BY <1>7 DEF SettingLine
  <2> QED BY <2>1, <1>7, LineInv
<1>8. CASE MixedLine
  BY <1>8, <1>e DEF MixedLine, ConfigInv, NotReading, object
<1>9. CASE Close
  BY <1>9 DEF Close, ConfigInv, NotReading, object
<1>10. ASSUME NEW k \in SettingKeys, NEW v \in SettingValues, Add(k, v) PROVE ConfigInv'
  <2>1. IsSettings(config_table_m')
    BY <1>10 DEF Add, PutSetting, IsSettings
  <2> QED BY <1>10, <2>1 DEF Add, ConfigInv, reading
<1>11. CASE UNCHANGED configVars
  BY <1>11 DEF configVars, object, reading, ConfigInv, Rest, Kept, Read
<1>12. CASE ReadNothing
  BY <1>11, <1>12 DEF ReadNothing
<1> QED BY <1>1, <1>2, <1>3, <1>4, <1>5, <1>6, <1>7, <1>8, <1>9, <1>10, <1>11, <1>12
    DEF ConfigNext, ReadLine

\* The invariant of a call that reads a file.
THEOREM ConfigInvHolds == ConfigSpec => []ConfigInv
BY ConfigInitInv, ConfigStep, PTL DEF ConfigSpec

\* When Load or Reload ends, also with an exception at some line, the table is what the
\* lines it read say, the last for each key, over what was to be kept, however long the
\* file is and whoever writes it.
THEOREM EndsAsReadHolds == ConfigSpec => EndsAsRead
<1> DEFINE A == pc = "read" /\ pc' = "idle" /\ made' =>
                  LET kept == IF call = "Load" /\ named THEN {} ELSE DOMAIN before
                  IN config_table_m' = [k \in kept \cup KeysIn(Read) |->
                       IF k \in KeysIn(Read) THEN LastOf(Read, k) ELSE before[k]]
<1>1. ConfigInv /\ [ConfigNext]_configVars => [A]_configVars
  <2> SUFFICES ASSUME ConfigInv, ConfigNext, pc = "read", pc' = "idle", made' PROVE A
    OBVIOUS
  <2>1. made /\ AsRead(config_table_m, Kept, before, Read)
    BY DEF ConfigInv
  <2>2. config_table_m' = config_table_m
    <3>1. MixedLine \/ Close
      BY <2>1 DEF ConfigNext, ConstructUnnamed, Destroy, Reload, ReadLine, ReadNothing, ConstructFrom,
                  Load, Add, BlankLine, SettingLine, configVars, reading
    <3> QED BY <3>1 DEF MixedLine, Close, object
  <2> QED BY <2>1, <2>2 DEF AsRead, Kept
<1>2. EndsAsRead <=> [][A]_configVars
  BY DEF EndsAsRead
<1> HIDE DEF A
<1> QED BY <1>1, <1>2, ConfigInvHolds, PTL DEF ConfigSpec
=============================================================================
