----------------------------- MODULE HashTable -----------------------------
(***************************************************************************)
(* The chained hash table of src/src/HashTable.tpl.  One operation runs at *)
(* a time, but an operation is many steps when it moves nodes: Rehash and   *)
(* operator= put the nodes of another table one by one, and a put made by   *)
(* Rehash may find the new table too full as well and rehash again, inside  *)
(* the loop of the first.                                                  *)
(***************************************************************************)
EXTENDS Integers, Sequences, FiniteSets

CONSTANTS
  Tables,       \* the HashTable objects
  Keys,         \* the keys that are not empty
  Values,
  Hash,         \* the hash of each key, before it is reduced to a bucket
  TableSize,    \* table_size_ given to the constructor
  LoadNum, LoadDen,   \* load_factor_ = LoadNum / LoadDen
  NoTable

ASSUME HashAssumption ==
  /\ Hash \in [Keys -> Nat]
  /\ TableSize \in Nat \ {0}
  /\ LoadNum \in Nat \ {0} /\ LoadDen \in Nat \ {0}
  /\ NoTable \notin Tables

VARIABLES
  table_size, key_number, rehash_size,
  table,        \* each table: a chain of nodes for each bucket
  busy,         \* the table whose Put or operator= is running, or NoTable
  old,          \* the old_table's its Rehash calls, innermost first, have left
                \* to move; or what operator= has left to copy
  ret,          \* what the last operation returned
  crashed       \* the process died of a null pointer

vars == <<table_size, key_number, rehash_size, table, busy, old, ret, crashed>>
counters == <<table_size, key_number, rehash_size>>

Node(k, v) == [key |-> k, value |-> v]
Nodes == [key : Keys, value : Values]

Bucket(k, n) == Hash[k] % n
Limit(n) == (n * LoadNum) \div LoadDen
Empty(n) == [b \in 0..(n - 1) |-> <<>>]

\* The nodes in the chains of f.
NodesOf(f) == UNION {{f[b][i] : i \in 1..Len(f[b])} : b \in DOMAIN f}
KeysOf(f) == {n.key : n \in NodesOf(f)}

\* f is an array of chains, as an old_table is: its buckets count from 0.
IsTable(f) ==
  /\ \A b \in DOMAIN f : b \in Nat /\ \A c \in 0..b : c \in DOMAIN f
  /\ \A b \in DOMAIN f : f[b] \in Seq(Nodes)

TypeOK ==
  /\ table_size \in [Tables -> Nat] /\ \A t \in Tables : table_size[t] > 0
  /\ key_number \in [Tables -> Nat]
  /\ rehash_size \in [Tables -> Nat]
  /\ DOMAIN table = Tables
  /\ \A t \in Tables : table[t] \in [0..(table_size[t] - 1) -> Seq(Nodes)]
  /\ busy \in Tables \cup {NoTable}
  /\ busy = NoTable <=> old = <<>>
  /\ \A j \in 1..Len(old) : IsTable(old[j])
  /\ ret \in Values \cup {"none", "true", "false", "thrown"}
  /\ crashed \in BOOLEAN

Init ==
  /\ table_size = [t \in Tables |-> TableSize]
  /\ key_number = [t \in Tables |-> 0]
  /\ rehash_size = [t \in Tables |-> Limit(TableSize)]
  /\ table = [t \in Tables |-> Empty(TableSize)]
  /\ busy = NoTable /\ old = <<>>
  /\ ret = "none" /\ crashed = FALSE
-----------------------------------------------------------------------------
Ready == busy = NoTable /\ ~crashed

Chain(t, k) == table[t][Bucket(k, table_size[t])]
At(t, k, i) == i \in 1..Len(Chain(t, k)) /\ Chain(t, k)[i].key = k
Found(t, k) == \E i \in 1..Len(Chain(t, k)) : At(t, k, i)

\* table[hash_key][i].value = v
Overwrite(t, k, i, v) ==
  table' = [table EXCEPT ![t][Bucket(k, table_size[t])][i].value = v]

Appended(t, k, v) ==
  [table[t] EXCEPT ![Bucket(k, table_size[t])] = Append(@, Node(k, v))]

BugRehashLimit(t, full, rest) ==
  /\ table_size' = [table_size EXCEPT ![t] = 2 * @]
  /\ key_number' = [key_number EXCEPT ![t] = 0]
  /\ rehash_size' = [rehash_size EXCEPT ![t] = Limit(table_size[t]) + 1]
  /\ table' = [table EXCEPT ![t] = Empty(2 * table_size[t])]
  /\ old' = <<full>> \o rest

\* Rehash: a table of twice the size, empty; what filled the old one is to be
\* put into it before the puts that wait in rest.
Rehash(t, full, rest) ==
  /\ table_size' = [table_size EXCEPT ![t] = 2 * @]
  /\ key_number' = [key_number EXCEPT ![t] = 0]
  /\ rehash_size' = [rehash_size EXCEPT ![t] = Limit(2 * table_size[t])]
  /\ table' = [table EXCEPT ![t] = Empty(2 * table_size[t])]
  /\ old' = <<full>> \o rest

\* The body of Put; rest is what the Rehash or operator= that calls it has left.
PutNode(t, k, v, rest) ==
  \/ \E i \in 1..Len(Chain(t, k)) :
       /\ At(t, k, i) /\ Overwrite(t, k, i, v)
       /\ old' = rest
       /\ UNCHANGED counters
  \/ /\ ~Found(t, k)
     /\ key_number[t] + 1 <= rehash_size[t]
     /\ table' = [table EXCEPT ![t] = Appended(t, k, v)]
     /\ key_number' = [key_number EXCEPT ![t] = @ + 1]
     /\ old' = rest
     /\ UNCHANGED <<table_size, rehash_size>>
  \/ /\ ~Found(t, k)
     /\ key_number[t] + 1 > rehash_size[t]
     /\ Rehash(t, Appended(t, k, v), rest)

BusyAfter(t) == busy' = IF old' = <<>> THEN NoTable ELSE t

Put(t, k, v) ==
  /\ Ready
  /\ PutNode(t, k, v, <<>>)
  /\ BusyAfter(t)
  /\ ret' = "none"
  /\ UNCHANGED crashed

\* The node that was moved stays where it was.
BugMove ==
  /\ busy # NoTable
  /\ \E b \in DOMAIN old[1] :
       /\ old[1][b] # <<>>
       /\ LET n == Head(old[1][b]) IN PutNode(busy, n.key, n.value, old)
  /\ UNCHANGED <<busy, ret, crashed>>

\* The loop of Rehash and of operator=: the first node of the first chain that
\* has one is put into the table and taken from the old one.
Move ==
  /\ busy # NoTable
  /\ \E b \in DOMAIN old[1] :
       /\ old[1][b] # <<>>
       /\ \A c \in DOMAIN old[1] : c < b => old[1][c] = <<>>
       /\ LET n == Head(old[1][b])
              left == [old[1] EXCEPT ![b] = Tail(@)]
          IN PutNode(busy, n.key, n.value, <<left>> \o Tail(old))
  /\ UNCHANGED <<busy, ret, crashed>>

\* delete [] old_table, and back to the Put that called Rehash.
Moved ==
  /\ busy # NoTable
  /\ \A b \in DOMAIN old[1] : old[1][b] = <<>>
  /\ old' = Tail(old)
  /\ BusyAfter(busy)
  /\ UNCHANGED <<counters, table, ret, crashed>>

Get(t, k) ==
  /\ Ready
  /\ \/ \E i \in 1..Len(Chain(t, k)) : At(t, k, i) /\ ret' = Chain(t, k)[i].value
     \/ ~Found(t, k) /\ ret' = "false"
  /\ UNCHANGED <<counters, table, busy, old, crashed>>

Contains(t, k) ==
  /\ Ready
  /\ ret' = IF Found(t, k) THEN "true" ELSE "false"
  /\ UNCHANGED <<counters, table, busy, old, crashed>>

\* operator[] returns a reference, and the caller assigns v through it.
Index(t, k, v) ==
  /\ Ready
  /\ \/ /\ \E i \in 1..Len(Chain(t, k)) : At(t, k, i) /\ Overwrite(t, k, i, v)
        /\ ret' = "none"
     \/ ~Found(t, k) /\ ret' = "thrown" /\ UNCHANGED table
  /\ UNCHANGED <<counters, busy, old, crashed>>

BugUnlinked(s, i) == SubSeq(s, 1, i - 1)

\* The chain without its i-th node.
Unlinked(s, i) == SubSeq(s, 1, i - 1) \o SubSeq(s, i + 1, Len(s))

\* node->key is read before node is known not to be null.
Remove(t, k) ==
  /\ Ready
  /\ \/ /\ Chain(t, k) = <<>>
        /\ crashed' = TRUE
        /\ UNCHANGED <<key_number, table, ret>>
     \/ /\ \E i \in 1..Len(Chain(t, k)) :
             /\ At(t, k, i)
             /\ table' = [table EXCEPT
                            ![t][Bucket(k, table_size[t])] = Unlinked(@, i)]
        /\ key_number' = [key_number EXCEPT ![t] = @ - 1]
        /\ ret' = "true"
        /\ UNCHANGED crashed
     \/ /\ Chain(t, k) # <<>> /\ ~Found(t, k)
        /\ ret' = "false"
        /\ UNCHANGED <<key_number, table, crashed>>
  /\ UNCHANGED <<table_size, rehash_size, busy, old>>

\* The number of buckets stays.
Clear(t) ==
  /\ Ready
  /\ table' = [table EXCEPT ![t] = Empty(table_size[t])]
  /\ key_number' = [key_number EXCEPT ![t] = 0]
  /\ ret' = "none"
  /\ UNCHANGED <<table_size, rehash_size, busy, old, crashed>>

\* An object is destroyed, and another one is constructed in its place.
Construct(t) ==
  /\ Ready
  /\ table_size' = [table_size EXCEPT ![t] = TableSize]
  /\ key_number' = [key_number EXCEPT ![t] = 0]
  /\ rehash_size' = [rehash_size EXCEPT ![t] = Limit(TableSize)]
  /\ table' = [table EXCEPT ![t] = Empty(TableSize)]
  /\ ret' = "none"
  /\ UNCHANGED <<busy, old, crashed>>

\* t = s, and the copy constructor: t becomes an empty table of the shape of s,
\* and the nodes s then has are put into it: none of them if s is t.
Assign(t, s) ==
  /\ Ready
  /\ table_size' = [table_size EXCEPT ![t] = table_size[s]]
  /\ key_number' = [key_number EXCEPT ![t] = 0]
  /\ rehash_size' = [rehash_size EXCEPT ![t] = rehash_size[s]]
  /\ table' = [table EXCEPT ![t] = Empty(table_size[s])]
  /\ old' = <<table'[s]>>
  /\ busy' = t
  /\ ret' = "none"
  /\ UNCHANGED crashed

\* Every operation on a key throws if it is empty.
EmptyKey ==
  /\ Ready
  /\ ret' = "thrown"
  /\ UNCHANGED <<counters, table, busy, old, crashed>>
-----------------------------------------------------------------------------
Next ==
  \/ Move \/ Moved \/ EmptyKey
  \/ \E t \in Tables : Clear(t) \/ Construct(t) \/ \E s \in Tables : Assign(t, s)
  \/ \E t \in Tables, k \in Keys :
       \/ Get(t, k) \/ Contains(t, k) \/ Remove(t, k)
       \/ \E v \in Values : Put(t, k, v) \/ Index(t, k, v)

Spec == Init /\ [][Next]_vars

\* A running operation goes on.
FairSpec == Spec /\ WF_vars(Move \/ Moved)
-----------------------------------------------------------------------------
\* Every node is in the bucket its key hashes to, and no other node of the table,
\* or of a table being moved into it, has its key: so Get, Put and Remove, which
\* search one chain up to the first match, find what there is to find.
Placed ==
  /\ \A t \in Tables : \A b \in DOMAIN table[t] : \A i \in 1..Len(table[t][b]) :
       Bucket(table[t][b][i].key, table_size[t]) = b
  /\ \A t \in Tables : \A b \in DOMAIN table[t] : \A i, j \in 1..Len(table[t][b]) :
       i # j => table[t][b][i].key # table[t][b][j].key
  /\ busy # NoTable => \A j \in 1..Len(old) : KeysOf(table[busy]) \cap KeysOf(old[j]) = {}

\* key_number counts the nodes, through nested rehashes and removals.
CountsNodes == \A t \in Tables : key_number[t] = Cardinality(KeysOf(table[t]))

\* The table never holds more nodes than its load factor allows.
LoadBounded ==
  \A t \in Tables : /\ key_number[t] <= rehash_size[t]
                    /\ rehash_size[t] = Limit(table_size[t])

\* A rehash that starts inside a rehash or an assignment leaves the outer loop
\* nothing to move: only a table whose limit is 0 rehashes again, and that has
\* one node; and no assignment rehashes, as the left side has the limit of the
\* right.  So the recursion never holds more than one table with nodes in it.
NestedIsLast == \A j \in 2..Len(old) : NodesOf(old[j]) = {}

\* However small the load factor, the rehashing that one Put starts comes to an
\* end, and so does every copy.
OperationsReturn == (busy # NoTable) ~> (busy = NoTable)

(***************************************************************************)
(* The hash table implements a dictionary: a rehash moves nodes and changes *)
(* nothing that a caller can see.                                          *)
(***************************************************************************)
Content(t) ==
  NodesOf(table[t]) \cup
  (IF busy = t THEN UNION {NodesOf(old[j]) : j \in 1..Len(old)} ELSE {})

D == INSTANCE Dictionary WITH dict <- [t \in Tables |-> Content(t)]

ImplementsDictionary == D!Spec
=============================================================================
