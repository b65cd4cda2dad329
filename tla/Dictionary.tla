---------------------------- MODULE Dictionary ----------------------------
(***************************************************************************)
(* What include/HashTable.h promises of a HashTable: a set of nodes with at *)
(* most one for each key.  There are no buckets here, no chains and no     *)
(* rehashing.                                                              *)
(***************************************************************************)
CONSTANTS Tables, Keys, Values

VARIABLES dict,     \* the nodes of each table
          ret       \* what the last operation returned

dVars == <<dict, ret>>

Node(k, v) == [key |-> k, value |-> v]
Has(t, k) == \E n \in dict[t] : n.key = k
Others(t, k) == {n \in dict[t] : n.key # k}

Init == dict = [t \in Tables |-> {}] /\ ret = "none"

Put(t, k, v) == /\ ret' = "none"
                /\ dict' = [dict EXCEPT ![t] = Others(t, k) \cup {Node(k, v)}]

Get(t, k) == /\ \/ \E n \in dict[t] : n.key = k /\ ret' = n.value
                \/ ~Has(t, k) /\ ret' = "false"
             /\ UNCHANGED dict

Contains(t, k) == /\ ret' = IF Has(t, k) THEN "true" ELSE "false"
                  /\ UNCHANGED dict

\* table[k] = v
Index(t, k, v) == \/ Put(t, k, v) /\ Has(t, k)
                  \/ ret' = "thrown" /\ ~Has(t, k) /\ UNCHANGED dict

Remove(t, k) == /\ ret' = IF Has(t, k) THEN "true" ELSE "false"
                /\ dict' = [dict EXCEPT ![t] = Others(t, k)]

Clear(t) == ret' = "none" /\ dict' = [dict EXCEPT ![t] = {}]

\* The left side is emptied first, and it may be the right side too.
Assign(t, s) == /\ ret' = "none"
                /\ dict' = [dict EXCEPT ![t] = IF s = t THEN {} ELSE dict[s]]

EmptyKey == ret' = "thrown" /\ UNCHANGED dict

Next ==
  \/ EmptyKey
  \/ \E t \in Tables : Clear(t) \/ \E s \in Tables : Assign(t, s)
  \/ \E t \in Tables, k \in Keys :
       \/ Get(t, k) \/ Contains(t, k) \/ Remove(t, k)
       \/ \E v \in Values : Put(t, k, v) \/ Index(t, k, v)

Spec == Init /\ [][Next]_dVars
===========================================================================
