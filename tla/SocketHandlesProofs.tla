----------------------- MODULE SocketHandlesProofs -----------------------
(***************************************************************************)
(* Proofs about SocketHandles, for any numbers of objects, counters and    *)
(* descriptors.                                                            *)
(***************************************************************************)
EXTENDS SocketHandles, FiniteSetTheorems, TLAPS

\* Objects that share a counter have the same descriptor.
Agree == \A o, p \in Live : ref_counter[o] = ref_counter[p] => sock_fd[o] = sock_fd[p]

\* No socket is open under two descriptors.
OneFd == \A f, g \in Fds : table[f] \in Ctrs /\ table[f] = table[g] => f = g

Inv == TypeOK /\ CountIsReferences /\ Agree /\ NoLeak /\ OwnDescriptor /\ OneFd

\* A set of objects is finite.
LEMMA ReferrersFinite ==
  \A c : IsFiniteSet(Referrers(c)) /\ IsFiniteSet(Referrers(c))'
<1> TAKE c
<1>1. IsFiniteSet(Objs) /\ Referrers(c) \in SUBSET Objs /\ Referrers(c)' \in SUBSET Objs
  BY SocketAssumption DEF SocketAssumption, Referrers
<1> QED BY <1>1, FS_Subset, Zenon

\* An object that comes to point to c counts one more, one that no longer does
\* counts one less.
LEMMA CountChange ==
  ASSUME TypeOK, NEW o \in Objs, NEW v, NEW c,
         ref_counter' = [ref_counter EXCEPT ![o] = v]
  PROVE  /\ Cardinality(Referrers(c)) \in Nat
         /\ ref_counter[o] # c /\ v = c =>
              Cardinality(Referrers(c)') = Cardinality(Referrers(c)) + 1
         /\ ref_counter[o] = c /\ v # c =>
              Cardinality(Referrers(c)') = Cardinality(Referrers(c)) - 1
         /\ (ref_counter[o] = c <=> v = c) => Referrers(c)' = Referrers(c)
<1>1. IsFiniteSet(Referrers(c))
  BY ReferrersFinite
<1>2. ref_counter'[o] = v /\ \A p \in Objs : p # o => ref_counter'[p] = ref_counter[p]
  BY DEF TypeOK
<1>3. ASSUME ref_counter[o] # c, v = c
      PROVE  Cardinality(Referrers(c)') = Cardinality(Referrers(c)) + 1
  <2>1. Referrers(c)' = Referrers(c) \cup {o} /\ o \notin Referrers(c)
    BY <1>2, <1>3 DEF Referrers
  <2> QED BY <2>1, <1>1, FS_AddElement
<1>4. ASSUME ref_counter[o] = c, v # c
      PROVE  Cardinality(Referrers(c)') = Cardinality(Referrers(c)) - 1
  <2>1. Referrers(c)' = Referrers(c) \ {o} /\ o \in Referrers(c)
    BY <1>2, <1>4 DEF Referrers
  <2> QED BY <2>1, <1>1, FS_RemoveElement
<1>5. (ref_counter[o] = c <=> v = c) => Referrers(c)' = Referrers(c)
  BY <1>2 DEF Referrers
<1> QED BY <1>1, <1>3, <1>4, <1>5, FS_CardinalityType

\* A counter stands at one exactly when one object is left, at zero when none is.
LEMMA CountMeans ==
  ASSUME TypeOK, CountIsReferences, NEW c \in Ctrs
  PROVE  /\ count[c] = 0 <=> \A p \in Objs : ref_counter[p] # c
         /\ \A o \in Objs : ref_counter[o] = c =>
              /\ count[c] > 0
              /\ count[c] = 1 <=> \A p \in Objs : ref_counter[p] = c => p = o
<1>1. /\ count[c] = Cardinality(Referrers(c)) /\ IsFiniteSet(Referrers(c))
      /\ Cardinality(Referrers(c)) \in Nat
  BY ReferrersFinite, FS_CardinalityType DEF CountIsReferences
<1>2. count[c] = 0 <=> Referrers(c) = {}
  BY <1>1, FS_EmptySet
<1>3. ASSUME NEW o \in Objs, ref_counter[o] = c
      PROVE  count[c] = 1 <=> Referrers(c) = {o}
  <2>1. o \in Referrers(c)
    BY <1>3 DEF Referrers
  <2>2. IsFiniteSet(Referrers(c) \ {o}) /\ Cardinality(Referrers(c) \ {o}) = count[c] - 1
    BY <2>1, <1>1, FS_RemoveElement
  <2>3. Cardinality(Referrers(c) \ {o}) = 0 <=> Referrers(c) \ {o} = {}
    BY <2>2, FS_EmptySet
  <2> QED BY <2>1, <2>2, <2>3, <1>1
<1> QED BY <1>1, <1>2, <1>3 DEF Referrers
-----------------------------------------------------------------------------
\* No object, no counter.
LEMMA InitInv == Init => Inv
<1> SUFFICES ASSUME Init PROVE Inv
  OBVIOUS
<1>1. TypeOK
  BY SocketAssumption DEF Init, TypeOK
<1>2. Live = {} /\ \A c \in Ctrs : Referrers(c) = {}
  BY SocketAssumption DEF Init, Live, Referrers, SocketAssumption
<1>3. CountIsReferences
  BY <1>2, FS_EmptySet DEF CountIsReferences, Init
<1>4. Agree /\ NoLeak /\ OwnDescriptor /\ OneFd
  BY <1>2, SocketAssumption DEF Agree, NoLeak, OwnDescriptor, OneFd, Init, SocketAssumption
<1> QED BY <1>1, <1>3, <1>4 DEF Inv

\* A new socket.
LEMMA OpenInv == ASSUME Inv, NEW o \in Objs, ref_counter[o] = Null, Open(o) PROVE Inv'
<1>1. PICK c \in Ctrs, f \in Fds :
        /\ count[c] = 0 /\ table[f] = Free
        /\ table' = [table EXCEPT ![f] = c]
        /\ count' = [count EXCEPT ![c] = 1]
        /\ ref_counter' = [ref_counter EXCEPT ![o] = c]
        /\ sock_fd' = [sock_fd EXCEPT ![o] = f]
        /\ by_hand' = by_hand
  BY DEF Open
<1>2. TypeOK /\ CountIsReferences /\ Agree /\ NoLeak /\ OwnDescriptor /\ OneFd
  BY DEF Inv
<1>3. /\ c # Null /\ f # Null /\ c # Free /\ c # Other /\ Free \notin Ctrs
      /\ Null \notin Ctrs
  BY SocketAssumption DEF SocketAssumption
<1>4. \A p \in Objs : ref_counter[p] # c
  BY <1>1, <1>2, CountMeans
<1>5. TypeOK'
  BY <1>1, <1>2, <1>3 DEF TypeOK
<1>6. CountIsReferences'
  <2> SUFFICES ASSUME NEW d \in Ctrs PROVE count'[d] = Cardinality(Referrers(d)')
    BY DEF CountIsReferences
  <2>1. count[d] = Cardinality(Referrers(d)) /\ count[d] \in Nat
    BY <1>2 DEF CountIsReferences, TypeOK
  <2>2. /\ ref_counter[o] # d /\ c = d =>
             Cardinality(Referrers(d)') = Cardinality(Referrers(d)) + 1
        /\ (ref_counter[o] = d <=> c = d) => Referrers(d)' = Referrers(d)
    BY <1>1, <1>2, CountChange
  <2>3. count'[d] = IF d = c THEN 1 ELSE count[d]
    BY <1>1, <1>2 DEF TypeOK
  <2>4. ref_counter[o] # d
    BY <1>3
  <2>5. CASE d = c
    BY <2>1, <2>2, <2>3, <2>4, <2>5, <1>1
  <2>6. CASE d # c
    BY <2>1, <2>2, <2>3, <2>4, <2>6
  <2> QED BY <2>5, <2>6
<1>7. /\ ref_counter'[o] = c /\ sock_fd'[o] = f /\ table'[f] = c
      /\ \A p \in Objs : p # o => ref_counter'[p] = ref_counter[p] /\ sock_fd'[p] = sock_fd[p]
      /\ \A g \in Fds : g # f => table'[g] = table[g]
  BY <1>1, <1>2 DEF TypeOK
<1>8. \A g \in Fds : table[g] # c
  BY <1>2, <1>4 DEF NoLeak
<1>9. Agree' /\ OneFd'
  BY <1>2, <1>4, <1>7, <1>8 DEF Agree, OneFd, Live
<1>10. NoLeak'
  <2> SUFFICES ASSUME NEW g \in Fds, table'[g] \in Ctrs
               PROVE  \E p \in Objs : ref_counter'[p] = table'[g] /\ sock_fd'[p] = g
    BY DEF NoLeak
  <2>1. CASE g = f
    BY <2>1, <1>7
  <2>2. CASE g # f
    <3>1. PICK p \in Objs : ref_counter[p] = table[g] /\ sock_fd[p] = g
      BY <2>2, <1>2, <1>7 DEF NoLeak
    <3> QED BY <3>1, <2>2, <1>3, <1>7
  <2> QED BY <2>1, <2>2
<1>11. OwnDescriptor'
  <2> SUFFICES ASSUME ~by_hand', NEW p \in Live'
               PROVE  table'[sock_fd'[p]] = ref_counter'[p]
    BY DEF OwnDescriptor
  <2>1. CASE p = o
    BY <2>1, <1>7
  <2>2. CASE p # o
    <3>1. p \in Live /\ ref_counter'[p] = ref_counter[p] /\ sock_fd'[p] = sock_fd[p]
      BY <2>2, <1>7 DEF Live
    <3>2. table[sock_fd[p]] = ref_counter[p] /\ ref_counter[p] \in Ctrs /\ sock_fd[p] \in Fds
      BY <3>1, <1>1, <1>2 DEF OwnDescriptor, TypeOK, Live
    <3>3. sock_fd[p] # f
      BY <3>2, <1>1, <1>3
    <3> QED BY <3>1, <3>2, <3>3, <1>7
  <2> QED BY <2>1, <2>2
<1> QED BY <1>5, <1>6, <1>9, <1>10, <1>11 DEF Inv

\* The first half of the destructor and of the assignment: o no longer refers to
\* its counter c, and its descriptor is closed if it was the last.  What remains
\* of the invariant then holds of the other objects.
LEMMA ReleaseFacts ==
  ASSUME Inv, NEW o \in Live
  PROVE  LET c == ref_counter[o]
             T == TableAfter(o)
         IN  /\ c \in Ctrs /\ sock_fd[o] \in Fds /\ o \in Objs
             /\ count[c] \in Nat /\ count[c] > 0
             /\ Released(o) = [count EXCEPT ![c] = count[c] - 1]
             /\ T \in [Fds -> Ctrs \cup {Free, Other}]
             /\ \A f \in Fds : T[f] = table[f] \/ T[f] = Free
             /\ \A f \in Fds : T[f] \in Ctrs =>
                  \E p \in Objs : p # o /\ ref_counter[p] = T[f] /\ sock_fd[p] = f
             /\ ~by_hand => \A p \in Live : p # o => T[sock_fd[p]] = ref_counter[p]
<1> DEFINE c == ref_counter[o]
           T == TableAfter(o)
<1>1. TypeOK /\ CountIsReferences /\ Agree /\ NoLeak /\ OwnDescriptor /\ OneFd
  BY DEF Inv
<1>2. c \in Ctrs /\ sock_fd[o] \in Fds /\ o \in Objs /\ count[c] \in Nat
  BY <1>1 DEF TypeOK, Live
<1>3. /\ count[c] > 0
      /\ count[c] = 1 <=> \A p \in Objs : ref_counter[p] = c => p = o
  BY <1>1, <1>2, CountMeans
<1>4. Released(o) = [count EXCEPT ![c] = count[c] - 1]
  BY DEF Released
<1>5. Free \notin Ctrs /\ Null \notin Ctrs
  BY SocketAssumption DEF SocketAssumption
<1>6. /\ T = IF count[c] = 1 THEN [table EXCEPT ![sock_fd[o]] = Free] ELSE table
      /\ T \in [Fds -> Ctrs \cup {Free, Other}]
      /\ \A f \in Fds : T[f] = IF count[c] = 1 /\ f = sock_fd[o] THEN Free ELSE table[f]
  <2>1. T = IF count[c] = 1 THEN [table EXCEPT ![sock_fd[o]] = Free] ELSE table
    BY DEF TableAfter
  <2> QED BY <2>1, <1>1, <1>2 DEF TypeOK
<1>7. ASSUME NEW f \in Fds, T[f] \in Ctrs
      PROVE  \E p \in Objs : p # o /\ ref_counter[p] = T[f] /\ sock_fd[p] = f
  <2>1. T[f] = table[f]
    BY <1>5, <1>6, <1>7
  <2>2. PICK p \in Objs : ref_counter[p] = table[f] /\ sock_fd[p] = f
    BY <2>1, <1>1, <1>7 DEF NoLeak
  <2>3. CASE p # o
    BY <2>1, <2>2, <2>3
  <2>4. CASE p = o
    <3>1. f = sock_fd[o] /\ table[f] = c
      BY <2>2, <2>4
    <3>2. count[c] # 1
      BY <3>1, <2>1, <1>5, <1>6, <1>7
    <3>3. PICK q \in Objs : ref_counter[q] = c /\ q # o
      BY <3>2, <1>3
    <3>4. sock_fd[q] = sock_fd[o]
      BY <3>3, <1>1, <1>2, <1>5 DEF Agree, Live
    <3> QED BY <3>1, <3>3, <3>4, <2>1
  <2> QED BY <2>3, <2>4
<1>8. ASSUME ~by_hand, NEW p \in Live, p # o
      PROVE  T[sock_fd[p]] = ref_counter[p]
  <2>1. table[sock_fd[p]] = ref_counter[p] /\ table[sock_fd[o]] = c
    BY <1>1, <1>8 DEF OwnDescriptor
  <2>2. sock_fd[p] \in Fds
    BY <1>1 DEF TypeOK, Live
  <2>3. CASE count[c] = 1 /\ sock_fd[p] = sock_fd[o]
    BY <2>1, <2>3, <1>3, <1>8 DEF Live
  <2> QED BY <2>1, <2>2, <2>3, <1>6
<1> HIDE DEF T, c
<1>9. \A f \in Fds : T[f] = table[f] \/ T[f] = Free
  BY <1>6
<1> QED BY <1>2, <1>3, <1>4, <1>6, <1>7, <1>8, <1>9 DEF T, c

\* What an object comes to point to: another object's counter, or nothing.
LEMMA ReleaseInv ==
  ASSUME Inv, NEW o \in Live, NEW v \in Ctrs \cup {Null}, NEW g \in Fds \cup {Null},
         v = Null <=> g = Null,
         v \in Ctrs => \E p \in Live : p # o /\ v = ref_counter[p] /\ g = sock_fd[p],
         table' = TableAfter(o),
         ref_counter' = [ref_counter EXCEPT ![o] = v],
         sock_fd' = [sock_fd EXCEPT ![o] = g],
         by_hand' = by_hand,
         count' = IF v = Null THEN Released(o) ELSE [Released(o) EXCEPT ![v] = @ + 1]
  PROVE  Inv'
<1>1. TypeOK /\ CountIsReferences /\ Agree /\ NoLeak /\ OwnDescriptor /\ OneFd
  BY DEF Inv
<1>2. PICK c \in Ctrs : c = ref_counter[o]
  BY ReleaseFacts
<1>3. /\ sock_fd[o] \in Fds /\ o \in Objs
      /\ count[c] \in Nat /\ count[c] > 0
      /\ Released(o) = [count EXCEPT ![c] = count[c] - 1]
      /\ table' \in [Fds -> Ctrs \cup {Free, Other}]
      /\ \A f \in Fds : table'[f] = table[f] \/ table'[f] = Free
      /\ \A f \in Fds : table'[f] \in Ctrs =>
           \E p \in Objs : p # o /\ ref_counter[p] = table'[f] /\ sock_fd[p] = f
      /\ ~by_hand => \A p \in Live : p # o => table'[sock_fd[p]] = ref_counter[p]
  BY <1>2, ReleaseFacts
<1>4. Null \notin Ctrs /\ Null \notin Fds /\ Free \notin Ctrs
  BY SocketAssumption DEF SocketAssumption
<1>5. \A d \in Ctrs : count'[d] = (IF d = c THEN count[d] - 1 ELSE count[d])
                                  + (IF d = v THEN 1 ELSE 0)
  <2> TAKE d \in Ctrs
  <2>1. count[d] \in Nat /\ Released(o)[d] = (IF d = c THEN count[d] - 1 ELSE count[d])
        /\ Released(o) \in [Ctrs -> Int]
    BY <1>1, <1>3 DEF TypeOK
  <2>2. CASE v = Null
    BY <2>1, <2>2, <1>4
  <2>3. CASE v # Null
    BY <2>1, <2>3, <1>4
  <2> QED BY <2>2, <2>3
<1>6. count' \in [Ctrs -> Nat]
  <2>1. DOMAIN count' = Ctrs /\ count' = [d \in Ctrs |-> count'[d]]
    <3>1. Released(o) \in [Ctrs -> Int]
      BY <1>1, <1>3 DEF TypeOK
    <3>2. CASE v = Null
      BY <3>1, <3>2
    <3>3. CASE v # Null
      BY <3>1, <3>3
    <3> QED BY <3>2, <3>3
  <2>2. \A d \in Ctrs : count'[d] \in Nat
    <3> TAKE d \in Ctrs
    <3>1. count[d] \in Nat /\ (d = c => count[d] > 0)
      BY <1>1, <1>3 DEF TypeOK
    <3> QED BY <3>1, <1>5
  <2> QED BY <2>1, <2>2
<1>7. TypeOK'
  <2>1. ref_counter' \in [Objs -> Ctrs \cup {Null}] /\ sock_fd' \in [Objs -> Fds \cup {Null}]
    BY <1>1 DEF TypeOK
  <2>2. \A p \in Objs : ref_counter'[p] = Null <=> sock_fd'[p] = Null
    BY <1>1 DEF TypeOK
  <2>3. by_hand' \in BOOLEAN
    BY <1>1 DEF TypeOK
  <2> QED BY <2>1, <2>2, <2>3, <1>3, <1>6 DEF TypeOK
<1>8. CountIsReferences'
  <2> SUFFICES ASSUME NEW d \in Ctrs PROVE count'[d] = Cardinality(Referrers(d)')
    BY DEF CountIsReferences
  <2>1. count[d] = Cardinality(Referrers(d)) /\ count[d] \in Nat
    BY <1>1 DEF CountIsReferences, TypeOK
  <2>2. /\ c # d /\ v = d => Cardinality(Referrers(d)') = Cardinality(Referrers(d)) + 1
        /\ c = d /\ v # d => Cardinality(Referrers(d)') = Cardinality(Referrers(d)) - 1
        /\ (c = d <=> v = d) => Referrers(d)' = Referrers(d)
    <3>1. TypeOK /\ o \in Objs
      BY <1>1, <1>3
    <3>2. /\ ref_counter[o] # d /\ v = d =>
               Cardinality(Referrers(d)') = Cardinality(Referrers(d)) + 1
          /\ ref_counter[o] = d /\ v # d =>
               Cardinality(Referrers(d)') = Cardinality(Referrers(d)) - 1
          /\ (ref_counter[o] = d <=> v = d) => Referrers(d)' = Referrers(d)
      BY <3>1, CountChange
    <3> QED BY <3>2, <1>2
  <2>3. count'[d] = (IF d = c THEN count[d] - 1 ELSE count[d]) + (IF d = v THEN 1 ELSE 0)
    BY <1>5
  <2> QED BY <2>1, <2>2, <2>3
<1>9. /\ ref_counter'[o] = v /\ sock_fd'[o] = g
      /\ \A p \in Objs : p # o => ref_counter'[p] = ref_counter[p] /\ sock_fd'[p] = sock_fd[p]
  BY <1>1, <1>3 DEF TypeOK
<1>10. Agree' /\ OneFd'
  BY <1>1, <1>3, <1>4, <1>9 DEF Agree, OneFd, Live
<1>11. NoLeak'
  BY <1>3, <1>9 DEF NoLeak
<1>12. OwnDescriptor'
  <2> SUFFICES ASSUME ~by_hand', NEW p \in Live'
               PROVE  table'[sock_fd'[p]] = ref_counter'[p]
    BY DEF OwnDescriptor
  <2>1. CASE p = o
    <3>1. v \in Ctrs
      BY <2>1, <1>9 DEF Live
    <3>2. PICK q \in Live : q # o /\ v = ref_counter[q] /\ g = sock_fd[q]
      BY <3>1
    <3> QED BY <2>1, <3>2, <1>3, <1>9
  <2>2. CASE p # o
    BY <2>2, <1>3, <1>9 DEF Live
  <2> QED BY <2>1, <2>2
<1> QED BY <1>7, <1>8, <1>10, <1>11, <1>12 DEF Inv

\* The copy constructor.
LEMMA CopyInv == ASSUME Inv, NEW o \in Objs, NEW p \in Objs, Copy(o, p) PROVE Inv'
<1>1. TypeOK /\ CountIsReferences /\ Agree /\ NoLeak /\ OwnDescriptor /\ OneFd
  BY DEF Inv
<1>2. PICK c \in Ctrs : c = ref_counter[p]
  BY <1>1 DEF Copy, TypeOK
<1>3. PICK f \in Fds : f = sock_fd[p]
  BY <1>1 DEF Copy, TypeOK
<1>4. /\ ref_counter[o] = Null /\ c # Null /\ f # Null /\ p # o
      /\ ref_counter' = [ref_counter EXCEPT ![o] = c]
      /\ sock_fd' = [sock_fd EXCEPT ![o] = f]
      /\ count' = [count EXCEPT ![c] = count[c] + 1]
      /\ table' = table /\ by_hand' = by_hand
  BY <1>2, <1>3, SocketAssumption DEF Copy, SocketAssumption
<1>5. TypeOK'
  BY <1>1, <1>4 DEF TypeOK
<1>6. CountIsReferences'
  <2> SUFFICES ASSUME NEW d \in Ctrs PROVE count'[d] = Cardinality(Referrers(d)')
    BY DEF CountIsReferences
  <2>1. count[d] = Cardinality(Referrers(d)) /\ count[d] \in Nat
    BY <1>1 DEF CountIsReferences, TypeOK
  <2>2. /\ ref_counter[o] # d /\ c = d =>
             Cardinality(Referrers(d)') = Cardinality(Referrers(d)) + 1
        /\ (ref_counter[o] = d <=> c = d) => Referrers(d)' = Referrers(d)
    BY <1>1, <1>4, CountChange
  <2>3. count'[d] = (IF d = c THEN count[d] + 1 ELSE count[d]) /\ ref_counter[o] # d
    BY <1>1, <1>4, SocketAssumption DEF TypeOK, SocketAssumption
  <2> QED BY <2>1, <2>2, <2>3
<1>7. /\ ref_counter'[o] = c /\ sock_fd'[o] = f
      /\ \A q \in Objs : q # o => ref_counter'[q] = ref_counter[q] /\ sock_fd'[q] = sock_fd[q]
  BY <1>1, <1>4 DEF TypeOK
<1>8. Agree' /\ OneFd' /\ OwnDescriptor'
  BY <1>1, <1>2, <1>3, <1>4, <1>7 DEF Agree, OneFd, OwnDescriptor, Live
<1>9. NoLeak'
  <2> SUFFICES ASSUME NEW h \in Fds, table[h] \in Ctrs
               PROVE  \E q \in Objs : ref_counter'[q] = table[h] /\ sock_fd'[q] = h
    BY <1>4 DEF NoLeak
  <2>1. PICK q \in Objs : ref_counter[q] = table[h] /\ sock_fd[q] = h
    BY <1>1 DEF NoLeak
  <2>2. q # o
    BY <2>1, <1>4, SocketAssumption DEF SocketAssumption
  <2> QED BY <2>1, <2>2, <1>7
<1> QED BY <1>5, <1>6, <1>8, <1>9 DEF Inv

\* Steps that touch only the descriptor table.
LEMMA TableInv ==
  ASSUME Inv, UNCHANGED <<ref_counter, sock_fd, count>>, NEW f \in Fds,
         by_hand' \in BOOLEAN, by_hand => by_hand',
         \/ table' = [table EXCEPT ![f] = Other] /\ table[f] = Free
         \/ table' = [table EXCEPT ![f] = Free] /\ (table[f] = Other \/ by_hand')
  PROVE  Inv'
<1>1. TypeOK /\ CountIsReferences /\ Agree /\ NoLeak /\ OwnDescriptor /\ OneFd
  BY DEF Inv
<1>2. Free \notin Ctrs /\ Other \notin Ctrs
  BY SocketAssumption DEF SocketAssumption
<1>3. /\ TypeOK'
      /\ \A h \in Fds : table'[h] \in Ctrs => table'[h] = table[h]
      /\ \A h \in Fds : ~by_hand' /\ table[h] \in Ctrs => table'[h] = table[h]
  BY <1>1, <1>2 DEF TypeOK
<1>4. CountIsReferences' /\ Agree'
  BY <1>1 DEF CountIsReferences, Referrers, Agree, Live
<1>5. NoLeak' /\ OneFd'
  BY <1>1, <1>3 DEF NoLeak, OneFd
<1>6. OwnDescriptor'
  BY <1>1, <1>3 DEF OwnDescriptor, Live, TypeOK
<1> QED BY <1>3, <1>4, <1>5, <1>6 DEF Inv

\* Every step keeps the invariant.
LEMMA StepInv == Inv /\ [Next]_vars => Inv'
<1> SUFFICES ASSUME Inv, [Next]_vars PROVE Inv'
  OBVIOUS
<1>0. TypeOK /\ Null \notin Ctrs /\ Null \notin Fds
  BY SocketAssumption DEF Inv, SocketAssumption
<1>1. ASSUME NEW o \in Objs, Construct(o) PROVE Inv'
  BY <1>1, OpenInv DEF Construct
<1>2. ASSUME NEW o \in Objs, NEW l \in Objs, Accept(l, o) PROVE Inv'
  BY <1>2, OpenInv DEF Accept
<1>3. ASSUME NEW o \in Objs, Destroy(o) PROVE Inv'
  BY <1>0, <1>3, ReleaseInv DEF Destroy, Live
<1>4. ASSUME NEW o \in Objs, NEW p \in Objs, Assign(o, p) PROVE Inv'
  <2>1. CASE o = p
    <3>1. UNCHANGED vars
      BY <1>4, <2>1 DEF Assign
    <3> QED BY <3>1 DEF Inv, TypeOK, CountIsReferences, Referrers, Agree, NoLeak,
          OwnDescriptor, OneFd, Live, vars
  <2>2. CASE o # p
    <3>1. /\ o \in Live /\ p \in Live /\ ref_counter[p] \in Ctrs /\ sock_fd[p] \in Fds
          /\ ref_counter[p] # Null /\ sock_fd[p] # Null
      BY <1>0, <1>4 DEF Assign, Live, TypeOK
    <3> QED BY <1>4, <2>2, <3>1, ReleaseInv DEF Assign
  <2> QED BY <2>1, <2>2
<1>5. ASSUME NEW o \in Objs, NEW p \in Objs, Copy(o, p) PROVE Inv'
  BY <1>5, CopyInv
<1>6. ASSUME NEW o \in Objs, Close(o) PROVE Inv'
  <2>1. sock_fd[o] \in Fds
    BY <1>0, <1>6 DEF Close, TypeOK
  <2> QED BY <1>6, <2>1, TableInv DEF Close
<1>7. ASSUME NEW f \in Fds, OtherOpens(f) \/ OtherCloses(f) PROVE Inv'
  BY <1>0, <1>7, TableInv DEF OtherOpens, OtherCloses, TypeOK
<1>8. CASE UNCHANGED vars
  BY <1>8 DEF Inv, TypeOK, CountIsReferences, Referrers, Agree, NoLeak,
          OwnDescriptor, OneFd, Live, vars
<1> QED BY <1>1, <1>2, <1>3, <1>4, <1>5, <1>6, <1>7, <1>8 DEF Next

\* The inductive invariant.
THEOREM InvHolds == Spec => []Inv
  BY InitInv, StepInv, PTL DEF Spec
-----------------------------------------------------------------------------
\* Type correctness.
THEOREM TypeCorrect == Spec => []TypeOK
<1>1. Inv => TypeOK
  BY DEF Inv
<1> QED BY <1>1, InvHolds, PTL

\* The counters count.
THEOREM CountIsReferencesHolds == Spec => []CountIsReferences
<1>1. Inv => CountIsReferences
  BY DEF Inv
<1> QED BY <1>1, InvHolds, PTL

\* No descriptor outlives its last object.
THEOREM NoLeakHolds == Spec => []NoLeak
<1>1. Inv => NoLeak
  BY DEF Inv
<1> QED BY <1>1, InvHolds, PTL

\* Until an explicit Close an object's descriptor is its own.
THEOREM OwnDescriptorHolds == Spec => []OwnDescriptor
<1>1. Inv => OwnDescriptor
  BY DEF Inv
<1> QED BY <1>1, InvHolds, PTL
-----------------------------------------------------------------------------
\* Until an explicit Close the open sockets are those that some object holds.
LEMMA OpenIsHeld ==
  ASSUME Inv, ~by_hand
  PROVE  {table[f] : f \in Fds} \ {Free, Other} = SH!Held(ref_counter)
<1>1. TypeOK /\ NoLeak /\ OwnDescriptor
  BY DEF Inv
<1>2. ASSUME NEW c \in {table[f] : f \in Fds} \ {Free, Other}
      PROVE  c \in SH!Held(ref_counter)
  <2>1. PICK f \in Fds : c = table[f]
    BY <1>2
  <2>2. c \in Ctrs
    BY <1>1, <1>2, <2>1 DEF TypeOK
  <2>3. PICK o \in Objs : ref_counter[o] = c
    BY <1>1, <2>1, <2>2 DEF NoLeak
  <2> QED BY <2>2, <2>3, SocketAssumption DEF SH!Held, SocketAssumption
<1>3. ASSUME NEW c \in SH!Held(ref_counter)
      PROVE  c \in {table[f] : f \in Fds} \ {Free, Other}
  <2>1. PICK o \in Objs : ref_counter[o] = c /\ c # Null
    BY <1>3 DEF SH!Held
  <2>2. o \in Live /\ c \in Ctrs /\ sock_fd[o] \in Fds
    BY <1>1, <2>1 DEF Live, TypeOK
  <2>3. table[sock_fd[o]] = c
    BY <1>1, <2>1, <2>2 DEF OwnDescriptor
  <2> QED BY <2>2, <2>3, SocketAssumption DEF SocketAssumption
<1> QED BY <1>2, <1>3

\* Only Close changes by_hand, and it stays changed.
LEMMA ByHandStays ==
  ASSUME TypeOK, [Next]_vars
  PROVE  by_hand' = by_hand \/ by_hand'
<1>1. ASSUME NEW o \in Objs, Open(o) \/ Destroy(o) \/ Close(o) PROVE by_hand' = by_hand \/ by_hand'
  BY <1>1 DEF Open, Destroy, Close
<1>2. ASSUME NEW o \in Objs, NEW p \in Objs, Copy(o, p) \/ Assign(o, p)
      PROVE  by_hand' = by_hand
  BY <1>2 DEF Copy, Assign, vars
<1>3. ASSUME NEW f \in Fds, OtherOpens(f) \/ OtherCloses(f) PROVE by_hand' = by_hand
  BY <1>3 DEF OtherOpens, OtherCloses
<1> QED BY <1>1, <1>2, <1>3 DEF Next, Construct, Accept, vars

\* Socket, left to its destructors, implements a handle shared by its objects.
THEOREM SharedHandleImplemented == Spec => ImplementsSharedHandle
<1> DEFINE opened == {table[f] : f \in Fds} \ {Free, Other}
<1>1. Init => SH!Init
  BY SocketAssumption DEF Init, SH!Init, SocketAssumption
<1>2. Inv /\ Inv' /\ [Next]_vars => [SH!Next]_SH!shVars
  <2> SUFFICES ASSUME Inv, Inv', [Next]_vars
               PROVE  [SH!Next]_SH!shVars
    OBVIOUS
  <2> SUFFICES ASSUME ~by_hand, by_hand' = by_hand
               PROVE  [SH!Change]_<<ref_counter, opened>>
    <3>1. CASE by_hand' = TRUE
      BY <3>1 DEF SH!Next
    <3>2. CASE by_hand' # TRUE
      <4>1. TypeOK /\ TypeOK'
        BY DEF Inv
      <4>2. by_hand' = by_hand /\ ~by_hand
        BY <3>2, <4>1, ByHandStays DEF TypeOK
      <4> QED BY <4>2 DEF SH!Next, SH!shVars
    <3> QED BY <3>1, <3>2
  <2>0. TypeOK /\ Null \notin Ctrs /\ Free \notin Ctrs /\ Other \notin Ctrs
    BY SocketAssumption DEF Inv, SocketAssumption
  <2>1. opened = SH!Held(ref_counter) /\ opened' = SH!Held(ref_counter')
    <3>1. opened = SH!Held(ref_counter)
      BY OpenIsHeld
    <3>2. TypeOK' /\ NoLeak' /\ OwnDescriptor'
      BY DEF Inv
    <3>3. ASSUME NEW c \in opened' PROVE c \in SH!Held(ref_counter')
      <4>1. PICK f \in Fds : c = table'[f] /\ c \in Ctrs
        BY <3>2, <3>3 DEF TypeOK
      <4>2. PICK o \in Objs : ref_counter'[o] = c
        BY <3>2, <4>1 DEF NoLeak
      <4> QED BY <4>1, <4>2, <2>0 DEF SH!Held
    <3>4. ASSUME NEW c \in SH!Held(ref_counter') PROVE c \in opened'
      <4>1. PICK o \in Objs : ref_counter'[o] = c /\ c # Null
        BY <3>4 DEF SH!Held
      <4>2. o \in Live' /\ c \in Ctrs /\ sock_fd'[o] \in Fds
        BY <3>2, <4>1 DEF Live, TypeOK
      <4>3. table'[sock_fd'[o]] = c
        BY <3>2, <4>1, <4>2 DEF OwnDescriptor
      <4> QED BY <4>2, <4>3, <2>0
    <3> QED BY <3>1, <3>3, <3>4
  <2>2. ASSUME NEW o \in Objs, NEW r, ref_counter' = [ref_counter EXCEPT ![o] = r]
        PROVE  SH!Become(o, r)
    BY <2>1, <2>2 DEF SH!Become
  <2>3. CASE UNCHANGED ref_counter
    <3>1. opened' = opened
      BY <2>1, <2>3
    <3> QED BY <2>3, <3>1
  <2>4. ASSUME NEW o \in Objs, ref_counter[o] = Null, Open(o) PROVE SH!Change
    <3>1. PICK c \in Ctrs : count[c] = 0 /\ ref_counter' = [ref_counter EXCEPT ![o] = c]
      BY <2>4 DEF Open
    <3>2. c \notin opened
      <4>1. \A p \in Objs : ref_counter[p] # c
        BY <3>1, CountMeans DEF Inv
      <4> QED BY <4>1, <2>1 DEF SH!Held
    <3>3. SH!Become(o, c)
      BY <2>2, <3>1
    <3>4. SH!Acquire(o)
      BY <2>4, <3>2, <3>3 DEF SH!Acquire
    <3> QED BY <3>4 DEF SH!Change
  <2>5. ASSUME NEW o \in Objs, Destroy(o) PROVE SH!Change
    BY <2>2, <2>5 DEF Destroy, SH!Change, SH!Drop
  <2>6. ASSUME NEW o \in Objs, NEW p \in Objs, Copy(o, p) PROVE SH!Change
    <3>1. PICK r \in Ctrs : r = ref_counter[p]
      BY <2>0, <2>6 DEF Copy, TypeOK
    <3>2. SH!Become(o, r)
      BY <2>2, <2>6, <3>1 DEF Copy
    <3>3. SH!Share(o, p)
      BY <2>6, <3>1, <3>2 DEF Copy, SH!Share, SH!Become
    <3> QED BY <3>3, Zenon DEF SH!Change
  <2>7. ASSUME NEW o \in Objs, NEW p \in Objs, Assign(o, p), ref_counter' # ref_counter
        PROVE  SH!Change
    <3>1. ref_counter[o] # Null /\ ref_counter[p] # Null
          /\ ref_counter' = [ref_counter EXCEPT ![o] = ref_counter[p]]
      BY <2>7 DEF Assign, vars
    <3>2. PICK r \in Ctrs : r = ref_counter[p]
      BY <2>0, <3>1 DEF TypeOK
    <3>3. SH!Become(o, r)
      BY <2>2, <3>1, <3>2
    <3>4. SH!Replace(o, p)
      BY <3>1, <3>2, <3>3 DEF SH!Replace, SH!Become
    <3> QED BY <3>4, Zenon DEF SH!Change
  <2>8. ASSUME NEW o \in Objs, Close(o) PROVE FALSE
    BY <2>8 DEF Close
  <2>9. ASSUME NEW f \in Fds, OtherOpens(f) \/ OtherCloses(f) PROVE UNCHANGED ref_counter
    BY <2>9 DEF OtherOpens, OtherCloses
  <2> QED BY <2>3, <2>4, <2>5, <2>6, <2>7, <2>8, <2>9 DEF Next, Construct, Accept, vars
<1> QED BY <1>1, <1>2, InvHolds, PTL DEF Spec, ImplementsSharedHandle, SH!Spec

\* Until an explicit Close a destructor closes nothing but its own socket.
THEOREM ClosesOnlyItsOwnHolds == Spec => ClosesOnlyItsOwn
<1>1. Inv /\ [Next]_vars =>
        [~by_hand => \A o \in Live : ref_counter'[o] = Null =>
           \A f \in Fds : table'[f] # table[f] => table[f] = ref_counter[o]]_vars
  <2> SUFFICES ASSUME Inv, Next, ~by_hand, NEW o \in Live, ref_counter'[o] = Null,
                      NEW f \in Fds, table'[f] # table[f]
               PROVE  table[f] = ref_counter[o]
    OBVIOUS
  <2>1. TypeOK /\ Null \notin Ctrs /\ o \in Objs /\ ref_counter[o] # Null
        /\ table[sock_fd[o]] = ref_counter[o]
    BY SocketAssumption DEF Inv, SocketAssumption, Live, OwnDescriptor
  <2>2. ASSUME NEW p \in Objs, NEW c \in Ctrs, ref_counter' = [ref_counter EXCEPT ![p] = c]
        PROVE  FALSE
    BY <2>1, <2>2 DEF TypeOK
  <2>3. ASSUME UNCHANGED ref_counter PROVE FALSE
    BY <2>1, <2>3
  <2>4. ASSUME NEW p \in Objs, NEW q \in Objs, Copy(p, q) \/ Assign(p, q) PROVE FALSE
    <3>1. ref_counter[q] \in Ctrs
      BY <2>1, <2>4 DEF Copy, Assign, TypeOK
    <3>2. \/ UNCHANGED ref_counter
          \/ ref_counter' = [ref_counter EXCEPT ![p] = ref_counter[q]]
      BY <2>4 DEF Copy, Assign, vars
    <3> QED BY <3>1, <3>2, <2>2, <2>3
  <2>5. ASSUME NEW p \in Objs, Open(p) PROVE FALSE
    BY <2>2, <2>5 DEF Open
  <2>6. PICK p \in Objs : Destroy(p)
    BY <2>3, <2>4, <2>5 DEF Next, Construct, Accept, Close, OtherOpens, OtherCloses
  <2>7. p = o
    BY <2>1, <2>6 DEF Destroy, TypeOK
  <2>8. f = sock_fd[o]
    BY <2>1, <2>6, <2>7 DEF Destroy, TableAfter, TypeOK
  <2> QED BY <2>1, <2>8
<1> QED BY <1>1, InvHolds, PTL DEF Spec, ClosesOnlyItsOwn
==========================================================================
