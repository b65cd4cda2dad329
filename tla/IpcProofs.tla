----------------------------- MODULE IpcProofs -----------------------------
(***************************************************************************)
(* Proofs about the semaphores and message queues of Ipc, for any processes, *)
(* objects, names and bounds.                                               *)
(***************************************************************************)
EXTENDS Ipc, FiniteSetTheorems, TLAPS

(* Semaphores.                                                             *)

\* What the places of a constructor and of Wait say of the object.
Places ==
  \A o \in Objs :
    /\ pc[o] \in {"create", "open"} => name_m[o] # None /\ sem_m[o] = None
    /\ pc[o] = "wait" => sem_m[o] # None

\* No two names name one semaphore, and the value of each is what its name is owed.
Directory ==
  /\ \A n, m \in Names : dir[n] # None /\ dir[n] = dir[m] => n = m
  /\ \A n \in Names : dir[n] # None => value[dir[n]] = owed[n]

\* An object has the semaphore of its name.
Named ==
  \A o \in Objs : sem_m[o] # None =>
    /\ name_m[o] # None /\ dir[name_m[o]] # None
    /\ sem_m[o] = dir[name_m[o]]

SInv == SemTypeOK /\ Places /\ Directory /\ Named /\ NameStays

\* The objects that count as one opening of s in p.
Openers(p, s) == {o \in Objs : Home[o] = p /\ sem_m[o] = s /\ ~astray[o]}

\* Each of them is covered by an opening of its own.
Covered == \A p \in Procs, s \in Sems : Cardinality(Openers(p, s)) <= opens[p][s]

-----------------------------------------------------------------------------
\* The invariant of the semaphores holds at first.
LEMMA SemInitInv == SemInit => SInv /\ Covered
<1> SUFFICES ASSUME SemInit PROVE SInv /\ Covered
  OBVIOUS
<1> USE SemaphoreAssumption DEF SemInit
<1>1. SInv
  BY DEF SInv, SemTypeOK, Places, Directory, Named, NameStays
<1>2. ASSUME NEW p \in Procs, NEW s \in Sems PROVE Cardinality(Openers(p, s)) <= opens[p][s]
  <2>1. Openers(p, s) = {}
    BY DEF Openers
  <2>2. QED
    BY <2>1, FS_EmptySet
<1>3. QED
  BY <1>1, <1>2 DEF Covered

\* The end of a process preserves it.
LEMMA SemDieInv == ASSUME SInv, NEW p \in Procs, SemDie(p) PROVE SInv'
<1> USE SemaphoreAssumption DEF SemDie, Gone, directory
<1>1. SemTypeOK'
  BY DEF SInv, SemTypeOK
<1>2. Places' /\ Directory' /\ Named' /\ NameStays'
  BY DEF SInv, SemTypeOK, Places, Directory, Named, NameStays
<1>3. QED
  BY <1>1, <1>2 DEF SInv

\* A constructor up to GetNamed preserves it.
LEMMA ConstructInv ==
  ASSUME SInv, NEW o \in Objs, NEW v \in Values,
         ConstructUnnamed(o, v) \/ \E g \in Given : Construct(o, g, v)
  PROVE SInv'
<1> USE SemaphoreAssumption
<1>1. PICK n \in Names :
        /\ name_m' = [name_m EXCEPT ![o] = n] /\ val_' = [val_ EXCEPT ![o] = v]
        /\ pc' = [pc EXCEPT ![o] = "create"]
        /\ UNCHANGED <<directory, sem_m, astray, opens, died>>
        /\ ~Exists(o)
        /\ rands' \in [Procs -> 0..MaxRand]
  <2>1. CASE ConstructUnnamed(o, v)
    <3>1. rands[Home[o]] + 1 \in 1..MaxRand /\ Home[o] \in Procs
      BY <2>1 DEF ConstructUnnamed, SInv, SemTypeOK
    <3>2. GenName(Home[o], rands[Home[o]] + 1) \in Names
      BY <3>1 DEF Names
    <3>3. rands' \in [Procs -> 0..MaxRand]
      BY <2>1, <3>1 DEF ConstructUnnamed, SInv, SemTypeOK
    <3>4. QED
      BY <2>1, <3>2, <3>3 DEF ConstructUnnamed
  <2>2. CASE \E g \in Given : Construct(o, g, v)
    <3>1. PICK g \in Given : Construct(o, g, v)
      BY <2>2
    <3>2. g \in Names
      BY DEF Names
    <3>3. QED
      BY <3>1, <3>2 DEF Construct, SInv, SemTypeOK, process
  <2>3. QED
    BY <2>1, <2>2
<1>2. sem_m[o] = None /\ n # None
  BY <1>1 DEF Exists, SInv, Named, Names, GenName
<1>3. SemTypeOK'
  BY <1>1 DEF SInv, SemTypeOK, directory
<1>4. Places' /\ Directory' /\ Named' /\ NameStays'
  BY <1>1, <1>2 DEF SInv, SemTypeOK, Places, Directory, Named, NameStays, directory
<1>5. QED
  BY <1>3, <1>4 DEF SInv

\* GetNamed preserves it.
LEMMA GetNamedInv ==
  ASSUME SInv, NEW o \in Objs,
         \/ \E s \in Sems : GetNamedCreates(o, s)
         \/ GetNamedExists(o) \/ GetNamedOpens(o) \/ GetNamedThrows(o)
  PROVE SInv'
<1> USE SemaphoreAssumption
<1>1. CASE \E s \in Sems : GetNamedCreates(o, s)
  <2>1. PICK s \in Sems : GetNamedCreates(o, s)
    BY <1>1
  <2>2. name_m[o] \in Names /\ sem_m[o] = None /\ Home[o] \in Procs /\ s # None
    BY <2>1 DEF GetNamedCreates, SInv, SemTypeOK, Places
  <2> USE <2>1, <2>2 DEF GetNamedCreates, Opened
  <2>3. SemTypeOK'
    BY DEF SInv, SemTypeOK
  <2>4. Directory'
    BY DEF SInv, SemTypeOK, Directory
  <2>5. Places' /\ Named' /\ NameStays'
    BY DEF SInv, SemTypeOK, Places, Named, NameStays
  <2>6. QED
    BY <2>3, <2>4, <2>5 DEF SInv
<1>2. CASE GetNamedExists(o)
  BY <1>2 DEF GetNamedExists, directory, object, process, SInv, SemTypeOK, Places, Directory, Named,
              NameStays
<1>3. CASE GetNamedOpens(o)
  <2>1. name_m[o] \in Names /\ sem_m[o] = None /\ Home[o] \in Procs /\ dir[name_m[o]] \in Sems
    BY <1>3 DEF GetNamedOpens, SInv, SemTypeOK, Places
  <2> USE <1>3, <2>1 DEF GetNamedOpens, Opened, directory
  <2>2. SemTypeOK'
    BY DEF SInv, SemTypeOK
  <2>3. Places' /\ Directory' /\ Named' /\ NameStays'
    BY DEF SInv, SemTypeOK, Places, Directory, Named, NameStays
  <2>4. QED
    BY <2>2, <2>3 DEF SInv
<1>4. CASE GetNamedThrows(o)
  BY <1>4 DEF GetNamedThrows, Gone, directory, process, SInv, SemTypeOK, Places, Directory, Named,
              NameStays
<1>5. QED
  BY <1>1, <1>2, <1>3, <1>4

\* Copies, assignments and destructors preserve it.
LEMMA CopyInv ==
  ASSUME SInv, NEW o \in Objs,
         (\E p \in Objs : Copy(o, p) \/ Assign(o, p)) \/ Destroy(o) \/ DestroyAstray(o)
  PROVE SInv'
<1> USE SemaphoreAssumption DEF Made, Free
<1>1. CASE \E p \in Objs : Copy(o, p) \/ Assign(o, p)
  <2>1. PICK p \in Objs : Copy(o, p) \/ Assign(o, p)
    BY <1>1
  <2>2. /\ sem_m[p] # None /\ pc[o] = "idle"
        /\ name_m' = [name_m EXCEPT ![o] = name_m[p]] /\ sem_m' = [sem_m EXCEPT ![o] = sem_m[p]]
        /\ astray' = [astray EXCEPT ![o] = TRUE]
        /\ UNCHANGED <<dir, value, owed, val_, opens, rands, died, pc>>
    BY <2>1 DEF Copy, Assign, directory, process
  <2>3. SemTypeOK'
    BY <2>2 DEF SInv, SemTypeOK
  <2>4. Places' /\ Directory' /\ Named' /\ NameStays'
    BY <2>2 DEF SInv, SemTypeOK, Places, Directory, Named, NameStays
  <2>5. QED
    BY <2>3, <2>4 DEF SInv
<1>2. CASE Destroy(o) \/ DestroyAstray(o)
  <2>1. /\ pc[o] = "idle" /\ Gone({o}) /\ UNCHANGED <<dir, value, owed, rands, died, pc>>
        /\ opens' \in [Procs -> [Sems -> Nat]]
    <3>1. CASE DestroyAstray(o)
      BY <3>1 DEF DestroyAstray, directory, process, SInv, SemTypeOK
    <3>2. CASE Destroy(o)
      <4>1. Home[o] \in Procs /\ sem_m[o] \in Sems /\ opens[Home[o]][sem_m[o]] \in Nat
        BY <3>2 DEF Destroy, SInv, SemTypeOK
      <4>2. Closed(o) \in [Procs -> [Sems -> Nat]]
        BY <4>1 DEF Closed, SInv, SemTypeOK
      <4>3. QED
        BY <3>2, <4>2 DEF Destroy, directory
    <3>3. QED
      BY <1>2, <3>1, <3>2
  <2>2. SemTypeOK'
    BY <2>1 DEF Gone, SInv, SemTypeOK
  <2>3. Places' /\ Directory' /\ Named' /\ NameStays'
    BY <2>1 DEF Gone, SInv, SemTypeOK, Places, Directory, Named, NameStays
  <2>4. QED
    BY <2>2, <2>3 DEF SInv
<1>3. QED
  BY <1>1, <1>2

\* Post and Wait preserve it.
LEMMA UseInv ==
  ASSUME SInv, NEW o \in Objs, Post(o) \/ Wait(o) \/ WaitReturns(o) PROVE SInv'
<1> USE SemaphoreAssumption DEF Usable, Made, directory, object, process
<1>1. CASE Wait(o)
  BY <1>1 DEF Wait, SInv, SemTypeOK, Places, Directory, Named, NameStays
<1>2. CASE Post(o) \/ WaitReturns(o)
  <2>1. PICK d \in {1, -1} : Put(sem_m[o], name_m[o], d)
    BY <1>2 DEF Post, WaitReturns
  <2>2. sem_m[o] \in Sems /\ name_m[o] \in Names /\ sem_m[o] = dir[name_m[o]] /\ sem_m[o] # None
    BY <1>2 DEF Post, WaitReturns, SInv, SemTypeOK, Places, Named
  <2>3. pc' = pc \/ pc' = [pc EXCEPT ![o] = "idle"]
    BY <1>2 DEF Post, WaitReturns
  <2>4. SemTypeOK'
    <3>1. value' \in [Sems -> Int] /\ owed' \in [Names -> Int]
      BY <2>1, <2>2 DEF Put, SInv, SemTypeOK
    <3>2. pc' \in [Objs -> {"idle", "create", "open", "wait"}]
      BY <2>3 DEF SInv, SemTypeOK
    <3>3. QED
      BY <2>1, <3>1, <3>2 DEF Put, SInv, SemTypeOK
  <2>5. Directory'
    BY <2>1, <2>2 DEF Put, SInv, SemTypeOK, Directory
  <2>6. Places' /\ Named' /\ NameStays'
    BY <2>1, <2>2, <2>3 DEF Put, SInv, SemTypeOK, Places, Named, NameStays
  <2>7. QED
    BY <2>4, <2>5, <2>6 DEF SInv
<1>3. QED
  BY <1>1, <1>2

\* Every step of a program preserves it.
LEMMA SemStepInv == SInv /\ SemStep => SInv'
  BY ConstructInv, GetNamedInv, CopyInv, UseInv DEF SemStep
-----------------------------------------------------------------------------
\* The sets of openers are finite.
LEMMA OpenersFinite ==
  ASSUME NEW p, NEW s PROVE IsFiniteSet(Openers(p, s)) /\ Cardinality(Openers(p, s)) \in Nat
<1>1. Openers(p, s) \subseteq Objs
  BY DEF Openers
<1>2. QED
  BY <1>1, SemaphoreAssumption, FS_Subset, FS_CardinalityType

\* A step that adds no opener and closes nothing leaves them covered.
LEMMA FewerCovered ==
  ASSUME SInv, Covered, UNCHANGED opens,
         \A p \in Procs, s \in Sems : Openers(p, s)' \subseteq Openers(p, s)
  PROVE Covered'
<1> SUFFICES ASSUME NEW p \in Procs, NEW s \in Sems
             PROVE Cardinality(Openers(p, s)') <= opens[p][s]
  BY DEF Covered, Openers
<1>1. Cardinality(Openers(p, s)') <= Cardinality(Openers(p, s))
      /\ Cardinality(Openers(p, s)') \in Nat
  BY OpenersFinite, FS_Subset, FS_CardinalityType
<1>2. Cardinality(Openers(p, s)) \in Nat /\ opens[p][s] \in Nat
  BY OpenersFinite DEF SInv, SemTypeOK
<1>3. QED
  BY <1>1, <1>2 DEF Covered

\* The end of a process leaves the openers of the others covered.
LEMMA SemDieCovered == ASSUME SInv, Covered, NEW q \in Procs, SemDie(q) PROVE Covered'
<1> SUFFICES ASSUME NEW p \in Procs, NEW s \in Sems
             PROVE Cardinality(Openers(p, s)') <= opens'[p][s]
  BY DEF Covered, Openers
<1> USE SemaphoreAssumption DEF SemDie, Gone
<1>1. CASE p = q
  <2>1. Openers(p, s)' = {}
    BY <1>1 DEF Openers
  <2>2. opens'[p][s] = 0
    BY <1>1 DEF SInv, SemTypeOK
  <2>3. QED
    BY <2>1, <2>2, FS_EmptySet
<1>2. CASE p # q
  <2>1. Openers(p, s)' = Openers(p, s)
    BY <1>2 DEF Openers
  <2>2. opens'[p][s] = opens[p][s]
    BY <1>2 DEF SInv, SemTypeOK
  <2>3. QED
    BY <2>1, <2>2 DEF Covered
<1>3. QED
  BY <1>1, <1>2

\* The object whose semaphore is opened is covered by that.
LEMMA OpenedCovered ==
  ASSUME SInv, Covered, NEW o \in Objs, NEW t \in Sems, Opened(o, t), UNCHANGED astray,
         sem_m[o] = None
  PROVE Covered'
<1> SUFFICES ASSUME NEW p \in Procs, NEW s \in Sems
             PROVE Cardinality(Openers(p, s)') <= opens'[p][s]
  BY DEF Covered, Openers
<1> USE SemaphoreAssumption DEF Opened
<1>1. Home[o] \in Procs /\ opens[p][s] \in Nat /\ Cardinality(Openers(p, s)) <= opens[p][s]
  BY ZenonT(40) DEF SInv, SemTypeOK, Covered
<1>2. CASE p = Home[o] /\ s = t
  <2>1. opens'[p][s] = opens[p][s] + 1
    BY <1>1, <1>2 DEF SInv, SemTypeOK
  <2>2. o \notin Openers(p, s)
    BY DEF Openers
  <2>3. Openers(p, s)' \subseteq Openers(p, s) \cup {o}
    BY DEF SInv, SemTypeOK, Openers
  <2>4. IsFiniteSet(Openers(p, s) \cup {o})
        /\ Cardinality(Openers(p, s) \cup {o}) = Cardinality(Openers(p, s)) + 1
    BY <2>2, OpenersFinite, FS_AddElement
  <2>5. Cardinality(Openers(p, s)') <= Cardinality(Openers(p, s)) + 1
    BY <2>3, <2>4, FS_Subset
  <2>6. Cardinality(Openers(p, s)') \in Nat
    BY <2>3, <2>4, FS_Subset, FS_CardinalityType
  <2>7. QED
    BY <1>1, <2>1, <2>5, <2>6, OpenersFinite
<1>3. CASE ~(p = Home[o] /\ s = t)
  <2>1. opens'[p][s] = opens[p][s]
    BY <1>1, <1>3 DEF SInv, SemTypeOK
  <2>2. Openers(p, s)' = Openers(p, s)
    BY <1>3 DEF SInv, SemTypeOK, Openers
  <2>3. QED
    BY <1>1, <2>1, <2>2
<1>4. QED
  BY <1>2, <1>3

\* The destructor closes only what covered the object that is gone.
LEMMA DestroyCovered == ASSUME SInv, Covered, NEW o \in Objs, Destroy(o) PROVE Covered'
<1> SUFFICES ASSUME NEW p \in Procs, NEW s \in Sems
             PROVE Cardinality(Openers(p, s)') <= opens'[p][s]
  BY DEF Covered, Openers
<1> USE SemaphoreAssumption DEF Destroy, Gone, Made
<1>1. /\ Home[o] \in Procs /\ sem_m[o] \in Sems
      /\ opens[p][s] \in Nat /\ Cardinality(Openers(p, s)) <= opens[p][s]
  BY DEF SInv, SemTypeOK, Covered
<1>2. CASE p = Home[o] /\ s = sem_m[o]
  <2>1. o \in Openers(p, s)
    BY <1>2 DEF Openers, SInv, SemTypeOK
  <2>2. Openers(p, s)' = Openers(p, s) \ {o}
    BY <1>1 DEF Openers, SInv, SemTypeOK
  <2>3. Cardinality(Openers(p, s)') = Cardinality(Openers(p, s)) - 1
    BY <2>1, <2>2, OpenersFinite, FS_RemoveElement, ZenonT(40)
  <2>4. Cardinality(Openers(p, s)') \in Nat
    BY <2>2, OpenersFinite, FS_Subset, FS_CardinalityType
  <2>5. opens'[p][s] = opens[p][s] \/ opens'[p][s] = opens[p][s] - 1
    BY <1>1, <1>2 DEF Closed, SInv, SemTypeOK
  <2>6. QED
    BY <1>1, <2>3, <2>4, <2>5, OpenersFinite
<1>3. CASE ~(p = Home[o] /\ s = sem_m[o])
  <2>1. opens'[p][s] = opens[p][s]
    BY <1>1, <1>3 DEF Closed, SInv, SemTypeOK
  <2>2. Openers(p, s)' = Openers(p, s)
    BY <1>1, <1>3 DEF Openers
  <2>3. QED
    BY <1>1, <2>1, <2>2
<1>4. QED
  BY <1>2, <1>3

\* Every step of a program leaves the openers covered.
LEMMA SemStepCovered == ASSUME SInv, Covered, SemStep PROVE Covered'
<1>1. PICK o \in Objs :
        \/ \E v \in Values : ConstructUnnamed(o, v) \/ \E g \in Given : Construct(o, g, v)
        \/ \E s \in Sems : GetNamedCreates(o, s)
        \/ GetNamedExists(o) \/ GetNamedOpens(o) \/ GetNamedThrows(o)
        \/ \E p \in Objs : Copy(o, p) \/ Assign(o, p)
        \/ Destroy(o) \/ DestroyAstray(o)
        \/ Post(o) \/ Wait(o) \/ WaitReturns(o)
  BY DEF SemStep
<1>2. CASE \/ \E v \in Values : ConstructUnnamed(o, v) \/ \E g \in Given : Construct(o, g, v)
           \/ GetNamedExists(o) \/ Post(o) \/ Wait(o) \/ WaitReturns(o)
  <2>1. UNCHANGED <<sem_m, astray, opens>>
    BY <1>2 DEF ConstructUnnamed, Construct, GetNamedExists, Post, Wait, WaitReturns, Put, object, process
  <2>2. QED
    BY <2>1, FewerCovered DEF Openers
<1>3. CASE (\E p \in Objs : Copy(o, p) \/ Assign(o, p)) \/ GetNamedThrows(o) \/ DestroyAstray(o)
  <2>1. UNCHANGED opens
    BY <1>3 DEF Copy, Assign, GetNamedThrows, DestroyAstray, process
  <2>2. \A q \in Objs \ {o} : sem_m'[q] = sem_m[q] /\ astray'[q] = astray[q]
    BY <1>3 DEF Copy, Assign, GetNamedThrows, DestroyAstray, Gone, SInv, SemTypeOK
  <2>3. astray'[o] = TRUE \/ sem_m'[o] = None
    BY <1>3 DEF Copy, Assign, GetNamedThrows, DestroyAstray, Gone, SInv, SemTypeOK
  <2>4. \A p \in Procs, s \in Sems : Openers(p, s)' \subseteq Openers(p, s)
    BY <2>2, <2>3, SemaphoreAssumption DEF Openers
  <2>5. QED
    BY <2>1, <2>4, FewerCovered
<1>4. CASE GetNamedOpens(o) \/ \E s \in Sems : GetNamedCreates(o, s)
  <2>1. PICK s \in Sems : Opened(o, s)
    BY <1>4 DEF GetNamedOpens, GetNamedCreates, SInv, SemTypeOK, Places
  <2>2. UNCHANGED astray /\ sem_m[o] = None
    BY <1>4 DEF GetNamedOpens, GetNamedCreates, SInv, Places
  <2>3. QED
    BY <2>1, <2>2, OpenedCovered
<1>5. CASE Destroy(o)
  BY <1>5, DestroyCovered
<1>6. QED
  BY <1>1, <1>2, <1>3, <1>4, <1>5
-----------------------------------------------------------------------------
\* A process is in one object at a time; the name that GenName has made in a process
\* that is the first of its pid is the last one, and it names nothing yet, nor do
\* those that GenName will make.
FreshNames ==
  /\ \A o, q \in Objs : Home[o] = Home[q] /\ pc[o] # "idle" /\ pc[q] # "idle" => o = q
  /\ \A o \in Objs : pc[o] \in {"create", "open"} /\ name_m[o] \notin Given =>
       /\ \E r \in 1..MaxRand : name_m[o] = GenName(Home[o], r)
       /\ Home[o] \notin died =>
            name_m[o] = GenName(Home[o], rands[Home[o]]) /\ dir[name_m[o]] = None
  /\ \A p \in Procs \ died, r \in 1..MaxRand : r > rands[p] => dir[GenName(p, r)] = None

\* Names of GenName are names, and tell their pids and numbers.
LEMMA GenNames ==
  ASSUME NEW p \in Procs, NEW r \in 1..MaxRand
  PROVE /\ GenName(p, r) \in Names /\ GenName(p, r) \notin Given
        /\ \A q \in Procs, u \in 1..MaxRand : GenName(p, r) = GenName(q, u) => p = q /\ r = u
<1>1. GenName(p, r) \in Names
  BY DEF Names
<1>2. GenName(p, r) \notin Given
  BY SemaphoreAssumption DEF GenName
<1>3. \A q \in Procs, u \in 1..MaxRand : GenName(p, r) = GenName(q, u) => p = q /\ r = u
  BY DEF GenName
<1>4. QED
  BY <1>1, <1>2, <1>3

\* Every step of a program keeps the names fresh.
LEMMA SemStepFresh == ASSUME SInv, FreshNames, SemStep PROVE FreshNames'
<1> USE SemaphoreAssumption
<1>1. PICK o \in Objs :
        \/ \E v \in Values : ConstructUnnamed(o, v) \/ \E g \in Given : Construct(o, g, v)
        \/ \E s \in Sems : GetNamedCreates(o, s)
        \/ GetNamedExists(o) \/ GetNamedOpens(o) \/ GetNamedThrows(o)
        \/ \E p \in Objs : Copy(o, p) \/ Assign(o, p)
        \/ Destroy(o) \/ DestroyAstray(o)
        \/ Post(o) \/ Wait(o) \/ WaitReturns(o)
  BY DEF SemStep
<1>2. Home[o] \in Procs /\ rands \in [Procs -> 0..MaxRand] /\ DOMAIN name_m = Objs /\ DOMAIN pc = Objs
  BY DEF SInv, SemTypeOK
<1>3. CASE \E v \in Values : ConstructUnnamed(o, v)
  <2>1. PICK v \in Values : ConstructUnnamed(o, v)
    BY <1>3
  <2>2. rands[Home[o]] + 1 \in 1..MaxRand
    BY <1>2, <2>1 DEF ConstructUnnamed
  <2>3. \A q \in Objs : Home[q] = Home[o] => pc[q] = "idle"
    BY <2>1 DEF ConstructUnnamed, MayOpen, Free
  <2> DEFINE n == GenName(Home[o], rands[Home[o]] + 1)
  <2>4. /\ name_m' = [name_m EXCEPT ![o] = n] /\ pc' = [pc EXCEPT ![o] = "create"]
        /\ rands' = [rands EXCEPT ![Home[o]] = rands[Home[o]] + 1] /\ UNCHANGED <<dir, died>>
    BY <2>1 DEF ConstructUnnamed, directory
  <2>5. Home[o] \notin died => dir[n] = None
    BY <1>2, <2>2 DEF FreshNames
  <2>6. n \notin Given
    BY <1>2, <2>2, GenNames
  <2>7. \A q, u \in Objs : Home[u] = Home[q] /\ pc'[u] # "idle" /\ pc'[q] # "idle" => u = q
    BY <1>2, <2>3, <2>4 DEF FreshNames
  <2>8. ASSUME NEW q \in Objs, pc'[q] \in {"create", "open"}, name_m'[q] \notin Given
        PROVE /\ \E r \in 1..MaxRand : name_m'[q] = GenName(Home[q], r)
              /\ Home[q] \notin died' =>
                   name_m'[q] = GenName(Home[q], rands'[Home[q]]) /\ dir'[name_m'[q]] = None
    <3> HIDE DEF n
    <3>1. CASE q = o
      <4>1. rands'[Home[o]] = rands[Home[o]] + 1 /\ name_m'[o] = n
        BY <1>2, <2>4
      <4>2. QED
        BY <2>2, <2>4, <2>5, <3>1, <4>1 DEF n
    <3>2. CASE q # o
      <4>1. pc[q] \in {"create", "open"} /\ name_m'[q] = name_m[q]
        BY <1>2, <2>4, <2>8, <3>2
      <4>2. Home[q] # Home[o]
        BY <2>3, <4>1
      <4>3. rands'[Home[q]] = rands[Home[q]]
        BY <1>2, <2>4, <4>2, SemaphoreAssumption
      <4>4. QED
        BY <2>4, <2>8, <4>1, <4>3 DEF FreshNames
    <3>3. QED
      BY <3>1, <3>2
  <2>9. \A p \in Procs \ died', r \in 1..MaxRand : r > rands'[p] => dir'[GenName(p, r)] = None
    BY <1>2, <2>2, <2>4 DEF FreshNames
  <2>10. QED
    BY <2>7, <2>8, <2>9 DEF FreshNames
<1>4. CASE \E v \in Values, g \in Given : Construct(o, g, v)
  <2>1. PICK v \in Values, g \in Given : Construct(o, g, v)
    BY <1>4
  <2>2. \A q \in Objs : Home[q] = Home[o] => pc[q] = "idle"
    BY <2>1 DEF Construct, MayOpen, Free
  <2>3. /\ name_m' = [name_m EXCEPT ![o] = g] /\ pc' = [pc EXCEPT ![o] = "create"]
        /\ UNCHANGED <<dir, rands, died>>
    BY <2>1 DEF Construct, directory, process
  <2>4. QED
    BY <1>2, <2>2, <2>3 DEF FreshNames
<1>5. CASE \E s \in Sems : GetNamedCreates(o, s)
  <2>1. PICK s \in Sems : GetNamedCreates(o, s)
    BY <1>5
  <2>2. /\ pc[o] = "create" /\ dir' = [dir EXCEPT ![name_m[o]] = s]
        /\ pc' = [pc EXCEPT ![o] = "idle"] /\ UNCHANGED <<name_m, rands, died>>
    BY <2>1 DEF GetNamedCreates, Opened
  <2>3. name_m[o] \in Given \/
          /\ \E r \in 1..MaxRand : name_m[o] = GenName(Home[o], r)
          /\ Home[o] \notin died => name_m[o] = GenName(Home[o], rands[Home[o]])
    BY <2>2 DEF FreshNames
  <2>4. ASSUME NEW p \in Procs \ died, NEW r \in 1..MaxRand, name_m[o] = GenName(p, r)
        PROVE p = Home[o] /\ r = rands[p]
    <3>1. PICK u \in 1..MaxRand : name_m[o] = GenName(Home[o], u)
      BY <2>3, <2>4, GenNames
    <3>2. p = Home[o] /\ r = u
      BY <1>2, <2>4, <3>1, GenNames
    <3>3. name_m[o] = GenName(p, rands[p])
      BY <2>3, <2>4, <3>2, GenNames
    <3>4. QED
      BY <2>4, <3>2, <3>3 DEF GenName
  <2>5. \A p \in Procs \ died', r \in 1..MaxRand : r > rands'[p] => dir'[GenName(p, r)] = None
    <3>1. SUFFICES ASSUME NEW p \in Procs \ died, NEW r \in 1..MaxRand, r > rands[p]
                   PROVE dir'[GenName(p, r)] = None
      BY <2>2
    <3>2. dir[GenName(p, r)] = None
      BY <3>1 DEF FreshNames
    <3>3. GenName(p, r) # name_m[o]
      BY <1>2, <2>4, <3>1
    <3>4. QED
      BY <2>2, <3>2, <3>3, GenNames DEF SInv, SemTypeOK
  <2>6. ASSUME NEW q \in Objs, pc'[q] \in {"create", "open"}, name_m'[q] \notin Given
        PROVE /\ \E r \in 1..MaxRand : name_m'[q] = GenName(Home[q], r)
              /\ Home[q] \notin died' =>
                   name_m'[q] = GenName(Home[q], rands'[Home[q]]) /\ dir'[name_m'[q]] = None
    <3>1. q # o /\ pc[q] \in {"create", "open"} /\ name_m[q] \notin Given
      BY <1>2, <2>2, <2>6
    <3>2. Home[q] # Home[o]
      BY <2>2, <3>1 DEF FreshNames
    <3>3. PICK r \in 1..MaxRand : name_m[q] = GenName(Home[q], r)
      BY <3>1 DEF FreshNames
    <3>4. Home[q] \notin died =>
            name_m[q] = GenName(Home[q], rands[Home[q]]) /\ dir[name_m[q]] = None
      BY <3>1 DEF FreshNames
    <3>5. Home[q] \notin died => name_m[q] # name_m[o]
      BY <2>4, <3>2, <3>3
    <3>6. Home[q] \notin died => dir'[name_m[q]] = None
      BY <2>2, <3>3, <3>4, <3>5, GenNames DEF SInv, SemTypeOK
    <3>7. QED
      BY <2>2, <3>3, <3>4, <3>6
  <2>7. \A q, u \in Objs : Home[u] = Home[q] /\ pc'[u] # "idle" /\ pc'[q] # "idle" => u = q
    BY <1>2, <2>2 DEF FreshNames
  <2>8. QED
    BY <2>5, <2>6, <2>7 DEF FreshNames
<1>6. CASE \/ GetNamedExists(o) \/ GetNamedOpens(o) \/ GetNamedThrows(o)
           \/ \E p \in Objs : Copy(o, p) \/ Assign(o, p)
           \/ Destroy(o) \/ DestroyAstray(o)
           \/ Post(o) \/ Wait(o) \/ WaitReturns(o)
  <2>1. UNCHANGED <<dir, rands, died>>
    BY <1>6 DEF GetNamedExists, GetNamedOpens, GetNamedThrows, Copy, Assign, Destroy, DestroyAstray,
                Post, Wait, WaitReturns, Put, directory, process, Opened
  <2>2. pc'[o] = "idle" \/ pc[o] # "idle" \/ Free(Home[o])
    BY <1>2, <1>6 DEF GetNamedExists, GetNamedOpens, GetNamedThrows, Copy, Assign, Destroy, DestroyAstray,
                Post, Wait, WaitReturns
  <2>3. \A q \in Objs \ {o} : pc'[q] = pc[q] /\ name_m'[q] = name_m[q]
    BY <1>2, <1>6 DEF GetNamedExists, GetNamedOpens, GetNamedThrows, Copy, Assign, Destroy, DestroyAstray,
                Post, Wait, WaitReturns, Put, object, Gone, Opened
  <2>4. pc'[o] \in {"create", "open"} => pc[o] \in {"create", "open"} /\ name_m'[o] = name_m[o]
    BY <1>2, <1>6 DEF GetNamedExists, GetNamedOpens, GetNamedThrows, Copy, Assign, Destroy, DestroyAstray,
                Post, Wait, WaitReturns, Put, object, Gone, Opened, Free
  <2>5. \A q, u \in Objs : Home[u] = Home[q] /\ pc'[u] # "idle" /\ pc'[q] # "idle" => u = q
    BY <1>2, <2>2, <2>3 DEF FreshNames, Free
  <2>6. \A q \in Objs : pc'[q] \in {"create", "open"} =>
                          pc[q] \in {"create", "open"} /\ name_m'[q] = name_m[q]
    BY <2>3, <2>4
  <2>7. QED
    BY <2>1, <2>5, <2>6 DEF FreshNames
<1>7. QED
  BY <1>1, <1>3, <1>4, <1>5, <1>6

\* So does the end of a process.
LEMMA SemDieFresh == ASSUME SInv, FreshNames, NEW p \in Procs, SemDie(p) PROVE FreshNames'
<1>1. /\ UNCHANGED dir /\ died' = died \cup {p}
      /\ rands' = [rands EXCEPT ![p] = 0] /\ rands \in [Procs -> 0..MaxRand]
  BY DEF SemDie, directory, SInv, SemTypeOK
<1>2. \A o \in Objs : pc'[o] # "idle" => pc'[o] = pc[o] /\ name_m'[o] = name_m[o] /\ Home[o] # p
  BY DEF SemDie, Gone
<1>3. \A o \in Objs : Home[o] \in Procs
  BY SemaphoreAssumption
<1>4. QED
  BY <1>1, <1>2, <1>3 DEF FreshNames
-----------------------------------------------------------------------------
(* Message queues.                                                         *)

\* Ids are given once, and a queue that two objects would remove is one that an
\* object was made for from its id, or that the program has given up.
QInv ==
  /\ key \in [Ids -> Paths \cup {"removed"}] /\ queues \in 0..MaxQueues
  /\ msq_id_m \in [QObjs -> Ids \cup {0, -1}]
  /\ lost \in [QObjs -> BOOLEAN] /\ shared \subseteq Ids /\ byHand \subseteq Ids
  /\ \A o \in QObjs : msq_id_m[o] <= queues
  /\ \A o, p \in QObjs :
       o # p /\ There(o) /\ ~lost[o] /\ ~lost[p] /\ msq_id_m[o] = msq_id_m[p] =>
         msq_id_m[o] \in shared \cup byHand \cup {-1}
  /\ QueueStays

\* It holds at first.
LEMMA QueueInitInv == QueueInit => QInv
  BY QueueAssumption DEF QueueInit, QInv, Ids, There, QueueStays

\* The end of a process preserves it.
LEMMA QueueDieInv == ASSUME QInv, NEW p, QueueDie(p) PROVE QInv'
  BY QueueAssumption DEF QueueDie, Vanish, kernelQueues, QInv, There, QueueStays, Lives, Ids

\* A new queue has an id that no object has.
LEMMA MakeQueueInv ==
  ASSUME QInv, NEW o \in QObjs, NEW path \in Paths, Get(path), UNCHANGED <<lost, shared>>,
         msq_id_m' = [msq_id_m EXCEPT ![o] = queues + 1],
         byHand \subseteq byHand', byHand' \subseteq Ids
  PROVE QInv'
<1> USE QueueAssumption DEF Get, Ids
<1>1. queues + 1 \in Ids /\ queues' = queues + 1 /\ \A p \in QObjs : msq_id_m[p] # queues + 1
  BY DEF QInv
<1>2. key'[queues + 1] # "removed" /\ \A i \in Ids \ {queues + 1} : key'[i] = key[i]
  BY <1>1 DEF QInv
<1>3. key' \in [Ids -> Paths \cup {"removed"}] /\ queues' \in 0..MaxQueues
      /\ msq_id_m' \in [QObjs -> Ids \cup {0, -1}]
      /\ \A p \in QObjs : msq_id_m'[p] <= queues'
  BY <1>1 DEF QInv
<1>4. msq_id_m'[o] = queues + 1 /\ \A p \in QObjs \ {o} : msq_id_m'[p] = msq_id_m[p]
  BY DEF QInv
<1>5. \A q, p \in QObjs :
        q # p /\ There(q)' /\ ~lost'[q] /\ ~lost'[p] /\ msq_id_m'[q] = msq_id_m'[p] =>
          msq_id_m'[q] \in shared' \cup byHand' \cup {-1}
  BY <1>1, <1>4 DEF QInv, There
<1>6. QueueStays'
  BY <1>1, <1>2, <1>4 DEF QInv, QueueStays, There, Lives
<1>7. QED
  BY <1>3, <1>5, <1>6 DEF QInv

\* A step that gives the objects no ids that they had not, and removes no queue but
\* one that the program gives up.
LEMMA RemovedInv ==
  ASSUME QInv, NEW i \in Ids \cup {-1}, IF Lives(i) THEN Removed(i) ELSE UNCHANGED kernelQueues,
         UNCHANGED shared, lost' \in [QObjs -> BOOLEAN],
         byHand \subseteq byHand', byHand' \subseteq Ids,
         msq_id_m' \in [QObjs -> Ids \cup {0, -1}],
         \A p \in QObjs : There(p)' => msq_id_m'[p] = msq_id_m[p] /\ lost'[p] = lost[p],
         \A p \in QObjs : There(p)' /\ ~lost[p] /\ msq_id_m[p] = i => i \in shared \cup byHand' \cup {-1}
  PROVE QInv'
<1> USE QueueAssumption DEF There, Ids
<1>1. key' \in [Ids -> Paths \cup {"removed"}] /\ UNCHANGED queues
      /\ \A j \in Ids \ {i} : key'[j] = key[j]
  BY DEF QInv, Removed, kernelQueues, Lives
<1>2. \A p \in QObjs : msq_id_m'[p] <= queues'
  BY <1>1 DEF QInv
<1>3. \A q, p \in QObjs :
        q # p /\ There(q)' /\ ~lost'[q] /\ ~lost'[p] /\ msq_id_m'[q] = msq_id_m'[p] =>
          msq_id_m'[q] \in shared' \cup byHand' \cup {-1}
  BY DEF QInv
<1>4. QueueStays'
  BY <1>1 DEF QInv, QueueStays, Lives
<1>5. QED
  BY <1>1, <1>2, <1>3, <1>4 DEF QInv

\* Every step of a program preserves it.
LEMMA QueueStepInv == ASSUME QInv, QueueStep PROVE QInv'
<1> USE QueueAssumption
<1>1. PICK o \in QObjs :
        \/ \E path \in Paths : MakeQueue(o, path) \/ Create(o, path)
        \/ \E i \in Ids : AttachQueue(o, i)
        \/ \E p \in QObjs : CopyQueue(o, p) \/ AssignQueue(o, p)
        \/ Destory(o) \/ DestroyQueue(o) \/ DestroyLost(o)
        \/ \E t \in Wants : SetMessageType(o, t)
        \/ \E t \in Types : Send(o, t)
        \/ Recv(o) \/ RecvReturns(o) \/ RecvThrows(o)
  BY DEF QueueStep
<1>2. CASE \E path \in Paths : MakeQueue(o, path)
  BY <1>2, MakeQueueInv DEF MakeQueue, QInv
<1>3. CASE \E path \in Paths : Create(o, path)
  <2>1. PICK path \in Paths : Create(o, path)
    BY <1>3
  <2>2. byHand \subseteq byHand' /\ byHand' \subseteq Ids /\ UNCHANGED <<lost, shared>>
    <3>1. byHand' = (byHand \cup {msq_id_m[o]}) \ {-1} /\ UNCHANGED <<lost, shared>>
      BY <2>1 DEF Create
    <3>2. msq_id_m[o] \in Ids \cup {-1} /\ byHand \subseteq Ids /\ -1 \notin Ids
      BY <2>1 DEF Create, There, QInv, Ids
    <3>3. QED
      BY <3>1, <3>2
  <2>3. CASE Get(path) /\ msq_id_m' = [msq_id_m EXCEPT ![o] = queues + 1]
    BY <2>2, <2>3, MakeQueueInv
  <2>4. CASE msq_id_m' = [msq_id_m EXCEPT ![o] = -1] /\ UNCHANGED kernelQueues
    BY <2>2, <2>4 DEF QInv, QueueStays, There, Lives, kernelQueues, Ids
  <2>5. QED
    BY <2>1, <2>3, <2>4 DEF Create
<1>4. CASE \E i \in Ids : AttachQueue(o, i)
  BY <1>4 DEF AttachQueue, kernelQueues, QInv, QueueStays, There, Lives, Ids
<1>5. CASE \E p \in QObjs : CopyQueue(o, p) \/ AssignQueue(o, p)
  <2>1. PICK p \in QObjs : CopyQueue(o, p) \/ AssignQueue(o, p)
    BY <1>5
  <2>2. /\ msq_id_m' = [msq_id_m EXCEPT ![o] = msq_id_m[p]]
        /\ lost' = [lost EXCEPT ![o] = TRUE]
        /\ UNCHANGED <<key, queues, shared, byHand>>
    BY <2>1 DEF CopyQueue, AssignQueue, kernelQueues
  <2>3. msq_id_m' \in [QObjs -> Ids \cup {0, -1}] /\ lost' \in [QObjs -> BOOLEAN]
        /\ \A q \in QObjs : msq_id_m'[q] <= queues
    BY <2>2 DEF QInv
  <2>4. \A q \in QObjs : ~lost'[q] => q # o /\ ~lost[q] /\ msq_id_m'[q] = msq_id_m[q]
    BY <2>2 DEF QInv
  <2>5. QueueStays'
    BY <2>2, <2>4 DEF QInv, QueueStays, There, Lives
  <2>6. QED
    BY <2>2, <2>3, <2>4, <2>5 DEF QInv, There
<1>6. CASE Destory(o)
  <2>1. /\ IF Lives(msq_id_m[o]) THEN Removed(msq_id_m[o]) ELSE UNCHANGED kernelQueues
        /\ byHand' = (byHand \cup {msq_id_m[o]}) \ {-1} /\ UNCHANGED <<msq_id_m, lost, shared>>
    BY <1>6 DEF Destory, queueObjects
  <2>2. msq_id_m[o] \in Ids \cup {-1} /\ byHand \subseteq Ids /\ -1 \notin Ids
    BY <1>6 DEF Destory, There, QInv, Ids
  <2>3. byHand \subseteq byHand' /\ byHand' \subseteq Ids /\ msq_id_m[o] \in byHand' \cup {-1}
    BY <2>1, <2>2
  <2>4. QED
    BY <2>1, <2>2, <2>3, RemovedInv DEF QInv
<1>7. CASE DestroyQueue(o)
  <2>1. msq_id_m[o] \in Ids \cup {-1} /\ ~lost[o] /\ UNCHANGED <<shared, byHand>>
        /\ IF Lives(msq_id_m[o]) THEN Removed(msq_id_m[o]) ELSE UNCHANGED kernelQueues
    BY <1>7 DEF DestroyQueue, There, QInv
  <2>2. msq_id_m' \in [QObjs -> Ids \cup {0, -1}] /\ lost' \in [QObjs -> BOOLEAN]
    BY <1>7 DEF DestroyQueue, Vanish, QInv
  <2>3. \A p \in QObjs : There(p)' => p # o /\ msq_id_m'[p] = msq_id_m[p] /\ lost'[p] = lost[p]
    BY <1>7 DEF DestroyQueue, Vanish, There, QInv
  <2>4. \A p \in QObjs : There(p)' /\ ~lost[p] /\ msq_id_m[p] = msq_id_m[o] =>
                           msq_id_m[o] \in shared \cup byHand' \cup {-1}
    BY <1>7, <2>1, <2>3 DEF DestroyQueue, There, QInv
  <2>5. QED
    BY <2>1, <2>2, <2>3, <2>4, RemovedInv DEF QInv
<1>8. CASE DestroyLost(o)
  BY <1>8 DEF DestroyLost, Vanish, kernelQueues, QInv, There, QueueStays, Lives, Ids
<1>9. CASE \/ \E t \in Wants : SetMessageType(o, t)
           \/ \E t \in Types : Send(o, t)
           \/ Recv(o) \/ RecvReturns(o) \/ RecvThrows(o)
  <2>1. UNCHANGED <<key, queues, msq_id_m, lost, shared, byHand>>
    BY <1>9 DEF SetMessageType, Send, Recv, RecvReturns, RecvThrows, kernelQueues, queueObjects
  <2>2. QED
    BY <2>1 DEF QInv, QueueStays, There, Lives
<1>10. QED
  BY <1>1, <1>2, <1>3, <1>4, <1>5, <1>6, <1>7, <1>8, <1>9

-----------------------------------------------------------------------------
(* Both, in processes that die.                                            *)

IInv == SInv /\ Covered /\ FreshNames /\ QInv

\* The invariant holds at first, and every step preserves it.
LEMMA InitInv == Init => IInv
<1> SUFFICES ASSUME SemInit, QueueInit PROVE IInv
  BY DEF Init
<1>1. FreshNames
  BY GenNames DEF SemInit, FreshNames
<1>2. QED
  BY <1>1, SemInitInv, QueueInitInv DEF IInv

LEMMA StepInv == IInv /\ [Next]_vars => IInv'
<1> SUFFICES ASSUME IInv, [Next]_vars PROVE IInv'
  OBVIOUS
<1>1. UNCHANGED semVars => (SInv /\ Covered /\ FreshNames)'
  <2>1. SUFFICES ASSUME UNCHANGED semVars PROVE SInv' /\ Covered' /\ FreshNames'
    OBVIOUS
  <2> USE <2>1 DEF semVars, directory, object, process, IInv
  <2>2. SInv'
    BY DEF SInv, SemTypeOK, Places, Directory, Named, NameStays
  <2>3. Covered'
    BY FewerCovered DEF Openers
  <2>4. FreshNames'
    BY DEF FreshNames
  <2>5. QED
    BY <2>2, <2>3, <2>4
<1>2. UNCHANGED queueVars => QInv'
  BY DEF queueVars, kernelQueues, queueObjects, IInv, QInv, QueueStays, There, Lives
<1>3. SemStep => (SInv /\ Covered /\ FreshNames)'
  BY SemStepInv, SemStepCovered, SemStepFresh DEF IInv
<1>4. QueueStep => QInv'
  BY QueueStepInv DEF IInv
<1>5. ASSUME NEW p \in Procs, Die(p) PROVE IInv'
  BY <1>1, <1>2, <1>5, SemDieInv, SemDieCovered, SemDieFresh, QueueDieInv DEF Die, IInv
<1>6. QED
  BY <1>1, <1>2, <1>3, <1>4, <1>5 DEF Next, vars, IInv

\* The inductive invariant of the semaphores and queues.
THEOREM Invariant == Spec => []IInv
  BY InitInv, StepInv, PTL DEF Spec

\* The objects of one name are one semaphore, whose value no deletion, copy or death
\* starts anew.
THEOREM OneSemaphoreHolds == Spec => []OneSemaphore
<1>1. IInv => OneSemaphore
  BY DEF IInv, SInv, SemTypeOK, Named, Directory, Made, OneSemaphore
<1>2. QED
  BY <1>1, Invariant, PTL

\* The constructor that found a name taken finds it still there.
THEOREM NameStaysHolds == Spec => []NameStays
<1>1. IInv => NameStays
  BY DEF IInv, SInv
<1>2. QED
  BY <1>1, Invariant, PTL

\* No copy, made or deleted, closes the semaphore of the object that opened it.
THEOREM OpenerUsesHolds == Spec => []OpenerUses
<1>1. ASSUME IInv, NEW o \in Objs, Made(o), ~astray[o] PROVE Usable(o)
  <2>1. sem_m[o] \in Sems /\ Home[o] \in Procs /\ opens[Home[o]][sem_m[o]] \in Nat
    BY <1>1, SemaphoreAssumption DEF IInv, SInv, SemTypeOK, Made
  <2>2. o \in Openers(Home[o], sem_m[o])
    BY <1>1 DEF Openers
  <2>3. Cardinality(Openers(Home[o], sem_m[o])) # 0
    BY <2>2, OpenersFinite, FS_EmptySet
  <2>4. Cardinality(Openers(Home[o], sem_m[o])) <= opens[Home[o]][sem_m[o]]
    BY <1>1, <2>1 DEF IInv, Covered
  <2>5. QED
    BY <1>1, <2>1, <2>3, <2>4, OpenersFinite DEF Usable
<1>2. IInv => OpenerUses
  BY <1>1 DEF OpenerUses
<1>3. QED
  BY <1>2, Invariant, PTL

\* An unnamed semaphore is new, but in a process whose pid another had before.
THEOREM UnnamedIsNewHolds == Spec => []UnnamedIsNew
<1>1. IInv => UnnamedIsNew
  BY DEF IInv, SInv, NameStays, FreshNames, UnnamedIsNew
<1>2. QED
  BY <1>1, Invariant, PTL

\* The queue of an object stays while the object does.
THEOREM QueueStaysHolds == Spec => []QueueStays
<1>1. IInv => QueueStays
  BY DEF IInv, QInv
<1>2. QED
  BY <1>1, Invariant, PTL
=============================================================================
