----------------------------- MODULE Semaphore -----------------------------
(***************************************************************************)
(* The named POSIX semaphores of src/src/IPC/Semaphore.cpp: processes make   *)
(* Semaphore objects by a name they share, or by one that GenName makes      *)
(* from their pid, copy, use and delete them, and die.  A semaphore, its     *)
(* name and its value stay in the kernel, for nothing unlinks them.          *)
(***************************************************************************)
EXTENDS Integers, FiniteSets

CONSTANTS
  Procs,      \* the pids; a process that died is followed by another of its pid
  Objs,       \* the places of Semaphore objects
  Home,       \* the process that each of them is in
  Sems,       \* what the kernel's semaphores are made of
  Given,      \* the names programs give
  Values,     \* the initial values programs ask for
  MaxRand,    \* a bound: how often a process calls rand()
  MaxValue,   \* a bound: how far a semaphore is posted
  MaxOpens,   \* a bound: how often a process opens one without closing it
  None

ASSUME SemaphoreAssumption ==
  /\ IsFiniteSet(Objs) /\ Home \in [Objs -> Procs]
  /\ Values \subseteq Nat
  /\ MaxRand \in Nat /\ MaxValue \in Nat /\ MaxOpens \in Nat
  /\ None \notin Sems \cup Given
  /\ \A p \in Procs, r \in 1..MaxRand : <<p, r>> # None /\ <<p, r>> \notin Given

\* GenName: the pid, and what rand() returns the r-th time.
GenName(p, r) == <<p, r>>

Names == Given \cup {GenName(p, r) : p \in Procs, r \in 1..MaxRand}

VARIABLES
  dir,        \* the semaphore that each name names, or None
  value,      \* the value of each semaphore
  owed,       \* what the value under each name should be: the first initial value,
              \* and the posts and waits of all who use the name
  name_m,     \* the name of each object, None where there is none
  sem_m,      \* its semaphore, None until it is open
  val_,       \* the argument of its constructor, while that runs
  astray,     \* its ref_counter does not point to a counter
  opens,      \* how often each process opened each semaphore and did not close it:
              \* the C library has it mapped until this is 0
  rands,      \* how often each process called rand()
  died,       \* the pids of which a process has ended
  pc          \* where the process is in each object: "idle", "create", "open", "wait"

directory == <<dir, value, owed>>
object == <<name_m, sem_m, val_, astray>>
process == <<opens, rands, died>>
semVars == <<directory, object, process, pc>>

SemTypeOK ==
  /\ dir \in [Names -> Sems \cup {None}]
  /\ value \in [Sems -> Int] /\ owed \in [Names -> Int]
  /\ name_m \in [Objs -> Names \cup {None}] /\ sem_m \in [Objs -> Sems \cup {None}]
  /\ val_ \in [Objs -> Int] /\ astray \in [Objs -> BOOLEAN]
  /\ opens \in [Procs -> [Sems -> Nat]]
  /\ rands \in [Procs -> 0..MaxRand] /\ died \subseteq Procs
  /\ pc \in [Objs -> {"idle", "create", "open", "wait"}]

SemInit ==
  /\ dir = [n \in Names |-> None] /\ owed = [n \in Names |-> 0]
  /\ value = [s \in Sems |-> 0]
  /\ name_m = [o \in Objs |-> None] /\ sem_m = [o \in Objs |-> None]
  /\ val_ = [o \in Objs |-> 0] /\ astray = [o \in Objs |-> FALSE]
  /\ opens = [p \in Procs |-> [s \in Sems |-> 0]]
  /\ rands = [p \in Procs |-> 0] /\ died = {}
  /\ pc = [o \in Objs |-> "idle"]
-----------------------------------------------------------------------------
Exists(o) == name_m[o] # None
Made(o) == sem_m[o] # None

\* A process does one thing at a time.
Free(p) == \A o \in Objs : Home[o] = p => pc[o] = "idle"

Gone(os) ==
  /\ name_m' = [o \in Objs |-> IF o \in os THEN None ELSE name_m[o]]
  /\ sem_m' = [o \in Objs |-> IF o \in os THEN None ELSE sem_m[o]]
  /\ val_' = [o \in Objs |-> IF o \in os THEN 0 ELSE val_[o]]
  /\ astray' = [o \in Objs |-> astray[o] /\ o \notin os]

\* The process ends, by itself or at the hand of others, or because it used what is
\* not mapped or freed what was not allocated: the kernel unmaps what it had.
SemDie(p) ==
  /\ Gone({o \in Objs : Home[o] = p})
  /\ pc' = [o \in Objs |-> IF Home[o] = p THEN "idle" ELSE pc[o]]
  /\ opens' = [opens EXCEPT ![p] = [s \in Sems |-> 0]]
  /\ rands' = [rands EXCEPT ![p] = 0] /\ died' = died \cup {p}
  /\ UNCHANGED directory
-----------------------------------------------------------------------------
MayOpen(p) == Free(p) /\ \A s \in Sems : opens[p][s] < MaxOpens

\* Semaphore(name_, val_), up to GetNamed.
Construct(o, g, v) ==
  /\ ~Exists(o) /\ MayOpen(Home[o])
  /\ name_m' = [name_m EXCEPT ![o] = g] /\ val_' = [val_ EXCEPT ![o] = v]
  /\ pc' = [pc EXCEPT ![o] = "create"]
  /\ UNCHANGED <<directory, sem_m, astray, process>>

\* Semaphore(val_): rand() is not seeded, so that every process of a pid makes the
\* same names.
ConstructUnnamed(o, v) ==
  /\ ~Exists(o) /\ MayOpen(Home[o]) /\ rands[Home[o]] < MaxRand
  /\ rands' = [rands EXCEPT ![Home[o]] = @ + 1]
  /\ name_m' = [name_m EXCEPT ![o] = GenName(Home[o], rands[Home[o]] + 1)]
  /\ val_' = [val_ EXCEPT ![o] = v]
  /\ pc' = [pc EXCEPT ![o] = "create"]
  /\ UNCHANGED <<directory, sem_m, astray, opens, died>>

Opened(o, s) ==
  /\ sem_m' = [sem_m EXCEPT ![o] = s] /\ val_' = [val_ EXCEPT ![o] = 0]
  /\ opens' = [opens EXCEPT ![Home[o]][s] = @ + 1]
  /\ pc' = [pc EXCEPT ![o] = "idle"]

\* GetNamed: sem_open with O_CREAT | O_EXCL makes the semaphore.
GetNamedCreates(o, s) ==
  /\ pc[o] = "create" /\ dir[name_m[o]] = None
  /\ \A n \in Names : dir[n] # s
  /\ \A p \in Procs : opens[p][s] = 0
  /\ dir' = [dir EXCEPT ![name_m[o]] = s]
  /\ value' = [value EXCEPT ![s] = val_[o]] /\ owed' = [owed EXCEPT ![name_m[o]] = val_[o]]
  /\ Opened(o, s)
  /\ UNCHANGED <<name_m, astray, rands, died>>

\* EEXIST.
GetNamedExists(o) ==
  /\ pc[o] = "create" /\ dir[name_m[o]] # None
  /\ pc' = [pc EXCEPT ![o] = "open"]
  /\ UNCHANGED <<directory, object, process>>

\* sem_open of the name; the value is what it is.
GetNamedOpens(o) ==
  /\ pc[o] = "open" /\ dir[name_m[o]] # None
  /\ Opened(o, dir[name_m[o]])
  /\ UNCHANGED <<directory, name_m, astray, rands, died>>

\* ENOENT: the constructor throws.
GetNamedThrows(o) ==
  /\ pc[o] = "open" /\ dir[name_m[o]] = None
  /\ Gone({o}) /\ pc' = [pc EXCEPT ![o] = "idle"]
  /\ UNCHANGED <<directory, process>>
-----------------------------------------------------------------------------
\* A variant that shares the counter without counting or moving anything.
BugCopy(o, p) ==
  /\ ~Exists(o) /\ Made(p) /\ Home[o] = Home[p] /\ Free(Home[o])
  /\ name_m' = [name_m EXCEPT ![o] = name_m[p]] /\ sem_m' = [sem_m EXCEPT ![o] = sem_m[p]]
  /\ UNCHANGED <<directory, val_, astray, process, pc>>

\* Semaphore(const Semaphore&): *(ref_counter)++ counts nothing and moves the new
\* object's pointer on, beside the counter.
Copy(o, p) ==
  /\ ~Exists(o) /\ Made(p) /\ Home[o] = Home[p] /\ Free(Home[o])
  /\ name_m' = [name_m EXCEPT ![o] = name_m[p]] /\ sem_m' = [sem_m EXCEPT ![o] = sem_m[p]]
  /\ astray' = [astray EXCEPT ![o] = TRUE]
  /\ UNCHANGED <<directory, val_, process, pc>>

\* o = p: what o had is neither counted down nor closed.
Assign(o, p) ==
  /\ Made(o) /\ Made(p) /\ Home[o] = Home[p] /\ Free(Home[o])
  /\ name_m' = [name_m EXCEPT ![o] = name_m[p]] /\ sem_m' = [sem_m EXCEPT ![o] = sem_m[p]]
  /\ astray' = [astray EXCEPT ![o] = TRUE]
  /\ UNCHANGED <<directory, val_, process, pc>>

\* sem_close; of what is not mapped it fails.
Closed(o) == [opens EXCEPT ![Home[o]][sem_m[o]] = IF @ = 0 THEN 0 ELSE @ - 1]

\* A variant that does what the comment in the destructor asks about: sem_unlink.
BugDestroy(o) ==
  /\ Made(o) /\ ~astray[o] /\ Free(Home[o])
  /\ opens' = Closed(o) /\ dir' = [dir EXCEPT ![name_m[o]] = None]
  /\ Gone({o})
  /\ UNCHANGED <<value, owed, rands, died, pc>>

\* ~Semaphore with a counter, which has never been anything but 1.
Destroy(o) ==
  /\ Made(o) /\ ~astray[o] /\ Free(Home[o])
  /\ opens' = Closed(o)
  /\ Gone({o})
  /\ UNCHANGED <<directory, rands, died, pc>>

\* ~Semaphore of a copy counts down what lies beside a counter.  If that was 1 the
\* semaphore is closed and what was not allocated freed, which ends the process.
DestroyAstray(o) ==
  /\ Made(o) /\ astray[o] /\ Free(Home[o])
  /\ Gone({o})
  /\ UNCHANGED <<directory, process, pc>>
-----------------------------------------------------------------------------
\* A semaphore that the process has closed cannot be used: SemDie stands for that.
Usable(o) == Made(o) /\ opens[Home[o]][sem_m[o]] > 0

Put(s, n, d) ==
  /\ value' = [value EXCEPT ![s] = @ + d]
  /\ owed' = [owed EXCEPT ![n] = @ + d]
  /\ UNCHANGED <<dir, object, process>>

Post(o) ==
  /\ Usable(o) /\ Free(Home[o]) /\ value[sem_m[o]] < MaxValue
  /\ Put(sem_m[o], name_m[o], 1)
  /\ UNCHANGED pc

Wait(o) ==
  /\ Usable(o) /\ Free(Home[o])
  /\ pc' = [pc EXCEPT ![o] = "wait"]
  /\ UNCHANGED <<directory, object, process>>

WaitReturns(o) ==
  /\ pc[o] = "wait" /\ value[sem_m[o]] > 0
  /\ Put(sem_m[o], name_m[o], -1)
  /\ pc' = [pc EXCEPT ![o] = "idle"]
-----------------------------------------------------------------------------
SemStep ==
  \E o \in Objs :
    \/ \E v \in Values : ConstructUnnamed(o, v) \/ \E g \in Given : Construct(o, g, v)
    \/ \E s \in Sems : GetNamedCreates(o, s)
    \/ GetNamedExists(o) \/ GetNamedOpens(o) \/ GetNamedThrows(o)
    \/ \E p \in Objs : Copy(o, p) \/ Assign(o, p)
    \/ Destroy(o) \/ DestroyAstray(o)
    \/ Post(o) \/ Wait(o) \/ WaitReturns(o)

SemNext == SemStep \/ \E p \in Procs : SemDie(p)

SemSpec == SemInit /\ [][SemNext]_semVars
-----------------------------------------------------------------------------
\* However the constructors of several processes interleave, and whoever dies, the
\* objects of one name are one semaphore, and its value is the first initial value
\* and all posts and waits since: deleting the objects, or the death of all who
\* used it, never starts it anew, as sem_unlink in the destructor would.
OneSemaphore ==
  \A o \in Objs : Made(o) =>
    /\ sem_m[o] = dir[name_m[o]]
    /\ value[sem_m[o]] = owed[name_m[o]]

\* GetNamed never finds that a name it could not create does not exist.
NameStays == \A o \in Objs : pc[o] = "open" => dir[name_m[o]] # None

\* An object that opened its semaphore, and was not assigned to, can use it until
\* it is deleted, whatever copies are made of it and deleted.
OpenerUses == \A o \in Objs : Made(o) /\ ~astray[o] => Usable(o)

\* An unnamed semaphore is a new one, with the value it was asked for, unless a
\* process with this pid lived before.
UnnamedIsNew ==
  \A o \in Objs : pc[o] = "open" /\ name_m[o] \notin Given => Home[o] \in died
=============================================================================
