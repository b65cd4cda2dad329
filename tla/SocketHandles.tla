--------------------------- MODULE SocketHandles ---------------------------
(***************************************************************************)
(* The objects of class Socket (src/src/Net/Socket.cpp) and its children    *)
(* TcpClient and TcpListener in one process: each keeps a descriptor and a  *)
(* pointer to a counter that its copies share; the destructor or assignment *)
(* that brings the counter to zero closes the descriptor and frees the      *)
(* counter.  The kernel's descriptor table and the heap cells of the        *)
(* counters are reused, as they are in a long-running server.               *)
(***************************************************************************)
EXTENDS Integers, FiniteSets

CONSTANTS
  Objs,           \* the places where Socket objects are made
  Ctrs,           \* the heap cells that counters are allocated in
  Fds,            \* the descriptor numbers
  Null,           \* no object, hence no counter and no descriptor
  Free,           \* an unused entry of the descriptor table
  Other           \* an entry that other code of the process opened

ASSUME SocketAssumption ==
  /\ IsFiniteSet(Objs)
  /\ Null \notin Ctrs \cup Fds
  /\ Free \notin Ctrs /\ Other \notin Ctrs /\ Free # Other

VARIABLES
  ref_counter,    \* the counter each object points to
  sock_fd,        \* the descriptor each object has
  count,          \* the value of each counter; 0 in a cell that is free
  table,          \* what each descriptor is: the socket that was opened
                  \* together with counter c is c
  by_hand         \* the program has called Close itself

vars == <<ref_counter, sock_fd, count, table, by_hand>>

TypeOK ==
  /\ ref_counter \in [Objs -> Ctrs \cup {Null}]
  /\ sock_fd \in [Objs -> Fds \cup {Null}]
  /\ count \in [Ctrs -> Nat]
  /\ table \in [Fds -> Ctrs \cup {Free, Other}]
  /\ by_hand \in BOOLEAN
  /\ \A o \in Objs : ref_counter[o] = Null <=> sock_fd[o] = Null

Live == {o \in Objs : ref_counter[o] # Null}
Referrers(c) == {o \in Objs : ref_counter[o] = c}

Init ==
  /\ ref_counter = [o \in Objs |-> Null]
  /\ sock_fd = [o \in Objs |-> Null]
  /\ count = [c \in Ctrs |-> 0]
  /\ table \in [Fds -> {Free, Other}]
  /\ by_hand = FALSE
-----------------------------------------------------------------------------
\* new int(1) at a free cell, and the socket() or accept() before it.
Open(o) ==
  \E c \in Ctrs, f \in Fds :
    /\ count[c] = 0 /\ table[f] = Free
    /\ table' = [table EXCEPT ![f] = c]
    /\ count' = [count EXCEPT ![c] = 1]
    /\ ref_counter' = [ref_counter EXCEPT ![o] = c]
    /\ sock_fd' = [sock_fd EXCEPT ![o] = f]
    /\ UNCHANGED by_hand

\* Socket(type_): a failing socket() throws before anything is made.
Construct(o) == ref_counter[o] = Null /\ Open(o)

\* TcpListener::Accept makes a TcpClient of the descriptor accept() returns.
Accept(l, o) == ref_counter[l] # Null /\ ref_counter[o] = Null /\ Open(o)

\* Socket(const Socket&)
Copy(o, p) ==
  /\ ref_counter[o] = Null /\ ref_counter[p] # Null
  /\ ref_counter' = [ref_counter EXCEPT ![o] = ref_counter[p]]
  /\ sock_fd' = [sock_fd EXCEPT ![o] = sock_fd[p]]
  /\ count' = [count EXCEPT ![ref_counter[p]] = @ + 1]
  /\ UNCHANGED <<table, by_hand>>

\* if (!--(*ref_counter)) { Close(); delete ref_counter; }
Released(o) == [count EXCEPT ![ref_counter[o]] = @ - 1]

\* Variants with a bug, for the sensitivity checks: the destructor closes whether
\* or not it is the last, or never.
BugAlwaysClose(o) == [table EXCEPT ![sock_fd[o]] = Free]
BugNeverClose(o) == table

\* close() of the descriptor, whatever it is by now.
TableAfter(o) ==
  IF count[ref_counter[o]] = 1 THEN [table EXCEPT ![sock_fd[o]] = Free] ELSE table

\* Variants: the new reference is not counted; no test for self-assignment.
BugAssignUncounted(o, p) ==
  /\ ref_counter[o] # Null /\ ref_counter[p] # Null
  /\ IF o = p
     THEN UNCHANGED vars
     ELSE /\ table' = TableAfter(o)
          /\ count' = Released(o)
          /\ ref_counter' = [ref_counter EXCEPT ![o] = ref_counter[p]]
          /\ sock_fd' = [sock_fd EXCEPT ![o] = sock_fd[p]]
          /\ UNCHANGED by_hand

BugAssignSelf(o, p) ==
  /\ ref_counter[o] # Null /\ ref_counter[p] # Null
  /\ table' = TableAfter(o)
  /\ count' = [Released(o) EXCEPT ![ref_counter[p]] = @ + 1]
  /\ ref_counter' = [ref_counter EXCEPT ![o] = ref_counter[p]]
  /\ sock_fd' = [sock_fd EXCEPT ![o] = sock_fd[p]]
  /\ UNCHANGED by_hand

\* o = p: what o had is released before p's counter is counted up.
Assign(o, p) ==
  /\ ref_counter[o] # Null /\ ref_counter[p] # Null
  /\ IF o = p
     THEN UNCHANGED vars
     ELSE /\ table' = TableAfter(o)
          /\ count' = [Released(o) EXCEPT ![ref_counter[p]] = @ + 1]
          /\ ref_counter' = [ref_counter EXCEPT ![o] = ref_counter[p]]
          /\ sock_fd' = [sock_fd EXCEPT ![o] = sock_fd[p]]
          /\ UNCHANGED by_hand

\* ~Socket()
Destroy(o) ==
  /\ ref_counter[o] # Null
  /\ table' = TableAfter(o)
  /\ count' = Released(o)
  /\ ref_counter' = [ref_counter EXCEPT ![o] = Null]
  /\ sock_fd' = [sock_fd EXCEPT ![o] = Null]
  /\ UNCHANGED by_hand

\* Close() called by the program: the object keeps the number it closed.
Close(o) ==
  /\ ref_counter[o] # Null
  /\ table' = [table EXCEPT ![sock_fd[o]] = Free]
  /\ by_hand' = TRUE
  /\ UNCHANGED <<ref_counter, sock_fd, count>>

\* The rest of the process opens and closes descriptors too.
OtherOpens(f) == /\ table[f] = Free
                 /\ table' = [table EXCEPT ![f] = Other]
                 /\ UNCHANGED <<ref_counter, sock_fd, count, by_hand>>
OtherCloses(f) == /\ table[f] = Other
                  /\ table' = [table EXCEPT ![f] = Free]
                  /\ UNCHANGED <<ref_counter, sock_fd, count, by_hand>>
-----------------------------------------------------------------------------
Next ==
  \/ \E o \in Objs : Construct(o) \/ Destroy(o) \/ Close(o)
  \/ \E o, p \in Objs : Accept(p, o) \/ Copy(o, p) \/ Assign(o, p)
  \/ \E f \in Fds : OtherOpens(f) \/ OtherCloses(f)

Spec == Init /\ [][Next]_vars
-----------------------------------------------------------------------------
\* After any run of copies, assignments and destructors a counter holds the
\* number of objects that point to it, and is freed with the last of them.
CountIsReferences == \A c \in Ctrs : count[c] = Cardinality(Referrers(c))

\* A descriptor that a Socket opened stays open only while an object has it,
\* whether or not the program closes some by hand.
NoLeak ==
  \A f \in Fds : table[f] \in Ctrs =>
    \E o \in Objs : ref_counter[o] = table[f] /\ sock_fd[o] = f

\* Until the program calls Close itself, each object's descriptor is the socket
\* it was made with: no other object's destructor or assignment closed it.
OwnDescriptor ==
  ~by_hand => \A o \in Live : table[sock_fd[o]] = ref_counter[o]

\* Until the program calls Close itself, a destructor never closes a descriptor
\* that the rest of the program, or a Socket of another counter, has open.
ClosesOnlyItsOwn ==
  [][~by_hand => \A o \in Live : ref_counter'[o] = Null =>
       \A f \in Fds : table'[f] # table[f] => table[f] = ref_counter[o]]_vars

(***************************************************************************)
(* Socket implements SharedHandle until the program calls Close: a socket   *)
(* is open while an object holds it.                                        *)
(***************************************************************************)
SH == INSTANCE SharedHandle WITH
        Resources <- Ctrs, holds <- ref_counter,
        open <- {table[f] : f \in Fds} \ {Free, Other}

ImplementsSharedHandle == SH!Spec
=============================================================================
