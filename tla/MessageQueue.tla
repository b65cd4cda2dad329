--------------------------- MODULE MessageQueue ---------------------------
(***************************************************************************)
(* The System V message queues of src/src/IPC/MessageQueue.cpp: processes    *)
(* make MessageQueue objects from a path, which makes a queue, or from the   *)
(* id of a queue that another object made, copy and use them, and die.  A    *)
(* queue stays in the kernel until somebody removes it.                      *)
(***************************************************************************)
EXTENDS Integers, Sequences, SequencesExt

CONSTANTS
  QObjs,      \* the places of MessageQueue objects
  QHome,      \* the process, a pid, that each of them is in
  Paths,      \* the paths programs give, "" among them or not
  Types,      \* the types of messages that are sent
  Wants,      \* the types that receivers ask for, 0 for any
  Choosers,   \* a bound: the objects that ask for one
  MaxQueues,  \* a bound: the queues the kernel makes
  Capacity    \* how many messages a queue holds

ASSUME QueueAssumption ==
  /\ DOMAIN QHome = QObjs
  /\ "removed" \notin Paths
  /\ Types \subseteq Nat \ {0} /\ Wants \subseteq Nat
  /\ MaxQueues \in Nat /\ Capacity \in Nat

Ids == 1..MaxQueues

VARIABLES
  key,        \* the key of each queue: the path it was made from, or "removed"
  content,    \* the messages in it: the types, which is what receivers choose by
  queues,     \* how many were made
  msq_id_m,   \* the id each object has; 0 where there is no object, -1 after a
              \* Create that failed
  msg_type_m, \* the type it receives, 0 for any
  lost,       \* its ref_counter does not point to a counter
  waits,      \* the object is in Recv
  shared,     \* the queues an object was made for from their id
  byHand      \* those a program removed, or forgot, by a call of Destory or Create

kernelQueues == <<key, content, queues>>
queueObjects == <<msq_id_m, msg_type_m, lost, waits>>
queueVars == <<kernelQueues, queueObjects, shared, byHand>>

QueueTypeOK ==
  /\ key \in [Ids -> Paths \cup {"removed"}]
  /\ content \in [Ids -> Seq(Types)] /\ \A i \in Ids : Len(content[i]) <= Capacity
  /\ queues \in 0..MaxQueues
  /\ msq_id_m \in [QObjs -> Ids \cup {0, -1}]
  /\ msg_type_m \in [QObjs -> Wants \cup {0}]
  /\ lost \in [QObjs -> BOOLEAN] /\ waits \in [QObjs -> BOOLEAN]
  /\ shared \subseteq Ids /\ byHand \subseteq Ids

QueueInit ==
  /\ key = [i \in Ids |-> "removed"] /\ content = [i \in Ids |-> <<>>] /\ queues = 0
  /\ msq_id_m = [o \in QObjs |-> 0] /\ msg_type_m = [o \in QObjs |-> 0]
  /\ lost = [o \in QObjs |-> FALSE] /\ waits = [o \in QObjs |-> FALSE]
  /\ shared = {} /\ byHand = {}
-----------------------------------------------------------------------------
There(o) == msq_id_m[o] # 0
Lives(i) == i \in Ids /\ key[i] # "removed"
AtRest(p) == \A o \in QObjs : QHome[o] = p => ~waits[o]

\* The queue and the messages in it are gone.
Removed(i) ==
  /\ key' = [key EXCEPT ![i] = "removed"] /\ content' = [content EXCEPT ![i] = <<>>]
  /\ UNCHANGED queues

Vanish(os) ==
  /\ msq_id_m' = [o \in QObjs |-> IF o \in os THEN 0 ELSE msq_id_m[o]]
  /\ msg_type_m' = [o \in QObjs |-> IF o \in os THEN 0 ELSE msg_type_m[o]]
  /\ lost' = [o \in QObjs |-> lost[o] /\ o \notin os]
  /\ waits' = [o \in QObjs |-> waits[o] /\ o \notin os]

\* The end of a process removes no queue.
QueueDie(p) ==
  /\ Vanish({o \in QObjs : QHome[o] = p})
  /\ UNCHANGED <<kernelQueues, shared, byHand>>

\* msgget with IPC_CREAT | IPC_EXCL; the key of "" is IPC_PRIVATE, which is never
\* taken.
Taken(path) == path # "" /\ \E i \in Ids : key[i] = path
Get(path) ==
  /\ ~Taken(path) /\ queues < MaxQueues
  /\ queues' = queues + 1 /\ key' = [key EXCEPT ![queues + 1] = path]
  /\ UNCHANGED content

\* MessageQueue(path_): when the path is taken it throws, whoever took it.
MakeQueue(o, path) ==
  /\ ~There(o) /\ AtRest(QHome[o])
  /\ Get(path)
  /\ msq_id_m' = [msq_id_m EXCEPT ![o] = queues + 1]
  /\ UNCHANGED <<msg_type_m, lost, waits, shared, byHand>>

\* MessageQueue(msq_id_) has a counter of its own.
AttachQueue(o, i) ==
  /\ ~There(o) /\ AtRest(QHome[o]) /\ i <= queues
  /\ msq_id_m' = [msq_id_m EXCEPT ![o] = i] /\ shared' = shared \cup {i}
  /\ UNCHANGED <<kernelQueues, msg_type_m, lost, waits, byHand>>

\* Create of an object that exists: the queue it had is forgotten, not removed; if
\* the path is taken it has none.
Create(o, path) ==
  /\ There(o) /\ AtRest(QHome[o])
  /\ \/ Get(path) /\ msq_id_m' = [msq_id_m EXCEPT ![o] = queues + 1]
     \/ Taken(path) /\ msq_id_m' = [msq_id_m EXCEPT ![o] = -1] /\ UNCHANGED kernelQueues
  /\ byHand' = (byHand \cup {msq_id_m[o]}) \ {-1}
  /\ UNCHANGED <<msg_type_m, lost, waits, shared>>

\* IPC_RMID; it fails when the queue is gone.
Destory(o) ==
  /\ There(o) /\ AtRest(QHome[o])
  /\ IF Lives(msq_id_m[o]) THEN Removed(msq_id_m[o]) ELSE UNCHANGED kernelQueues
  /\ byHand' = (byHand \cup {msq_id_m[o]}) \ {-1}
  /\ UNCHANGED <<queueObjects, shared>>

\* A variant that shares the counter without counting or moving anything.
BugCopyQueue(o, p) ==
  /\ ~There(o) /\ There(p) /\ QHome[o] = QHome[p] /\ AtRest(QHome[o])
  /\ msq_id_m' = [msq_id_m EXCEPT ![o] = msq_id_m[p]]
  /\ UNCHANGED <<kernelQueues, msg_type_m, lost, waits, shared, byHand>>

\* MessageQueue(MessageQueue&) and operator =: *(ref_counter)++ counts nothing; the
\* type is any again.
CopyQueue(o, p) ==
  /\ ~There(o) /\ There(p) /\ QHome[o] = QHome[p] /\ AtRest(QHome[o])
  /\ msq_id_m' = [msq_id_m EXCEPT ![o] = msq_id_m[p]]
  /\ lost' = [lost EXCEPT ![o] = TRUE]
  /\ UNCHANGED <<kernelQueues, msg_type_m, waits, shared, byHand>>

AssignQueue(o, p) ==
  /\ There(o) /\ There(p) /\ QHome[o] = QHome[p] /\ AtRest(QHome[o])
  /\ msq_id_m' = [msq_id_m EXCEPT ![o] = msq_id_m[p]]
  /\ msg_type_m' = [msg_type_m EXCEPT ![o] = 0]
  /\ lost' = [lost EXCEPT ![o] = TRUE]
  /\ UNCHANGED <<kernelQueues, waits, shared, byHand>>

\* ~MessageQueue with a counter, which has never been anything but 1.  Of a queue
\* that is gone already it throws, or, compiled for C++11, ends the process.
DestroyQueue(o) ==
  /\ There(o) /\ ~lost[o] /\ AtRest(QHome[o])
  /\ IF Lives(msq_id_m[o]) THEN Removed(msq_id_m[o]) ELSE UNCHANGED kernelQueues
  /\ Vanish({o})
  /\ UNCHANGED <<shared, byHand>>

\* ~MessageQueue of a copy counts down what lies beside a counter; if that was 1 the
\* process ends when it is freed, before the queue is removed.
DestroyLost(o) ==
  /\ There(o) /\ lost[o] /\ AtRest(QHome[o])
  /\ Vanish({o})
  /\ UNCHANGED <<kernelQueues, shared, byHand>>
-----------------------------------------------------------------------------
SetMessageType(o, t) ==
  /\ There(o) /\ o \in Choosers /\ AtRest(QHome[o])
  /\ msg_type_m' = [msg_type_m EXCEPT ![o] = t]
  /\ UNCHANGED <<kernelQueues, msq_id_m, lost, waits, shared, byHand>>

\* IPC_NOWAIT: Send throws when the queue is full, as when it is gone.
Send(o, t) ==
  /\ There(o) /\ AtRest(QHome[o]) /\ Lives(msq_id_m[o])
  /\ Len(content[msq_id_m[o]]) < Capacity
  /\ content' = [content EXCEPT ![msq_id_m[o]] = Append(@, t)]
  /\ UNCHANGED <<key, queues, queueObjects, shared, byHand>>

\* Recv waits, while there is a queue, for the first message of its type.
Recv(o) ==
  /\ There(o) /\ AtRest(QHome[o]) /\ Lives(msq_id_m[o])
  /\ waits' = [waits EXCEPT ![o] = TRUE]
  /\ UNCHANGED <<kernelQueues, msq_id_m, msg_type_m, lost, shared, byHand>>

Wanted(o, n) == msg_type_m[o] \in {0, content[msq_id_m[o]][n]}

RecvReturns(o) ==
  /\ waits[o] /\ Lives(msq_id_m[o])
  /\ LET c == content[msq_id_m[o]]
     IN \E n \in DOMAIN c :
          /\ Wanted(o, n) /\ \A m \in 1..n - 1 : ~Wanted(o, m)
          /\ content' = [content EXCEPT ![msq_id_m[o]] = RemoveAt(c, n)]
  /\ waits' = [waits EXCEPT ![o] = FALSE]
  /\ UNCHANGED <<key, queues, msq_id_m, msg_type_m, lost, shared, byHand>>

\* EIDRM
RecvThrows(o) ==
  /\ waits[o] /\ ~Lives(msq_id_m[o])
  /\ waits' = [waits EXCEPT ![o] = FALSE]
  /\ UNCHANGED <<kernelQueues, msq_id_m, msg_type_m, lost, shared, byHand>>
-----------------------------------------------------------------------------
QueueStep ==
  \E o \in QObjs :
    \/ \E path \in Paths : MakeQueue(o, path) \/ Create(o, path)
    \/ \E i \in Ids : AttachQueue(o, i)
    \/ \E p \in QObjs : CopyQueue(o, p) \/ AssignQueue(o, p)
    \/ Destory(o) \/ DestroyQueue(o) \/ DestroyLost(o)
    \/ \E t \in Wants : SetMessageType(o, t)
    \/ \E t \in Types : Send(o, t)
    \/ Recv(o) \/ RecvReturns(o) \/ RecvThrows(o)

QueueNext == QueueStep \/ \E p \in {QHome[o] : o \in QObjs} : QueueDie(p)

QueueSpec == QueueInit /\ [][QueueNext]_queueVars
-----------------------------------------------------------------------------
\* The queue an object made is there as long as the object is, whatever copies of
\* it are made and deleted and whichever process dies, unless another object was
\* made from its id or the program itself removed or replaced it.
QueueStays ==
  \A o \in QObjs : There(o) /\ ~lost[o] /\ msq_id_m[o] \notin shared \cup byHand \cup {-1}
                     => Lives(msq_id_m[o])
=============================================================================
