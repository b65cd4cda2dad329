--------------------------- MODULE SharedHandle ---------------------------
(***************************************************************************)
(* What the reference-counted classes of libmo (Socket and its children,    *)
(* Semaphore, MessageQueue) promise: objects share a resource by copying    *)
(* and assigning, and the resource is open exactly as long as an object     *)
(* holds it.  There is no counter here, only who holds what.                *)
(***************************************************************************)
CONSTANTS Objs,             \* the objects of the class
          Resources,        \* what they can hold, Null not among it
          Null              \* the value of an object that does not exist

VARIABLES holds,            \* the resource each object holds, or Null
          open,             \* the resources that are open
          by_hand           \* a resource was closed by other means

shVars == <<holds, open, by_hand>>

Held(h) == {h[o] : o \in Objs} \ {Null}

Init == holds = [o \in Objs |-> Null] /\ open = {} /\ by_hand = FALSE

\* An object comes to hold r, or to hold nothing; what nobody holds is closed.
Become(o, r) == /\ holds' = [holds EXCEPT ![o] = r]
                /\ open' = Held(holds')

Acquire(o) == /\ holds[o] = Null
              /\ \E r \in Resources \ open : Become(o, r)
Share(o, p) == holds[o] = Null /\ holds[p] # Null /\ Become(o, holds[p])
Replace(o, p) == holds[o] # Null /\ holds[p] # Null /\ Become(o, holds[p])
Drop(o) == holds[o] # Null /\ Become(o, Null)

Change == \E o \in Objs : \/ Acquire(o) \/ Drop(o)
                          \/ \E p \in Objs : Share(o, p) \/ Replace(o, p)

\* Closing a resource that objects hold ends the promise.
Next == \/ Change /\ UNCHANGED by_hand
        \/ by_hand' = TRUE

Spec == Init /\ [][Next]_shVars
===========================================================================
