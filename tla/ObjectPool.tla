----------------------------- MODULE ObjectPool -----------------------------
(***************************************************************************)
(* What a slab allocator promises its threads, without pages or lists: an  *)
(* object is free, held by one thread, or handed back by remote_free and   *)
(* not yet reclaimed; alloc only hands out free ones.  SlabAllocator.tla   *)
(* is shown to implement it.                                               *)
(***************************************************************************)
CONSTANTS
  Object,  \* every object the allocator could ever hand out
  Thread,  \* the threads
  Owner    \* the thread that allocates and reclaims

VARIABLES
  held,     \* held[t]: the objects thread t may use
  returned  \* the objects remote_free took and no reclaim has freed yet

pvars == <<held, returned>>

InUse == returned \cup UNION {held[t] : t \in Thread}

PInit ==
  /\ held = [t \in Thread |-> {}]
  /\ returned = {}

PAlloc(o) ==
  /\ o \notin InUse
  /\ held' = [held EXCEPT ![Owner] = @ \cup {o}]
  /\ UNCHANGED returned

PFree(o) ==
  /\ o \in held[Owner]
  /\ held' = [held EXCEPT ![Owner] = @ \ {o}]
  /\ UNCHANGED returned

PHandOver(t, u, o) ==
  /\ t # u
  /\ o \in held[t]
  /\ held' = [held EXCEPT ![t] = @ \ {o}, ![u] = @ \cup {o}]
  /\ UNCHANGED returned

PRemoteFree(t, o) ==
  /\ o \in held[t]
  /\ held' = [held EXCEPT ![t] = @ \ {o}]
  /\ returned' = returned \cup {o}

PReclaim(o) ==
  /\ o \in returned
  /\ returned' = returned \ {o}
  /\ UNCHANGED held

PNext ==
  \E o \in Object :
     \/ PAlloc(o)
     \/ PFree(o)
     \/ PReclaim(o)
     \/ \E t \in Thread : PRemoteFree(t, o) \/ \E u \in Thread : PHandOver(t, u, o)

PSpec == PInit /\ [][PNext]_pvars
=============================================================================
