---------------------------- MODULE AtomicStack ----------------------------
(***************************************************************************)
(* What SmallAlloc::utility::FreeListAtomic promises its callers: a stack  *)
(* whose push, pop and popAll each take effect at one instant, however the *)
(* threads interleave.  FreeListAtomic.tla is shown to implement it.       *)
(*                                                                         *)
(* A node is a piece of memory somebody owns.  A thread owns the nodes it  *)
(* may still write; a push takes one away from it, and a pop (or a walk    *)
(* over the chain a popAll returned) gives one to the caller.              *)
(***************************************************************************)
EXTENDS Sequences

CONSTANTS
  Node,   \* the nodes that circulate
  Proc,   \* the threads
  Null    \* the null pointer

VARIABLES
  stack,    \* the nodes on the stack, the top first
  owned,    \* owned[p]: the nodes thread p may write and push
  pending,  \* pending[p]: the node p's push call is about to insert, or Null
  batch     \* batch[p]: what is left of the chain p's popAll call returned

avars == <<stack, owned, pending, batch>>

AInit ==
  /\ stack = <<>>
  /\ owned \in [Proc -> SUBSET Node]
  /\ \A p, q \in Proc : p # q => owned[p] \cap owned[q] = {}
  /\ pending = [p \in Proc |-> Null]
  /\ batch = [p \in Proc |-> <<>>]

ACall(p, n) ==
  /\ pending[p] = Null
  /\ n \in owned[p]
  /\ owned' = [owned EXCEPT ![p] = @ \ {n}]
  /\ pending' = [pending EXCEPT ![p] = n]
  /\ UNCHANGED <<stack, batch>>

APush(p) ==
  /\ pending[p] # Null
  /\ stack' = <<pending[p]>> \o stack
  /\ pending' = [pending EXCEPT ![p] = Null]
  /\ UNCHANGED <<owned, batch>>

APop(p) ==
  /\ stack # <<>>
  /\ owned' = [owned EXCEPT ![p] = @ \cup {Head(stack)}]
  /\ stack' = Tail(stack)
  /\ UNCHANGED <<pending, batch>>

APopAll(p) ==
  /\ stack # <<>>
  /\ batch[p] = <<>>
  /\ batch' = [batch EXCEPT ![p] = stack]
  /\ stack' = <<>>
  /\ UNCHANGED <<owned, pending>>

AWalk(p) ==
  /\ batch[p] # <<>>
  /\ owned' = [owned EXCEPT ![p] = @ \cup {Head(batch[p])}]
  /\ batch' = [batch EXCEPT ![p] = Tail(@)]
  /\ UNCHANGED <<stack, pending>>

ANext ==
  \E p \in Proc :
     \/ \E n \in Node : ACall(p, n)
     \/ APush(p)
     \/ APop(p)
     \/ APopAll(p)
     \/ AWalk(p)

ASpec == AInit /\ [][ANext]_avars
=============================================================================
