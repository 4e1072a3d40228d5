------------------------------ MODULE SpanPool ------------------------------
(***************************************************************************)
(* What the span caches of rpmalloc promise the heaps: a span of pages is  *)
(* not mapped, spare (in some cache), or used by one heap, and a heap is   *)
(* only ever given a span no other heap uses.  RpSpanCache implements it.  *)
(***************************************************************************)
CONSTANTS Thread, Span

VARIABLES
  mapped,  \* the spans obtained from the system
  used     \* used[t]: the spans the heap of thread t has blocks in

spvars == <<mapped, used>>

InUse == UNION {used[t] : t \in Thread}

SPInit == mapped = {} /\ used = [t \in Thread |-> {}]

\* From a cache, or newly mapped.
Obtain(t, s) ==
  /\ s \notin InUse
  /\ mapped' = mapped \cup {s}
  /\ used' = [used EXCEPT ![t] = @ \cup {s}]

Return(t, s) ==
  /\ s \in used[t]
  /\ used' = [used EXCEPT ![t] = @ \ {s}]
  /\ UNCHANGED mapped

Unmap(S) ==
  /\ S \subseteq mapped \ InUse
  /\ mapped' = mapped \ S
  /\ UNCHANGED used

SPNext ==
  \/ \E t \in Thread, s \in Span : Obtain(t, s) \/ Return(t, s)
  \/ \E S \in SUBSET Span : Unmap(S)

SPSpec == SPInit /\ [][SPNext]_spvars
=============================================================================
