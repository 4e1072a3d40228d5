----------------------------- MODULE MCRpHeap -----------------------------
(***************************************************************************)
(* Small instances of RpHeap for TLC.  One run explores several workloads, *)
(* each with few spans, so that their state spaces add up.                 *)
(***************************************************************************)
EXTENDS RpHeap

CONSTANTS
  t1, t2,
  a1, b1, b2,       \* spans of 64 KiB
  d1, d2, e1, f1    \* of two units of 64 KiB, of three and of four

Units == a1 :> 1 @@ b1 :> 1 @@ b2 :> 1 @@ d1 :> 2 @@ d2 :> 2 @@ e1 :> 3 @@ f1 :> 4

\* Class 0 has three blocks in a span, class 1 two; then come the large ones.
Blocks == 0 :> 3 @@ 1 :> 2

Workloads ==
  { \* one span of three blocks that is shared, deferred, orphaned and adopted
    [spans |-> {a1}, asks |-> {0}, ends |-> TRUE],
    \* one span that changes its class
    [spans |-> {a1}, asks |-> {0, 1}, ends |-> FALSE],
    \* two spans, for small blocks and for large ones of one span
    [spans |-> {b1, b2}, asks |-> {1, 2}, ends |-> FALSE],
    \* large spans that travel through the global cache in lists
    [spans |-> {d1, d2}, asks |-> {3}, ends |-> TRUE],
    \* a request served from the cache of the next size, and oversized ones
    [spans |-> {e1}, asks |-> {3, 4}, ends |-> TRUE],
    [spans |-> {a1, f1}, asks |-> {2, 5}, ends |-> TRUE] }

Symmetry == Permutations({t1, t2}) \cup Permutations({b1, b2})
=============================================================================
