---------------------------- MODULE OrphanHeaps ----------------------------
(***************************************************************************)
(* Which heap a thread allocates from (src/rpmalloc/rpmalloc.c): a thread  *)
(* pops a heap that a finished thread left on the list of orphans, or maps *)
(* a new one and links it in the table by which a heap is found from the   *)
(* id in a span's header; when the thread ends it pushes its heap on the   *)
(* list of orphans.  Both lists change by compare-and-swap, and an action  *)
(* makes one access to a word other threads write.                         *)
(***************************************************************************)
EXTENDS Naturals, FiniteSets

CONSTANTS
  Thread,
  MaxHeaps,      \* bound on the heaps ever mapped
  HeapArraySize  \* HEAP_ARRAY_SIZE

\* A heap is named by its id; 0 is the null pointer.
Heap == 1..MaxHeaps
NoHeap == 0
HeapOrNone == Heap \cup {NoHeap}
Bucket == 0..(HeapArraySize - 1)

VARIABLES
  heap_id,       \* _memory_heap_id, the last id given out
  heaps,         \* _memory_heaps[bucket]: the first heap of the bucket
  next_heap,     \* next_heap[h]
  orphan_heaps,  \* _memory_orphan_heaps
  next_orphan,   \* next_orphan[h]
  thread_heap,   \* _memory_thread_heap of each thread
  at,            \* where thread t is in the functions below
  heap, next     \* their locals

sharedHeapVars == <<heap_id, heaps, next_heap, orphan_heaps, next_orphan>>
heapVars == <<sharedHeapVars, thread_heap, at, heap, next>>

HeapsInit ==
  /\ heap_id = 0
  /\ heaps = [b \in Bucket |-> NoHeap]
  /\ next_heap = [h \in Heap |-> NoHeap]
  /\ orphan_heaps = NoHeap
  /\ next_orphan = [h \in Heap |-> NoHeap]
  /\ thread_heap = [t \in Thread |-> NoHeap]
  /\ at = [t \in Thread |-> "idle"]
  /\ heap = [t \in Thread |-> NoHeap]
  /\ next = [t \in Thread |-> NoHeap]

Goto(t, label) == at' = [at EXCEPT ![t] = label]

BucketOf(id) == id % HeapArraySize

\* The heaps of a bucket, one after the other.
InBucket(b) ==
  LET nth[n \in 0..MaxHeaps] ==
        IF n = 0 THEN heaps[b]
        ELSE IF nth[n - 1] = NoHeap THEN NoHeap ELSE next_heap[nth[n - 1]]
  IN {nth[n] : n \in 0..MaxHeaps} \ {NoHeap}

\* _memory_heap_lookup
HeapLookup(id) == IF id \in InBucket(BucketOf(id)) THEN id ELSE NoHeap
-----------------------------------------------------------------------------
(* rpmalloc_thread_initialize and _memory_allocate_heap *)

\* The first access: is there an orphan?
LoadOrphan(t) ==
  /\ heap' = [heap EXCEPT ![t] = orphan_heaps]
  /\ Goto(t, IF orphan_heaps = NoHeap THEN "map" ELSE "next")
  /\ UNCHANGED <<sharedHeapVars, thread_heap, next>>

ThreadInitialize(t) ==
  /\ at[t] = "idle"
  /\ thread_heap[t] = NoHeap
  /\ LoadOrphan(t)

ReadNextOrphan(t) ==
  /\ at[t] = "next"
  /\ next' = [next EXCEPT ![t] = next_orphan[heap[t]]]
  /\ Goto(t, "pop")
  /\ UNCHANGED <<sharedHeapVars, thread_heap, heap>>

Owns(t, h) ==
  /\ thread_heap' = [thread_heap EXCEPT ![t] = h]
  /\ heap' = [heap EXCEPT ![t] = NoHeap]
  /\ next' = [next EXCEPT ![t] = NoHeap]
  /\ Goto(t, "idle")

PopOrphan(t) ==
  /\ at[t] = "pop"
  /\ orphan_heaps = heap[t]
  /\ orphan_heaps' = next[t]
  /\ next_orphan' = [next_orphan EXCEPT ![heap[t]] = NoHeap]
  /\ Owns(t, heap[t])
  /\ UNCHANGED <<heap_id, heaps, next_heap>>

\* The swap failed: the loop loads the head again.
PopFails(t) ==
  /\ at[t] = "pop"
  /\ orphan_heaps # heap[t]
  /\ heap' = [heap EXCEPT ![t] = orphan_heaps]
  /\ next' = [next EXCEPT ![t] = NoHeap]
  /\ Goto(t, IF orphan_heaps = NoHeap THEN "map" ELSE "next")
  /\ UNCHANGED <<sharedHeapVars, thread_heap>>

\* A new heap with the next id.  Ids are 32 bits wide and do not wrap here, so
\* the lookup of an id already taken finds nothing.
MapHeap(t) ==
  /\ at[t] = "map"
  /\ heap_id < MaxHeaps
  /\ heap_id' = heap_id + 1
  /\ HeapLookup(heap_id') = NoHeap
  /\ heap' = [heap EXCEPT ![t] = heap_id']
  /\ Goto(t, "link")
  /\ UNCHANGED <<heaps, next_heap, orphan_heaps, next_orphan, thread_heap, next>>

\* Load the head of the bucket and store it as the new heap's next.
LinkHeap(t) ==
  /\ at[t] = "link"
  /\ next' = [next EXCEPT ![t] = heaps[BucketOf(heap[t])]]
  /\ next_heap' = [next_heap EXCEPT ![heap[t]] = heaps[BucketOf(heap[t])]]
  /\ Goto(t, "swap")
  /\ UNCHANGED <<heap_id, heaps, orphan_heaps, next_orphan, thread_heap, heap>>

\* Mutant (of the definition after it): the new heap replaces the bucket
\* without comparing.
SwapBucketBlindly(t) ==
  /\ at[t] = "swap"
  /\ heaps' = [heaps EXCEPT ![BucketOf(heap[t])] = heap[t]]
  /\ Owns(t, heap[t])
  /\ UNCHANGED <<heap_id, next_heap, orphan_heaps, next_orphan>>

SwapBucket(t) ==
  /\ at[t] = "swap"
  /\ heaps[BucketOf(heap[t])] = next[t]
  /\ heaps' = [heaps EXCEPT ![BucketOf(heap[t])] = heap[t]]
  /\ Owns(t, heap[t])
  /\ UNCHANGED <<heap_id, next_heap, orphan_heaps, next_orphan>>

SwapBucketFails(t) ==
  /\ at[t] = "swap"
  /\ heaps[BucketOf(heap[t])] # next[t]
  /\ next' = [next EXCEPT ![t] = NoHeap]
  /\ Goto(t, "link")
  /\ UNCHANGED <<sharedHeapVars, thread_heap, heap>>
-----------------------------------------------------------------------------
(* The end of rpmalloc_thread_finalize: the heap becomes an orphan. *)

LinkOrphan(t, h) ==
  /\ next' = [next EXCEPT ![t] = orphan_heaps]
  /\ next_orphan' = [next_orphan EXCEPT ![h] = orphan_heaps]
  /\ Goto(t, "push")
  /\ UNCHANGED <<heap_id, heaps, next_heap, orphan_heaps, thread_heap, heap>>

Orphan(t) ==
  /\ at[t] = "idle"
  /\ thread_heap[t] # NoHeap
  /\ LinkOrphan(t, thread_heap[t])

PushOrphan(t) ==
  /\ at[t] = "push"
  /\ orphan_heaps = next[t]
  /\ orphan_heaps' = thread_heap[t]
  /\ Owns(t, NoHeap)
  /\ UNCHANGED <<heap_id, heaps, next_heap, next_orphan>>

PushFails(t) ==
  /\ at[t] = "push"
  /\ orphan_heaps # next[t]
  /\ LinkOrphan(t, thread_heap[t])
-----------------------------------------------------------------------------
HeapStep(t) ==
  \/ ReadNextOrphan(t) \/ PopOrphan(t) \/ PopFails(t)
  \/ MapHeap(t) \/ LinkHeap(t) \/ SwapBucket(t) \/ SwapBucketFails(t)
  \/ PushOrphan(t) \/ PushFails(t)

HeapsNext == \E t \in Thread : ThreadInitialize(t) \/ Orphan(t) \/ HeapStep(t)

HeapsSpec == HeapsInit /\ [][HeapsNext]_heapVars
-----------------------------------------------------------------------------
\* "A memory heap, per thread" (rpmalloc.c:272): no two threads have the same
\* heap, whose lists are changed with no synchronisation.
OneOwner ==
  \A t, u \in Thread : t # u /\ thread_heap[t] # NoHeap => thread_heap[t] # thread_heap[u]

\* The id in a span's header leads to its heap: every heap a thread has or
\* left to the orphans is found, though heaps are linked in the same bucket
\* at the same time (rpmalloc.c:1025-1030, 434-444).
HeapsFound ==
  /\ \A t \in Thread : thread_heap[t] # NoHeap => HeapLookup(thread_heap[t]) = thread_heap[t]
  /\ orphan_heaps # NoHeap => HeapLookup(orphan_heaps) = orphan_heaps
=============================================================================
