# SmallAlloc in TLA+

Specifications, model-checking runs and machine-checked proofs for the
SmallAlloc allocator library: what its parts keep, what each operation does to
it, and what stays true whatever order the calls and the threads come in.

## The system

SmallAlloc is a C++ allocator for small objects, built in layers. Paths are
relative to the repository.

| Component | State it keeps | Operations | Interacts with |
|---|---|---|---|
| `FreeListAtomic` (`include/Utility/IList.h:184-255`) | an atomic head, links inside the nodes | `push`, `pop`, `popAll` | shared by threads; a slab's remote-free list |
| `FreeList`, `ForwardList`, `List` (same file) | head, links inside the nodes | push, pop, remove, move | lists of slab pages and of free buddy blocks |
| `SlabAllocator` (`src/SlabAllocator.cpp`, `include/SlabAllocator.h`) | page headers, first page, lists of usable and full pages, page count, remote list | `alloc`, `free`, `remote_free`, `reclaim_remote_free` | asks a page supplier (callbacks; `BuddyManager` in `Heap`) for aligned pages |
| `BuddyManager` (`src/BuddyManager.cpp`) | a free list per size class, a bitmap per chunk, chunk map, limit, chunk count | `alloc`, `free`, destructor | asks the system (callbacks) for chunks; keeps them in a `PointerHashMap` |
| `BuddyManagerMeta` (`include/BuddyManager/BuddyManagerMeta.h`) | bitmap | bit and buddy arithmetic | both buddy managers |
| `StandAloneBuddyManager` | as `BuddyManager`, one chunk | `alloc`, `free` | none |
| `PointerHashMap` (`src/PointerHashMap.cpp`) | open-addressing table | `insert`, `find`, `erase`, resize | `BuddyManager` |
| `SlabSizeClass.h` | constant tables from sizes to classes and page sizes | lookups | `Heap` |
| `Heap` (`src/Heap.cpp`) | a buddy manager and one slab per class | `alloc`, `free`, `remote_free`, `size` | composes the above |
| `rpmalloc` (`src/rpmalloc/rpmalloc.c`) | a heap per thread (active span and partly used spans of each size class, cached spans, deferred frees), orphan heaps, heap table, global span caches, size classes | malloc interface, collect, thread start and end, finalize | the other allocator that test and benchmark drive; shares nothing with `Heap` |
| benchmark, argparse, tests, catch | none that matters here | | |

Hard behaviours, and what makes each component correct:

* **FreeListAtomic.** Threads overtake each other between loading the head,
  linking and the compare-and-swap; ABA. Correct when the chain from the head
  is always exactly the nodes pushed and not removed, a node is never in two
  hands, and each call takes effect at one instant.
* **SlabAllocator.** An object's first word is client data, the link of the
  remote list and an index of the page's free list in turn. Pages move between
  four places driven by a counter. Correct when no object is handed out twice,
  no page is released while one of its objects is held or queued, and the two
  free lists stay exact.
* **BuddyManager.** Three descriptions of the same fact (bitmap, free lists,
  meta words inside free memory) must agree over long runs of splits and
  merges; half-failed chunk acquisition; an unsigned limit. Correct when blocks
  never overlap, no memory is lost, merging is complete and everything goes
  back to the system.
* **PointerHashMap.** Backward-shift erase with wraparound; resize inside
  insert. Correct when it is a partial function.
* **Lists.** Neighbour pointers after a remove, in memory that clients write
  over between two uses. Correct when the links spell one sequence both ways.
* **StandAloneBuddyManager.** alloc and free recurse over bits and lists that
  must agree at every depth; free's result says when the chunk may go. Correct
  when memory is tiled at every depth and that result is exact.
* **Size tables.** Correct when every size gets the smallest class that fits.
* **Heap.** `remote_free` calls `free` (`src/Heap.cpp:104`), so two threads
  can be inside one slab.
* **rpmalloc.** A block freed by a stranger goes to its owner through a word of
  the block, while the owner works its list off, ends, or is adopted by a third
  thread. A chain of free spans records its length in its first span only, and
  the same header words serve spans in use. The global cache is one word, a
  pointer with a count packed in, under a lock token. Orphan heaps are popped
  with a compare-and-swap. Correct when no block is lost or in two hands, each
  span is where its header says, threads never share a heap, and finalizing
  leaves nothing mapped.

`PROJECT.json` lists the hazards at their lines, with the properties that
would catch each.

## Modules

| Module | What it is |
|---|---|
| `AtomicStack` | abstract: a stack whose operations are instantaneous, and who owns which node |
| `FreeListAtomic`, `FreeListAtomicProofs` | the lock-free list, one action per shared access, and its theorems |
| `ListNodes` | what the intrusive lists have in common: nodes, addresses, words clients write |
| `ForwardList` | the lists of free buddy blocks with their pointers |
| `List` | the circular lists of slab pages with their pointers |
| `SpanList` | rpmalloc's lists of partly used spans with their pointers |
| `SequenceFacts` | lemmas on sequences, finite sets and numbers that the proofs share |
| `ObjectPool` | abstract: an object is free, held by a thread, or on its way back |
| `SlabAllocator`, `SlabAllocatorProofs` | one slab allocator and its threads, over `FreeListAtomic`, and its theorems; those of the size tables of both allocators |
| `Heap` | `Heap` as the clients of one class see it, over `SlabAllocator` |
| `BlockPool` | abstract: blocks handed out never overlap |
| `BuddyManagerMeta`, `BuddyManagerMetaProofs` | size classes, buddies, bitmap positions, and lemmas about them |
| `BuddyManager`, `BuddyManagerProofs` | the buddy allocator over chunks, over `BuddyManagerMeta`, and its theorems |
| `StandAloneBuddyManager` | the buddy allocator of one chunk, over `BuddyManagerMeta` |
| `PartialMap` | abstract: a partial function that changes one pair at a time |
| `PointerHashMap` | the open-addressing table |
| `StructuresProofs` | the theorems about the three lists, the table and the buddy allocator of one chunk |
| `Request` | sizes asked for, one after the other |
| `SlabSizeClass`, `RpSizeClass` | the size tables of the two allocators, over `Request`; their theorems are in `SlabAllocatorProofs` |
| `SpanPool` | abstract: a span is unmapped, spare, or used by one heap |
| `RpSpanCache`, `RpSpanCacheProofs` | rpmalloc's span caches, one action per access to the cache word, and their theorems |
| `OrphanHeaps` | which thread has which heap, the orphans and the heap table |
| `RpHeap`, `RpHeapProofs` | rpmalloc's heaps, blocks and deferred frees, over `OrphanHeaps`, and their theorems |
| `MC...` | small values of the constants for TLC; `MCStructures` and `MCSizes` put modules that do not interact into one run |

Which composes which: `SlabAllocator` conjoins the actions of `FreeListAtomic`;
`Heap` extends `SlabAllocator`; both buddy managers use `BuddyManagerMeta`;
`RpHeap` conjoins the actions of `OrphanHeaps`. The remaining seams are
contracts: `SlabAllocator` assumes of its page supplier what `BuddyManager` is
shown to implement (`IsBlockPool`, pages that are nobody's), `RpHeap` takes a
span from a cache in one step, which `RpSpanCache` implements as `SpanPool`,
and the allocators' lists are sequences, which `ForwardList`, `List` and
`SpanList` are about.

An operator after a comment "Mutant" is a deliberate bug of the kind
the code could have. Nothing uses it; each stands before the definition it
would replace, and for every property of every passing run there is one that
makes TLC report the property violated.

### FreeListAtomic

`m_head` is the atomic, `next[n]` the first word of node `n`, and `pc`, `arg`,
`hd`, `nx` are each thread's position and the locals `node`, `head`, `next`.
An action is one shared access: load, link, swap that succeeds, swap that fails.
`compare_exchange_weak` may fail spuriously (`SpuriousFailure`) in the safety
runs. `content` and `batch` are history variables (the abstract list, the rest
of a detached chain); no action's guard reads them. `owned` is client state: a thread
pushes a node it owns and owns what it pops.

Memory is sequentially consistent in the model. The code uses acquire loads
and release swaps on x86 (it needs `_mm_pause`), where both are at least that
strong for the accesses that matter; weaker processors are not covered.

`pop` dereferences the head it loaded, so with a second consumer it has an
ABA problem. The repository has one popper (`test/testUtility.cpp:168-175`)
or uses `popAll`, which does not dereference. `ConsumerAssumption` is that
contract: a thread that pops is the only consumer; without poppers any number
of threads may drain.

### SlabAllocator

An object is `<<page, slot>>`. `header[g]` has the fields of `SlabPageHeader`;
`word[o]` is the first word of the object: `Data` (the client's), an
`IndexWord` (link of the page's free list) or a pointer or `Null` (link of the
remote list), so the clashes between the three uses are in the model. The
owner's `alloc` and `free` touch nothing another thread touches, so each is one
action with every list move and page release in it. `remote_free` and
`popAll` are the access-by-access actions of `FreeListAtomic`, instantiated
with the objects as nodes and `word` as `next`. Each round of the reclaim loop
is an action: pushes go on between rounds. `HandOver` is the program giving a
pointer to another thread. The page supplier may give any page it has; when it
has none `alloc` returns null and changes nothing, so that call is no action.

`alloc` does not reclaim: the call at `src/SlabAllocator.cpp:106-107` follows a
`return`. It is left out as the code leaves it out. Objects freed remotely
come back only through an explicit `reclaim_remote_free`, so a program that
never calls it makes `alloc` ask for new pages for ever.

The branch at lines 145-148 (keep the page) is in the model and never taken:
the counter it tests includes the page that is being freed.

### BuddyManager

A block is `<<chunk, offset>>`; `bitmap[m]` is the set of one-bits, addressed
with the code's own index formula; `m_freelist[szc]` is the list, top first;
`node_meta[n]` is the meta word at address `n`, which a client overwrites when
it has the memory and which is read back only from listed blocks. The
recursions `alloc_internal` and `free_internal` are written out as the level
they stop at and what they do on each level on the way. When a chunk and its
bookkeeping node go back to the supplier, so does what is written in them. The supplier may refuse
the chunk after it gave the bookkeeping node (`AllocChunkRefused`). Requests
outside the range do nothing and are no action. `Destroy` is the destructor.

`RequestAssumption`: clients ask for powers of two, as the page sizes of
`SlabSizeClass.h` and all tests do. `get_sizeclass` rounds *down*, so any other
request would get a block smaller than it asked for.

### StandAloneBuddyManager

The other buddy allocator has the same arithmetic and one chunk, and here the
recursion is not written out: every recursive call of `alloc` and `free`, and
every return of `alloc`, is an action (`AllocGoesUp`, `AllocSplits`,
`FreeMerges`), with `szc` and `ptr` for the running call's size and block. The
properties therefore speak of every depth, the block in hand included.
`get_allocable_sizes` changes nothing and is left out.

### ForwardList, List and SpanList

All three keep their links in the nodes and have a history variable, the
sequence the list should be (`content`, `ring`, `spans`). The owner of an unlisted
node may write over its words, as the clients of the allocators do, so every
push meets old values. `List` treats its own head as one more node, as
the code does. `SpanList` never writes the first node's `prev_span`, which
therefore holds anything. Nodes are pushed when on no list and removed when on
it; that the allocators keep to this is `FreeSpaceListed`, `PagePlacement` and
`SpanPlacement`, and what is shown about these modules lets `BuddyManager`,
`SlabAllocator` and `RpHeap` treat their lists as sequences. `FreeList`, which
only a test uses, is not modelled.

### PointerHashMap

`get_bucket` is one expression (it reads only), each iteration of the loops of
`erase` and `resize` is an action, so the properties hold between iterations.
`resize` calls `insert`, which could call `resize`: the model has no such
nesting, and `ResizeIsEnough` is what makes that right. A null key comes from
re-inserting empty cells and is also tried from outside. The number of buckets
must be a power of two (the masks) and one entry must fit
(`TableAssumption`); the defaults (8 and 0.75) satisfy both, and no other call is made. The
constructor takes other values; with them a probe may never end or a resize nest, and
nothing is claimed. The check in `resize` for
`count_t`'s maximum compares a power of two with an odd number and never
fires. `dump` changes nothing.

### Heap

`alloc`, `free` and `remote_free` of one size class; the classes are slab
allocators that share only the buddy manager. `Heap::remote_free` calls
`impl->free` (`src/Heap.cpp:104`), so a second thread changes page headers. The
owner's calls stay one action each; the other thread loads the header's fields
and stores them later (`RemoteFreeLoads`, `RemoteFreeStores`), one of the
interleavings of plain accesses that the build can produce and enough to
show what goes wrong. `reclaim_remote_free` of the slabs is never called
through `Heap`. Choosing the class is `SlabSizeClass`. Construction, move and
destruction are not modelled: `HeapImpl` is built and destroyed whole.

### The size tables

`SlabSizeClass` has the tables as data, `size_to_sizeclass` by how often it lists
each class, and what `Heap` (`class_of`) and `SlabAllocator` make of them.
`RpSizeClass` computes rpmalloc's table with the loops of
`rpmalloc_initialize`, one class a step, merging included; then requests go
through all sizes, and for each size larger ones at 128 times its value, which
are one byte on either side of whole pages and spans. A request of zero bytes
is left out: rpmalloc would index its table at -1.

### RpSpanCache

The caches of free spans of one span class. The headers' words `next_span`,
`prev_span` and `list_size` are the state; `local`, `moving` and `batches` are history
variables, the chains as they should be, which no guard reads. An action makes one
access to the cache word; the thread's own work joins the access before or
after it. `MaxCount` is the largest count the low bits hold (0xFFFF in the code).
The build has `ENABLE_UNLIMITED_CACHE` (`rpmalloc.c:17`): no limit on the
caches, `MIN_SPAN_CACHE_RELEASE` 16, no statistics, no asserts; only what is
compiled is modelled. The caches of large spans (`rpmalloc.c:573-669`) are a
copy of this code with other names.

The system is a finite set of spans; a thread that finds none waits
(`_memory_map` loops when `mmap` fails). `rpmalloc_finalize` runs when every thread
has finalized and freed, as `test/testRpMalloc.cpp` and `benchmark.cpp` do it.

### OrphanHeaps and RpHeap

`OrphanHeaps` is the life of heaps: popping an orphan, mapping a heap and linking it
in the table, pushing an orphan, one access a step. A heap is its id. Ids do not
wrap (2^32 heaps).

`RpHeap` adds what a heap does. `active`, `size_cache`, `span_cache` and `defer` are
the heap's fields; `word[b]` is the first word of a block, which is client data, a
free-list index or a link of the deferred frees in turn, so that a read of the wrong
kind is visible; `span_heap`, `size_class` and `data` are the span header.
Bookkeeping that lives elsewhere at the moment (in the active block or nowhere)
is `Stale`, so that reading it is visible too. What a thread does to its own heap
between two shared accesses is one action; loading and swapping the list of
deferred frees are separate ones, as is every round of working it off. Free
memory of several units keeps its old `heap_id` and class, as in the code,
where the happy path of a large allocation does not write them.

The model shares one `Goto` between the two: a thread is in `OrphanHeaps` or in
`RpHeap`, never in both. The access to a global cache is one action (see
`RpSpanCache`). Spans of fewer pages than 64 KiB differ from full ones in their
cache only and are left out. A `Workload` is a bound: the classes asked for,
the spans there are, and whether threads end.

## Runs

| Run | Question | Bounds |
|---|---|---|
| `atomic_list` | pushes against a consumer that pops, drains and pushes again | 3 threads, 3 nodes, spurious failures |
| `atomic_list_live` | does every node arrive | 2 pushers, 1 consumer, 3 nodes |
| `slab_pages` | pages moving between their places | 2 pages of 2, owner and 1 other |
| `slab_last_page` | is one page left in the end, as the test requires (violated) | 1 page of 2, the owner alone |
| `slab_remotes` | words shared by three lists, pushes racing, does a reclaim return | 1 page of 3, owner and 2 others |
| `buddy` | splits, merges, chunks coming and going, the limit, half failures | 3 chunks supplied, limit 2, chunks of 4 smallest blocks of 2 units |
| `structures` | the three lists after any operations; probing, shifting and growing of the hash map, and do its loops end; every depth of the stand-alone buddy allocator's recursions | 4 nodes a list; 6 keys, 2 values, 2 to 16 buckets; 8 smallest blocks, four size classes |
| `size_tables` | best class, pages that serve it, merged classes, reallocation | every size to 32720, `MEDIUM_SIZE_LIMIT`; larger ones 128 times as large |
| `rp_span_cache` | chains and counts of free spans, the lock token, a full cache, the final cleanup | 2 threads, 4 spans, sublists of 2, 3 spans counted at most |
| `rp_heap` | blocks, deferred frees, ending and adopted threads, finalize | 2 threads, 2 heaps, six workloads of 1 to 2 spans; classes of 3 and 2 blocks, large blocks of 1 to 3 spans, oversized of 4 |
| `rp_orphan` | the comment's "a memory heap, per thread" (violated) | 3 threads, 3 heaps |
| `heap_remote_free` | the README's "thread safe" (violated) | 1 page of 3, owner and 1 other |

What the properties of the passing runs say:

* `ChainsIntact`, `OnePlace`, `PopStable`, `IsAtomicStack`, `AllConsumed`: the
  lock-free list holds exactly what was pushed and not removed, is an atomic stack,
  and everything arrives.
* `PagePlacement`, `PageAccountingExact`, `RemoteListIntact`, `NoUseAfterRelease`,
  `IsObjectPool`, `ReclaimReturns`: every page is where its free count says, the
  chains through the objects are exact, no object is handed out while it is
  held or queued, and a reclaim ends.
* `FreeSpaceListed` (bitmap, lists and meta words agree), `MemoryTiled`,
  `FreeRangeIsFound`, `ChunksAccounted` (one spare chunk at most, nothing leaked),
  `LimitRespected` (what is left of any limit, as an unsigned number; a limit of whole
  chunks is not exceeded), `IsBlockPool`: the buddy manager. `ChunkConsistent`,
  `FreeTellsReclaim`, `FailsOnlyWhenFull`: its small relative.
* `ForwardListIntact`, `RingIntact`, `SpanListIntact`, `EntriesReachable` (a probe finds
  each key, the table never fills up), `ResizeIsEnough`, `IsPartialMap`, `CallsReturn`.
* `BestClass`, `PageServesClass`, `RpClassServes`, `ReallocFits`: sizes.
* `CachesIntact`, `IsSpanPool`, `TokenReleased`, `CleanupReleasesAll`: chains, lengths and the packed
  word agree; a span has one user; the token is given back; all is unmapped.
* `SpanPlacement`, `BlocksIntact`, `HeapsFound`, `IsBlockPool`, `FinalizeUnmapsAll`: a span is
  where its header says; no block is lost or handed out while its free is under
  way; a header's id leads to a heap that is there.

Why these bounds are enough: an interference on the atomic list needs at most one
thread between load and swap, one that changes the head and one that changes it
back, and three nodes make a chain with a first, a middle and a last. A page of
two objects is the smallest whose bump and free-list paths both run (every
class in `SlabSizeClass.h` has at least 21, so pages of one do not exist);
three give a free list with an inner link and a page that is neither full nor
empty twice. Two pages put one in each list while the other is the first page.
Three size classes in `buddy` give a middle one, which both splits and is split
into and where a merge can stop; the fourth in `structures` has merges that
stop in either of two places. The supplier of `buddy` has more than the limit,
so it is the limit that stops `alloc`. `Modulus` is 64 for 2^64. Four nodes
give a list an inner node with inner neighbours. The keys of `structures` fall on
the last cells of every table, so probes and shifts wrap around, and
resizes happen with colliding keys in the old table.

Four spans in `rp_span_cache` make a chain that is cut into a sublist of two and a
rest, two sublists in the global cache, and one span too many for its count.
Two threads in `rp_heap` are an owner and a stranger, and change roles when the
owner's heap is an orphan; classes of two and three blocks have spans
that go full, partly used and free, with and without the autolink. Rpmalloc's
smallest number of blocks in a span is two (`RpClassServes`). The workloads put
each mechanism with as few spans as it needs; they do not mix them all, and
three spans of one class in a heap's list do not occur. With two threads no
heap gets two owners: an orphan cannot be popped, pushed back and have lost its
successor while the only other thread waits. `rp_orphan` shows that three
threads can do that; what `rp_heap` shows holds as long as it does not happen.

Symmetry is used where no liveness is checked: addresses in `buddy`,
threads and two like spans in `rp_heap`.

Deadlock is checked except in `buddy`, whose allocator ends with its
destructor, and in the rpmalloc runs: a thread waits for ever in `_memory_map`
when the system has no span (or no further heap) left, and nothing is called
after `rpmalloc_finalize`.

### Fairness

`atomic_list_live` lets every thread keep running and calling, as the threads
of the test do, and has no spurious failures: on x86 the swap is
`lock cmpxchg`, which has none. `slab_remotes` (without spurious failures
too) only assumes that a thread inside a call goes on (weak fairness of the
steps of `reclaim_remote_free` and `remote_free`); nobody has to make a call, and
the owner cannot allocate while it reclaims, which is why the others run out
of objects to push. That a single `push` returns is not claimed: it is
lock-free, not wait-free, and an owner that keeps draining can make it retry
for ever. The hash map in `structures` is sequential code: a call that has
begun goes on (`MapLoop`). In `rp_span_cache` a thread inside a call keeps
running (`Continue`); nobody has to make a call, and that an insertion or
extraction itself ends is not claimed, since both spin while others succeed.

### Findings

`rp_orphan`: `_memory_allocate_heap` (`rpmalloc.c:1000`) loads the first orphan and
its `next_orphan`, and compares only the first when it swaps. Meanwhile another thread
can take that orphan, a third its successor, and the first be pushed again. The swap
then makes a heap that a running thread owns the head of the orphans, and the
next thread to start takes it, against "A memory heap, per thread"
(`rpmalloc.c:272`). The reverse also follows: an orphan pushed in between can be
dropped from the list.

`heap_remote_free`: `README.md:2` calls the allocator thread safe, but
`Heap::remote_free` runs the owner's `free` on a page header that the owner's
`alloc` may be changing. A count or a free-list index is lost, and `alloc` returns an
object that is in use, which `test/testHeap.cpp:86` forbids for one thread.

`slab_last_page`: `test/testSlabAllocator.cpp:125` requires that one page is left once
everything was freed (`REQUIRE(slab.size() == SlabPageSize)`), and
`SlabAllocator.cpp:140-148` has a branch that keeps it. But line 140 tests a count that
still includes the page being freed, so the branch is never taken: two allocs that
fill the only page and two frees leave `size()` 0. The test passes as long as its
random calls leave a first page, which `free` never releases. `OnePageLeft` states what the
test requires; `PagePlacement` allows an empty page on the list only if it is the
last, which holds of the code and of what it means to do. With `m_page_count > 1` as the
test of line 140 both hold on the bounds of `slab_last_page` and `slab_pages`.

Smaller disagreements that have no run:

* `README.md:2` promises sizes below 8 KiB; the size table has 8144 entries and
  `HeapImpl::alloc` indexes it without a check, so 8145 to 8191 read beyond it. The heap test
  stops at 8144, up to which `size_tables` shows every lookup right.
* `rpmalloc.c:1417` says "Size is greater than block size", but a large block
  that shrinks to less than half its spans also gets there, and moves to a block
  *larger* than the old one. `ReallocFits` states what holds: the block is large enough.

## Proofs

Every theorem holds for all values of the constants that satisfy the named
assumptions of the modules concerned. Each module of proofs strengthens the
invariants of its component to one that is inductive (`IInv`, in `StructuresProofs`
one for each structure, `HeapsInv`, `PlacesInv`, `CloseInv` and `LastingInv` in `RpHeapProofs`,
`TableInv` for rpmalloc's sizes), shows that it holds initially and that every action keeps
it, and derives the properties of the runs from it. TLC checked each `IInv` on
the bounds of the runs first.

| Module | Proved | Assumed of the constants |
|---|---|---|
| `FreeListAtomicProofs` | `ChainsIntactAlways`, `OnePlaceAlways`, `PopStableAlways`, `Linearizable` | `NodeAssumption`, `ConsumerAssumption` (a popper is the only consumer), `SpuriousAssumption` |
| `StructuresProofs`, lists | `ForwardListIntactAlways`, `RingIntactAlways`, `SpanListIntactAlways`, `ForwardTypeCorrect`, `RingTypeCorrect` | `EndAssumption`, `GarbageAssumption` |
| `SlabAllocatorProofs` | `NoUseAfterReleaseAlways`, `PagePlacementAlways`, `PageAccountingExactAlways`, `RemoteListIntactAlways`, `ImplementsObjectPool` | `MaxCountAssumption` (two objects in a page at least), `OwnerAssumption`, `NullAssumption`, `SpuriousAssumption` |
| `StructuresProofs`, table | `EntriesReachableAlways`, `ResizeIsEnoughAlways`, `ImplementsPartialMap` | `KeyAssumption`, `NullAssumption`, `TableAssumption` (a power of two of buckets, a load factor up to 0.99, room for one entry) |
| `RpSpanCacheProofs` | `CachesIntactAlways`, `CleanupReleasesAllAlways`, `ImplementsSpanPool` | `NullAssumption`, `TokenAssumption`, `BoundAssumption` |
| `BuddyManagerProofs` | `FreeSpaceListedAlways`, `MemoryTiledAlways`, `FreeRangeIsFoundAlways`, `ChunksAccountedAlways`, `LimitRespectedAlways`, `ClientsApartAlways`, `ImplementsBlockPool` | `SizeAssumption` (two powers of two), `NullAssumption`, `LimitAssumption` (the limit fits its type), `RequestAssumption` |
| `StructuresProofs`, one chunk | `ChunkConsistentAlways`, `FreeTellsReclaimAlways`, `FailsOnlyWhenFullAlways` | `SizeAssumption`, `RequestAssumption` |
| `SlabAllocatorProofs`, size tables | `BestClassAlways`, `PageServesClassAlways`; rpmalloc's `RpClassServesAlways`, `ReallocFitsAlways` | `MaxSizeAssumption` |
| `RpHeapProofs`, heaps | `HeapsInvInvariant`, `HeapsFoundAlways` | `HeapAssumption` |
| `RpHeapProofs`, spans and blocks | `SpanPlacementAlways`, `BlocksIntactAlways`, `ImplementsBlockPool`, `FinalizeUnmapsAllAlways`, each while no heap has two owners (`[]Life!OneOwner`) | `HeapAssumption`, `SpanAssumption` (finitely many spans), `BlockCountAssumption` (two blocks in a span at least), `WorkloadAssumption`, `NullAssumption` |
| `RpHeapProofs`, owners | `LastingThreadsOneOwner`, and `LastingThreadsSafe` (the first three theorems above without their condition), for any number of threads of which none ends | the same |
| `BuddyManagerMetaProofs`, `SequenceFacts` | the lemmas on block arithmetic, on the tree of one chunk's blocks, and on sequences that the others rest on | `SizeAssumption` |

The sets of nodes, pages, spans, keys and threads are arbitrary, infinite ones
included, where a property does not count them.

**The lock-free list.** None of its invariants is inductive alone. `ListIntact`
survives a push swap only because the pusher's link is the head the swap
compares with (`PushLinked`), and the link step only because the node is on no
list (`OnePlace`); it survives a pop swap only because the popped node is still
listed and its successor unchanged (`PopStable`), which needs the single
consumer and the position of every thread (`InOwnCall`). The refinement maps
each successful swap to the abstract operation and everything else to a
stutter. Several drainers at once are covered by the proof, not by a run.

**The lists.** That a removed node's neighbours are found through its own words
needs both chains and that no node is listed twice; with the types that is
inductive. For the ring, each of the code's building blocks has a lemma
(`UnlinkedRing`, `LinkedFrontRing`, `LinkedBackRing`), so `move_front` and
`move_back` are compositions, and `UnlistedRing` is the frame: what a client
writes into an unlisted node touches no ring. In `SpanList` the `prev_span` of
the first span says nothing; the proof shows that no operation reads it while
it does (`SpanTakeKeeps`, `SpanRemoveLaterKeeps`).

**SlabAllocator.** The free list of a page is followed by the code through the
objects, and the property says what following it meets. `IInv` says instead
that there is a sequence of slots, each freed one once, that the words spell
(`PageExact`), which an `alloc` shortens and a `free` lengthens at the front.
With it: each object is in one place (`OnePlace`: held by one thread, in one push,
queued, or in the chain a reclaim walks) and the pages are where their counts
say. One word can have three uses because an
object on a page's free list is in none of these places. The chain facts of the
lock-free list are taken from its proofs by `INSTANCE`.
`PageAccountingExactAlways` then walks the list: a least counterexample over
the links followed.

**PointerHashMap.** `ProbesUnbroken` between two iterations of `erase` has a hole
in it, so `IInv` says that only the hole is excepted and that all cells from it
to the neighbour under inspection are occupied (`ErasePath`); the shift is right because
moving an entry into the hole brings it no farther from its ideal bucket than the hole is. During `resize`,
what is left of the old table, the new table and the pair being inserted
have different keys, and together fit (`Counted`, `RoomToGrow`), which is why
`resize` never nests. Circular distances are reduced to four cases by `Circle`.

**RpSpanCache.** What each thread knows between its accesses (`MovingOK`) is the
heart. At the swap of an insertion the header words of the sublist already name the
head that was read as what comes next, and the swap succeeds only if that is
still the head. It does not matter whether the head was taken and came back in
between, since nothing behind it was read: taking out, which does read
what is behind the head, first replaces it by the token. A thread that is
to install what is left holds the token alone (`TokenHeld`), so nobody
changed the rest. The packed word's count stays exact and below the bound
(`HeadExact`), and `rpmalloc_finalize` is alone when it cleans up
(`CleansAlone`), so its walk ends with nothing mapped.

**BuddyManager.** All that matters about one chunk is the tree of its blocks.
`Tree` says of the bits and of the blocks handed out: a block in use lies in split
ones only, what is handed out is in use and has nothing in use inside, and of a split
block one half at least is in use, else the halves had been merged. The last conjunct
is what makes `FreeRangeIsFound` inductive, and the first is what `free_internal`
relies on when it stops at the first buddy in use. `Linked` then defines the free
lists from the tree, and `AllocTree` and `FreeTree` show that splitting down a
path and merging up one give a tree with exactly the lists the code makes.
Facts over all levels (`Ascend`, `Descend`, `TreeTiles`, `FreeFound`) are least
counterexamples over the class. `Organized` puts the trees of all live chunks
together with the meta words and the map; `Accounted` and `Limited` are about
the counters. The unsigned limit is right modulo the word whatever it is
(`SameRemainder`, `RemainderOfSum`). Only for a limit of whole chunks does it never wrap: then what is
left is a whole number of chunks too, so not zero means room for one more (`OneMore`).
Any other limit wraps below zero and bounds
nothing: with one and a half chunks, TLC reaches a second chunk. The run
`buddy` has a limit of two chunks, the theorem any. The proof asks that the bookkeeping node and the chunk that `alloc_chunk` gets
are not the same address, so `AllocFromNewChunk` says that what the supplier
hands out it does not hand out again before it has it back.

**StandAloneBuddyManager.** The same trees (they are in `BuddyManagerMetaProofs`)
hold at every depth of the two recursions once the block in the hand of the
running call counts as handed out (`Held`): no exception for the path under way is needed.
A return of `alloc` exchanges that block for its lower half (`SplitTree`), and a
level of `free` exchanges it and its free buddy for the block both are halves of
(`MergeTree`; `LowerHalf` says that the smaller address of the two is that block). Taking
a block and ending a free are `AllocTree` and `FreeTree` on a path of one class. `alloc`
can fail only because it knows the lists it passed to be empty
(`PassedEmpty`); with `FreeFound` that says no range is free. `free` tells the
truth because a buddy in use has a client's block inside (`UsedHasLeaf`).

**The table of heaps.** Any number of threads map heaps, link them in the same
buckets and adopt each other's. `HeapsInv` says that each bucket is a chain of exactly
the heaps of its remainder that are mapped and that no thread is about to link
(`Chains`), and that a heap between its `LinkHeap` and its `SwapBucket` is one
thread's alone and its link what that thread will compare the bucket with
(`NewHeaps`). A swap that succeeds therefore puts the heap before an unbroken
chain. It also says that whatever holds an id or a heap's address (a
thread, the orphans and their links, what a thread has read of them, every
span's header) holds that of a linked heap (`AllKnown`), so the ABA problem of
the orphans (see Findings) mixes up who owns a heap but never loses one:
`HeapsFound` holds for any number of threads. `rpmalloc_finalize` unlinks heaps
while the invariant is suspended; no thread calls then (`Closing`).

**Spans and blocks of rpmalloc's heaps.** `BlocksIntact` follows the free lists of spans and the links of the
deferred frees by bounded walks, and `SpanPlacement` counts spans in lists;
neither says enough to be kept by a step. `PlacesInv` says that there are a sequence of
blocks for each list of deferred frees and for each thread that pushes or works
off one (`Deferral(L)`: the words of the blocks spell it, its blocks are of the
heap's spans, no block is in two), and that with `T`, the blocks of the program and of
those lists, every span is in one place (`Placed(T)`): mapped for one heap and
active, listed as partly used, full, holding one large block, or free and in one cache, with a free
list, if the span has a free block, that holds exactly the used-before slots not in `T`.
`Calls` says what a thread between two accesses knows. A block that moves from the
program to a list of deferred frees leaves `T` as it is, so a push by another thread
cannot disturb the owner's spans; only the owner takes blocks out of `T` or puts
them in. `PlacesStep` has a case for each action, and says also that the blocks of the
program that stay have their spans unchanged (`LiveMoves`), which is what the
refinement needs: a block handed out lies in no block the program has
(`ClientsApart`), so each step of `Spec` maps to `BAlloc`, `BFree`, `BClose`, or a stutter of
`BlockPool`.

What "only the owner" needs is that a heap has one. That is the hypothesis
`[]Life!OneOwner`, which the code does not guarantee: the list of orphans has an ABA
problem that gives one heap to two threads (see Findings; `rp_orphan` shows it). The
theorems therefore say that this is the only way in which blocks or spans of
rpmalloc get mixed up: a behaviour that loses a block or hands one out twice
has first given a heap two owners.

**Who owns a heap.** A program of any number of threads of which none ends never
gets there: it makes no orphans, so a thread's heap is always a new one. `LastingInv` says so
(`LastingThreadsOneOwner`), and for such programs the theorems on spans, blocks and `BlockPool`
hold without the hypothesis (`LastingThreadsSafe`). `FinalizeUnmapsAll` is not among them,
since `rpmalloc_finalize` comes after all threads have ended. Two threads that end
and adopt each other's heaps never get there either; for them the properties are
checked by TLC (`rp_heap`) and proved only under the hypothesis.

`rpmalloc_finalize` takes the table of heaps apart, so `HeapsInv` says nothing of the
table from then on. `CloseInv` takes over: of each bucket a chain of heaps is left, and every
heap that is in no chain has neither a deferred free nor a cached span
(`AllRemaining`). It starts true because a heap that is not linked yet has nothing
(`UnlinkedEmpty`), and it needs to know that nobody defers frees any more, so the list read
at "take" is still there and, once taken, stays empty until the heap is
unmapped (`Settled`). When no heap is left a mapped span can only be in a global
cache (`PlacesInv`), and the last step unmaps those (`FinalizeUnmaps`).

**Sizes.** `rpmalloc_initialize` merges a class into the next one when their spans
have as many pages and blocks. `TableInv` says where that leads: every class that is set
up is a copy of one no smaller, all classes between are copies of the same, and the two
ask for the same span. A round keeps it because what is merged is always a run
that ends at the last class (`MergedAreLast`), so a merged class takes all its
earlier copies along (`MergedTogether`). With the sizes growing, `RpClassServes`
follows, and from it `ReallocFits`, which needs that no block has between 33 and 38
usable bytes: only from 39 bytes on are the two rounded-down fractions of
`_memory_reallocate` a third. For `SlabSizeClass` the fact that connects the tables is that
the entries of a class end at its object size (`EntriesEnd`). The provers take
a large interval as the list of its numbers, which is why the lemmas on sizes
state bounds as inequalities.

**Induction and recursion.** The library's induction theorems take an operator
as a parameter, which the installed provers cannot instantiate. Where a proof
needs induction it takes the least natural number at which the fact fails
(`LeastElement`, which `SequenceFacts` proves) and shows that there is none. The recursive function
`pow2` is handled that way, by showing that finite lists of doubled numbers
exist and agree (`DoublesExist`, `DoublesAgree`, `Pow2Facts`).

Only model-checked:

* all liveness (`AllConsumed`, `ReclaimReturns`, `CallsReturn`, `TokenReleased`):
  fairness and ENABLED are out of the prover's reach;
* `Heap`, whose one run shows a violation.

## Not modelled

Left out for good: benchmark, argument parsing and test harness (no allocator
state); `FreeList` (test only); construction, move and destruction of `Heap`; of rpmalloc
`calloc`, `aligned_alloc` and the statistics (no state of their own), the cache
limits and counters that this build compiles out or never reads, and the second
`mmap` that alignment may need; weak memory orders.
