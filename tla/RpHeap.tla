------------------------------- MODULE RpHeap -------------------------------
(***************************************************************************)
(* The heaps of src/rpmalloc/rpmalloc.c.  A thread allocates from and      *)
(* frees to its own heap with no synchronisation.  A block another heap    *)
(* owns is pushed on that heap's list of deferred frees, linked through    *)
(* the block itself, and the owner works the list off when it runs out of  *)
(* blocks, collects, or ends.  A finished thread gives its free spans to   *)
(* the global caches and its heap, with every block still in use, to the   *)
(* next thread (OrphanHeaps).                                              *)
(*                                                                         *)
(* Spans have room for 64 KiB or a multiple; smaller page counts differ in *)
(* nothing but their cache.  Lists of spans are sequences here: SpanList   *)
(* has the links of partly used spans, RpSpanCache those of free spans and *)
(* the accesses to the global cache, each of which is one action here.     *)
(***************************************************************************)
EXTENDS Naturals, Sequences, FiniteSets, Functions, SequencesExt

CONSTANTS
  Thread, MaxHeaps, HeapArraySize,  \* see OrphanHeaps
  Span,             \* the spans the system can map
  SpanCount,        \* SpanCount[s]: the size of s, in 64 KiB
  SizeClassCount,   \* SIZE_CLASS_COUNT: the small and medium classes
  BlockCount,       \* BlockCount[c]: blocks in a span of class c
  LargeClassCount,  \* LARGE_CLASS_COUNT
  MaxRelease,       \* MIN_SPAN_CACHE_RELEASE
  Null,
  Workload          \* bounds of a behaviour: the size classes the program
                    \* asks for, the spans the system has, and whether
                    \* threads end

SmallClass == 0..(SizeClassCount - 1)
\* Large blocks of n spans have class SizeClassCount + n - 1; what needs more
\* than LargeClassCount spans is mapped for itself.
Spans(c) == c - SizeClassCount + 1
ClassOf(n) == SizeClassCount + n - 1

ASSUME HeapAssumption == MaxHeaps \in Nat /\ HeapArraySize \in Nat \ {0}

\* A span is one unit of 64 KiB at least, and sublists of free spans have one.
ASSUME SpanAssumption ==
  /\ IsFiniteSet(Span) /\ SpanCount \in [Span -> Nat \ {0}]
  /\ LargeClassCount \in Nat \ {0} /\ MaxRelease \in Nat \ {0}

ASSUME WorkloadAssumption ==
  \A w \in Workload : w.spans \subseteq Span /\ w.asks \subseteq Nat

\* Every class has at least two blocks in a span.
ASSUME BlockCountAssumption ==
  /\ SizeClassCount \in Nat
  /\ BlockCount \in [SmallClass -> Nat] /\ \A c \in SmallClass : BlockCount[c] >= 2

MaxBlocks == IF SizeClassCount = 0 THEN 1
             ELSE CHOOSE n \in Range(BlockCount) : \A m \in Range(BlockCount) : m <= n
Slot == 0..(MaxBlocks - 1)
Block == Span \X Slot
SpanOf(b) == b[1]
SlotOf(b) == b[2]


VARIABLES
  heap_id, heaps, next_heap, orphan_heaps, next_orphan,  \* see OrphanHeaps
  thread_heap, at, heap, next,
  active,       \* active[h][c]: active_block and active_span of heap h
  size_cache,   \* size_cache[h][c]: the partly used spans, the first first
  span_cache,   \* span_cache[h][n]: the free spans of n units (large_cache)
  defer,        \* defer[h]: defer_deallocate
  global,       \* global[n]: the sublists in the global cache
  word,         \* word[b]: the first word of block b
  span_heap,    \* heap_id in the header of each span
  size_class, data,  \* the rest of the header that heaps use
  mapped,       \* the spans held from the system
  live,         \* the blocks the program has
  workload,     \* which of Workload this behaviour is
  ask, why, p   \* the class asked for, why deferred frees are worked off,
                \* and the block at hand

lifeVars == <<heap_id, heaps, next_heap, orphan_heaps, next_orphan, thread_heap, heap, next>>
ownVars == <<active, size_cache, data, word>>
spanVars == <<span_cache, global, span_heap, size_class, mapped>>
callVars == <<ask, why, p>>
vars == <<lifeVars, at, ownVars, spanVars, defer, live, workload, callVars>>

Life == INSTANCE OrphanHeaps WITH heap_id <- heap_id
Heap == Life!Heap
NoHeap == Life!NoHeap
Goto(t, label) == Life!Goto(t, label)

\* A number nobody may read, no slot and no count: bookkeeping that is kept
\* elsewhere, the index in a word that holds none.
Stale == MaxBlocks

\* The first word of a block holds what the program wrote, the index of the
\* next free block of the span, or the link of the deferred frees, of which
\* a reader of indices would take the low bits.
Data == <<"data", Stale>>
IndexWord(i) == <<"index", i>>
IndexIn(w) == IF w = Null THEN 0 ELSE w[2]

ASSUME NullAssumption ==
  Null \notin Block \cup Span /\ \A i \in 0..Stale : Null # IndexWord(i)

NoBlocks == [free_list |-> Stale, first_autolink |-> Stale, free_count |-> Stale]
NoActive == [span |-> Null, free_list |-> Stale, first_autolink |-> Stale, free_count |-> 0]

\* The active block and span, with the bookkeeping bd of the span's blocks.
ActiveSpan(s, bd) ==
  [span |-> s, free_list |-> bd.free_list, first_autolink |-> bd.first_autolink,
   free_count |-> bd.free_count]

Init ==
  /\ Life!HeapsInit
  /\ active = [h \in Heap |-> [c \in SmallClass |-> NoActive]]
  /\ size_cache = [h \in Heap |-> [c \in SmallClass |-> <<>>]]
  /\ span_cache = [h \in Heap |-> [n \in 1..LargeClassCount |-> <<>>]]
  /\ defer = [h \in Heap |-> Null]
  /\ global = [n \in 1..LargeClassCount |-> <<>>]
  /\ word = [b \in Block |-> Data]
  /\ span_heap = [s \in Span |-> NoHeap]
  /\ size_class = [s \in Span |-> 0]
  /\ data = [s \in Span |-> NoBlocks]
  /\ mapped = {}
  /\ live = {}
  /\ workload \in Workload
  /\ ask = [t \in Thread |-> 0]
  /\ why = [t \in Thread |-> "none"]
  /\ p = [t \in Thread |-> Null]

\* A thread between calls; none calls while rpmalloc_finalize runs.
Closing == \E t \in Thread : why[t] = "close"
Ready(t) == at[t] = "idle" /\ thread_heap[t] # NoHeap /\ ~Closing
-----------------------------------------------------------------------------
(* Blocks of a span: step 1 of _memory_allocate_from_heap *)

\* What is left of a, of which one block is handed out, while blocks remain:
\* the next one is linked from it, or is the next never used.
NextFree(a) ==
  IF a.free_list < a.first_autolink
  THEN [a EXCEPT !.free_count = @ - 1, !.free_list = IndexIn(word[<<a.span, a.free_list>>])]
  ELSE [a EXCEPT !.free_count = @ - 1, !.free_list = @ + 1, !.first_autolink = @ + 1]

\* The block is the program's now and its word may hold anything.
HandOut(b) ==
  /\ live' = live \cup {b}
  /\ word' = [word EXCEPT ![b] = Data]

\* A span with no block left is in none of the heap's lists.  Its free_list
\* stays as it was, but no count ever leads there.
FullSpan(c) == [free_list |-> Stale, first_autolink |-> BlockCount[c], free_count |-> 0]

\* use_active, with a the active block and span of class c.
UseActive(h, c, a) ==
  /\ HandOut(<<a.span, a.free_list>>)
  /\ IF a.free_count = 1
     THEN /\ active' = [active EXCEPT ![h][c] = NoActive]
          /\ data' = [data EXCEPT ![a.span] = FullSpan(c)]
     ELSE /\ active' = [active EXCEPT ![h][c] = NextFree(a)]
          /\ data' = [data EXCEPT ![a.span] = NoBlocks]
-----------------------------------------------------------------------------
(* Where a heap h takes a span of n units from: its cache, the first sublist *)
(* of the global cache, or the system.                                      *)

FromCache(h, n, s) ==
  /\ span_cache[h][n] # <<>>
  /\ s = Head(span_cache[h][n])
  /\ span_cache' = [span_cache EXCEPT ![h][n] = Tail(@)]
  /\ UNCHANGED <<global, mapped>>

FromGlobal(h, n, s) ==
  /\ span_cache[h][n] = <<>> /\ global[n] # <<>>
  /\ s = Head(Head(global[n]))
  /\ span_cache' = [span_cache EXCEPT ![h][n] = Tail(Head(global[n]))]
  /\ global' = [global EXCEPT ![n] = Tail(@)]
  /\ UNCHANGED mapped

\* _memory_map tries until the system has a span.
MapSpan(n, s) ==
  /\ s \in workload.spans \ mapped
  /\ SpanCount[s] = n
  /\ mapped' = mapped \cup {s}
  /\ UNCHANGED <<global, span_cache>>

FromSystem(h, n, s) == span_cache[h][n] = <<>> /\ global[n] = <<>> /\ MapSpan(n, s)

\* Mark span as owned by this heap and set base data.
Owned(h, c, s) ==
  /\ span_heap' = [span_heap EXCEPT ![s] = h]
  /\ size_class' = [size_class EXCEPT ![s] = c]

\* What was in a free span is not read again; its class and its heap are
\* written before they are, unless it has several units.
Forget(n, s) ==
  /\ data' = [data EXCEPT ![s] = NoBlocks]
  /\ word' = [b \in Block |-> IF SpanOf(b) = s THEN Data ELSE word[b]]
  /\ IF n = 1 THEN Owned(NoHeap, 0, s) ELSE UNCHANGED <<span_heap, size_class>>

\* _memory_heap_cache_insert and its copy for large blocks.  The header says
\* how long the list is where it kept the bookkeeping of blocks.
CacheInsert(h, n, s) ==
  /\ span_cache' = [span_cache EXCEPT ![h][n] = <<s>> \o @]
  /\ Forget(n, s)
-----------------------------------------------------------------------------
(* _memory_deallocate_to_heap *)

IsActive(h, s) == active[h][size_class[s]].span = s

BlockData(h, s) ==
  IF IsActive(h, s)
  THEN LET a == active[h][size_class[s]]
       IN [free_list |-> a.free_list, first_autolink |-> a.first_autolink,
           free_count |-> a.free_count]
  ELSE data[s]

\* Mutant (here and below, each before the definition it would replace): the
\* span stays on the list of partly used spans.
FreeLastKeepsListed(h, s, bd) ==
  /\ bd.free_count = BlockCount[size_class[s]] - 1
  /\ active' = [active EXCEPT ![h][size_class[s]] = IF IsActive(h, s) THEN [NoActive EXCEPT !.span = s] ELSE @]
  /\ CacheInsert(h, 1, s)
  /\ UNCHANGED size_cache

\* The span becomes completely free.  When it was active, active_span still
\* points to it.
FreeLast(h, s, bd) ==
  LET c == size_class[s] IN
  /\ bd.free_count = BlockCount[c] - 1
  /\ IF IsActive(h, s)
     THEN /\ active' = [active EXCEPT ![h][c] = [NoActive EXCEPT !.span = s]]
          /\ UNCHANGED size_cache
     ELSE /\ size_cache' = [size_cache EXCEPT ![h][c] = RemoveFirst(@, s)]
          /\ UNCHANGED active
  /\ CacheInsert(h, 1, s)

\* Mutant: the span's autolink goes on although its blocks were handed out.
FreedKeepsAutolink(c, bd, i) ==
  [free_list |-> i, first_autolink |-> 0, free_count |-> bd.free_count + 1]

\* The bookkeeping with block i free again.
Freed(c, bd, i) ==
  [free_list |-> i,
   first_autolink |-> IF bd.free_count = 0 THEN BlockCount[c] ELSE bd.first_autolink,
   free_count |-> bd.free_count + 1]

FreeInSpan(h, s, i, bd) ==
  LET c == size_class[s]
      after == Freed(c, bd, i)
  IN
  /\ bd.free_count # BlockCount[c] - 1
  /\ word' = [word EXCEPT ![<<s, i>>] = IndexWord(bd.free_list)]
  /\ IF IsActive(h, s)
     THEN /\ active' = [active EXCEPT ![h][c] = ActiveSpan(s, after)]
          /\ UNCHANGED data
     ELSE /\ data' = [data EXCEPT ![s] = after]
          /\ UNCHANGED active
  /\ IF bd.free_count = 0
     THEN size_cache' = [size_cache EXCEPT ![h][c] = <<s>> \o @]
     ELSE UNCHANGED size_cache
  /\ UNCHANGED <<span_cache, span_heap, size_class>>

\* _memory_deallocate_large_to_heap: one-span blocks go to the cache of spans
\* for small blocks, here as in the code the cache of one unit.
FreeLarge(h, s) ==
  /\ CacheInsert(h, Spans(size_class[s]), s)
  /\ UNCHANGED <<active, size_cache>>

\* A block given back to the heap it belongs to.
FreeToHeap(h, b) ==
  LET s == SpanOf(b) IN
  /\ IF size_class[s] \in SmallClass
     THEN LET bd == BlockData(h, s)
          IN FreeLast(h, s, bd) \/ FreeInSpan(h, s, SlotOf(b), bd)
     ELSE FreeLarge(h, s)
  /\ UNCHANGED <<global, mapped>>
-----------------------------------------------------------------------------
(* _memory_deallocate, called by the program with a block it has *)

Free(t, b) ==
  /\ Ready(t)
  /\ b \in live
  /\ span_heap[SpanOf(b)] = thread_heap[t]
  /\ FreeToHeap(thread_heap[t], b)
  /\ live' = live \ {b}
  /\ UNCHANGED <<lifeVars, at, defer, workload, callVars>>

FreeOversized(t, b) ==
  /\ Ready(t)
  /\ b \in live
  /\ span_heap[SpanOf(b)] = NoHeap
  /\ mapped' = mapped \ {SpanOf(b)}
  /\ live' = live \ {b}
  /\ UNCHANGED <<lifeVars, at, ownVars, defer, span_cache, global, span_heap, size_class,
                 workload, callVars>>

\* _memory_deallocate_defer: the head of the owner's list is loaded and
\* stored into the block, which the swap then compares it with.
LoadDefer(t, b) ==
  /\ word' = [word EXCEPT ![b] = defer[Life!HeapLookup(span_heap[SpanOf(b)])]]
  /\ UNCHANGED <<lifeVars, active, size_cache, data, spanVars, defer, workload, ask, why>>

FreeDeferred(t, b) ==
  /\ Ready(t)
  /\ b \in live
  /\ span_heap[SpanOf(b)] \notin {thread_heap[t], NoHeap}
  /\ LoadDefer(t, b)
  /\ live' = live \ {b}
  /\ p' = [p EXCEPT ![t] = b]
  /\ Goto(t, "defer")

DeferSwaps(t) ==
  LET h == Life!HeapLookup(span_heap[SpanOf(p[t])]) IN
  /\ at[t] = "defer"
  /\ defer[h] = word[p[t]]
  /\ defer' = [defer EXCEPT ![h] = p[t]]
  /\ p' = [p EXCEPT ![t] = Null]
  /\ Goto(t, "idle")
  /\ UNCHANGED <<lifeVars, ownVars, spanVars, live, workload, ask, why>>

DeferRetries(t) ==
  /\ at[t] = "defer"
  /\ defer[Life!HeapLookup(span_heap[SpanOf(p[t])])] # word[p[t]]
  /\ LoadDefer(t, p[t])
  /\ UNCHANGED <<live, p, at>>
-----------------------------------------------------------------------------
(* _memory_deallocate_deferred, for the reason r *)

\* The heap at hand: the thread's own, or the one rpmalloc_finalize has come
\* to, the first of the first bucket that has one.
ToClose == CHOOSE h \in Heap : \E b \in Life!Bucket :
             h = heaps[b] /\ \A d \in 0..(b - 1) : heaps[d] = NoHeap
HeapOf(t) == IF why[t] = "close" THEN ToClose ELSE thread_heap[t]

\* Where the caller goes on.
Caller(r) == [alloc |-> "refill", collect |-> "idle", end |-> "release", close |-> "unmap"][r]

LoadDeferred(t, h, r) ==
  /\ p' = [p EXCEPT ![t] = defer[h]]
  /\ why' = [why EXCEPT ![t] = r]
  /\ Goto(t, IF defer[h] = Null THEN Caller(r) ELSE "take")
  /\ UNCHANGED <<lifeVars, ownVars, spanVars, defer, live, workload>>

TakeDeferred(t) ==
  /\ at[t] = "take"
  /\ defer[HeapOf(t)] = p[t]
  /\ defer' = [defer EXCEPT ![HeapOf(t)] = Null]
  /\ Goto(t, "drain")
  /\ UNCHANGED <<lifeVars, ownVars, spanVars, live, workload, callVars>>

\* A push came between: nothing is worked off this time.
TakeFails(t) ==
  /\ at[t] = "take"
  /\ defer[HeapOf(t)] # p[t]
  /\ p' = [p EXCEPT ![t] = Null]
  /\ Goto(t, Caller(why[t]))
  /\ UNCHANGED <<lifeVars, ownVars, spanVars, defer, live, workload, ask, why>>

DrainTo(t, b) ==
  /\ p' = [p EXCEPT ![t] = b]
  /\ Goto(t, IF b = Null THEN Caller(why[t]) ELSE "drain")
  /\ UNCHANGED <<lifeVars, defer, live, workload, ask, why>>

\* Mutant: the link is read after the free has used the word for its index.
DrainReadsLate(t) ==
  /\ at[t] = "drain"
  /\ FreeToHeap(HeapOf(t), p[t])
  /\ DrainTo(t, IF word'[p[t]] \in Block THEN word'[p[t]] ELSE Null)

\* One block of the list.
Drain(t) ==
  /\ at[t] = "drain"
  /\ FreeToHeap(HeapOf(t), p[t])
  /\ DrainTo(t, word[p[t]])
-----------------------------------------------------------------------------
(* _memory_allocate_from_heap *)

AllocActive(t, c) ==
  LET h == thread_heap[t] IN
  /\ Ready(t)
  /\ c \in SmallClass
  /\ active[h][c].free_count > 0
  /\ UseActive(h, c, active[h][c])
  /\ UNCHANGED <<lifeVars, at, size_cache, spanVars, defer, workload, callVars>>

\* No free block in the active span.
AllocSmall(t, c) ==
  /\ Ready(t)
  /\ c \in SmallClass
  /\ active[thread_heap[t]][c].free_count = 0
  /\ ask' = [ask EXCEPT ![t] = c]
  /\ LoadDeferred(t, thread_heap[t], "alloc")

Returns(t) ==
  /\ ask' = [ask EXCEPT ![t] = 0]
  /\ why' = [why EXCEPT ![t] = "none"]
  /\ Goto(t, "idle")
  /\ UNCHANGED <<lifeVars, defer, workload, p>>

\* Step 3, a partly used span.  Step 2 finds nothing: a span is active only
\* while it has a free block, so the deferred frees went to other spans.
Promote(t) ==
  LET h == thread_heap[t]
      c == ask[t]
  IN
  /\ at[t] = "refill" /\ c \in SmallClass
  /\ size_cache[h][c] # <<>>
  /\ UseActive(h, c, ActiveSpan(Head(size_cache[h][c]), data[Head(size_cache[h][c])]))
  /\ size_cache' = [size_cache EXCEPT ![h][c] = Tail(@)]
  /\ Returns(t)
  /\ UNCHANGED spanVars

\* Steps 4 to 6: a free span, whose first block is returned.
NewSpan(t) ==
  LET h == thread_heap[t]
      c == ask[t]
  IN
  /\ at[t] = "refill" /\ c \in SmallClass
  /\ size_cache[h][c] = <<>>
  /\ \E s \in Span :
       /\ FromCache(h, 1, s) \/ FromGlobal(h, 1, s) \/ FromSystem(h, 1, s)
       /\ Owned(h, c, s)
       /\ active' = [active EXCEPT ![h][c] =
            [span |-> s, free_list |-> 1, first_autolink |-> 1, free_count |-> BlockCount[c] - 1]]
       /\ HandOut(<<s, 0>>)
  /\ Returns(t)
  /\ UNCHANGED <<size_cache, data>>
-----------------------------------------------------------------------------
(* _memory_allocate_large_from_heap *)

\* The caches that may serve n spans: one span exactly, more also from the
\* caches of the next two sizes.
LargeFits(h, n) ==
  {m \in (IF n = 1 THEN {1} ELSE n..(n + 2)) \cap 1..LargeClassCount : span_cache[h][m] # <<>>}

Smallest(S) == CHOOSE m \in S : \A k \in S : m <= k

\* A span from the cache of m is a block of m spans, whatever was asked.
LargeClass(c, m) == ClassOf(m)

\* The happy path leaves heap_id alone, except for single spans.  A span that
\* came with a list from the global cache still names the heap that last
\* had it, and its free goes there.
LargeFromCache(t, c) ==
  LET h == thread_heap[t]
      m == Smallest(LargeFits(h, Spans(c)))
  IN
  /\ LargeFits(h, Spans(c)) # {}
  /\ \E s \in Span :
       /\ FromCache(h, m, s)
       /\ size_class' = [size_class EXCEPT ![s] = LargeClass(c, m)]
       /\ span_heap' = IF m = 1 THEN [span_heap EXCEPT ![s] = h] ELSE span_heap
       /\ HandOut(<<s, 0>>)
  /\ UNCHANGED <<active, size_cache, data>>

IsLarge(c) == c \in ClassOf(1)..ClassOf(LargeClassCount)

AllocLargeCached(t, c) ==
  /\ Ready(t)
  /\ IsLarge(c)
  /\ LargeFromCache(t, c)
  /\ UNCHANGED <<lifeVars, at, defer, workload, callVars>>

AllocLarge(t, c) ==
  /\ Ready(t)
  /\ IsLarge(c)
  /\ LargeFits(thread_heap[t], Spans(c)) = {}
  /\ ask' = [ask EXCEPT ![t] = c]
  /\ LoadDeferred(t, thread_heap[t], "alloc")

\* The caches are searched again if a deferred free brought a span that fits
\* (got_class says just that).
LargeAgain(t) == at[t] = "refill" /\ IsLarge(ask[t]) /\ LargeFromCache(t, ask[t]) /\ Returns(t)

LargeNew(t) ==
  LET h == thread_heap[t]
      c == ask[t]
  IN
  /\ at[t] = "refill" /\ IsLarge(c)
  /\ LargeFits(h, Spans(c)) = {}
  /\ \E s \in Span :
       /\ FromGlobal(h, Spans(c), s) \/ FromSystem(h, Spans(c), s)
       /\ Owned(h, c, s)
       /\ HandOut(<<s, 0>>)
  /\ Returns(t)
  /\ UNCHANGED <<active, size_cache, data>>

\* _memory_allocate for what is larger than any class: mapped for itself.
AllocOversized(t, c) ==
  /\ Ready(t)
  /\ Spans(c) > LargeClassCount
  /\ \E s \in Span :
       /\ MapSpan(Spans(c), s)
       /\ span_heap' = [span_heap EXCEPT ![s] = NoHeap]
       /\ HandOut(<<s, 0>>)
  /\ UNCHANGED <<lifeVars, at, active, size_cache, data, size_class, defer, workload, callVars>>
-----------------------------------------------------------------------------
(* rpmalloc_thread_collect and rpmalloc_thread_finalize *)

Collect(t) ==
  /\ Ready(t)
  /\ LoadDeferred(t, thread_heap[t], "collect")
  /\ UNCHANGED ask

ThreadFinalize(t) ==
  /\ Ready(t)
  /\ workload.ends
  /\ LoadDeferred(t, thread_heap[t], "end")
  /\ UNCHANGED ask

NonEmpty(h) == {n \in 1..LargeClassCount : span_cache[h][n] # <<>>}

\* A sublist goes before the others in the global cache of n units.
GlobalInsert(n, list) == global' = [global EXCEPT ![n] = <<list>> \o @]

\* One sublist of at most MaxRelease spans goes to the global cache.
Release(t) ==
  LET h == thread_heap[t]
      n == Smallest(NonEmpty(h))
      k == IF Len(span_cache[h][n]) > MaxRelease THEN MaxRelease ELSE Len(span_cache[h][n])
  IN
  /\ at[t] = "release"
  /\ NonEmpty(h) # {}
  /\ GlobalInsert(n, SubSeq(span_cache[h][n], 1, k))
  /\ span_cache' = [span_cache EXCEPT ![h][n] = SubSeq(@, k + 1, Len(@))]
  /\ UNCHANGED <<lifeVars, at, ownVars, span_heap, size_class, mapped, defer, live, workload, callVars>>

\* The heap, with its spans in use and what was deferred since, is left to the
\* orphans.
ReleaseEnds(t) ==
  /\ at[t] = "release"
  /\ NonEmpty(thread_heap[t]) = {}
  /\ Life!LinkOrphan(t, thread_heap[t])
  /\ why' = [why EXCEPT ![t] = "none"]
  /\ UNCHANGED <<ownVars, spanVars, defer, live, workload, ask, p>>
-----------------------------------------------------------------------------
(* rpmalloc_finalize, when every thread has finalized and every block is free *)

HeapsLeft == \E b \in Life!Bucket : heaps[b] # NoHeap

Finalize(t) ==
  /\ \A u \in Thread : at[u] = "idle" /\ thread_heap[u] = NoHeap
  /\ ~Closing /\ HeapsLeft
  /\ live = {}
  /\ LoadDeferred(t, ToClose, "close")
  /\ UNCHANGED ask

SpansIn(lists) == UNION {Range(lists[i]) : i \in DOMAIN lists}

\* Mutant: only the caches of single spans are released.
HeapSpansSmallOnly(h) == Range(span_cache[h][1])

HeapSpans(h) == SpansIn(span_cache[h])

\* The heap's caches and the heap itself are unmapped; on to the next.
UnmapHeap(t) ==
  LET h == ToClose IN
  /\ at[t] = "unmap"
  /\ mapped' = mapped \ HeapSpans(h)
  /\ span_cache' = [span_cache EXCEPT ![h] = [n \in 1..LargeClassCount |-> <<>>]]
  /\ heaps' = [heaps EXCEPT ![Life!BucketOf(h)] = next_heap[h]]
  /\ Goto(t, "closing")
  /\ UNCHANGED <<heap_id, next_heap, orphan_heaps, next_orphan, thread_heap, heap, next, ownVars,
                 global, span_heap, size_class, defer, live, workload, callVars>>

NextToClose(t) ==
  /\ at[t] = "closing"
  /\ HeapsLeft
  /\ LoadDeferred(t, ToClose, "close")
  /\ UNCHANGED ask

FinalizeEnds(t) ==
  /\ at[t] = "closing"
  /\ ~HeapsLeft
  /\ orphan_heaps' = NoHeap
  /\ mapped' = mapped \ UNION {SpansIn(global[n]) : n \in 1..LargeClassCount}
  /\ global' = [n \in 1..LargeClassCount |-> <<>>]
  /\ Goto(t, "closed")
  /\ UNCHANGED <<heap_id, heaps, next_heap, next_orphan, thread_heap, heap, next, ownVars,
                 span_cache, span_heap, size_class, defer, live, workload, callVars>>
-----------------------------------------------------------------------------
LifeStep(t) ==
  /\ ~Closing
  /\ Life!ThreadInitialize(t) \/ Life!HeapStep(t)
  /\ UNCHANGED <<ownVars, spanVars, defer, live, workload, callVars>>

Alloc(t, c) ==
  AllocActive(t, c) \/ AllocSmall(t, c) \/ AllocLargeCached(t, c) \/ AllocLarge(t, c)
    \/ AllocOversized(t, c)

Call(t) ==
  \/ \E c \in workload.asks : Alloc(t, c)
  \/ \E b \in live : Free(t, b) \/ FreeDeferred(t, b) \/ FreeOversized(t, b)
  \/ Collect(t)
  \/ ThreadFinalize(t)
  \/ Finalize(t)

Continue(t) ==
  \/ DeferSwaps(t) \/ DeferRetries(t)
  \/ TakeDeferred(t) \/ TakeFails(t) \/ Drain(t)
  \/ Promote(t) \/ NewSpan(t) \/ LargeAgain(t) \/ LargeNew(t)
  \/ Release(t) \/ ReleaseEnds(t)
  \/ UnmapHeap(t) \/ NextToClose(t) \/ FinalizeEnds(t)

Next == \E t \in Thread : LifeStep(t) \/ Call(t) \/ Continue(t)

Spec == Init /\ [][Next]_vars
-----------------------------------------------------------------------------
\* Type invariant.
TypeOK ==
  /\ thread_heap \in [Thread -> Life!HeapOrNone]
  /\ active \in [Heap -> [SmallClass -> [span : Span \cup {Null}, free_list : 0..Stale,
                                         first_autolink : 0..Stale, free_count : 0..Stale]]]
  /\ size_cache \in [Heap -> [SmallClass -> Seq(Span)]]
  /\ span_cache \in [Heap -> [1..LargeClassCount -> Seq(Span)]]
  /\ defer \in [Heap -> Block \cup {Null}]
  /\ global \in [1..LargeClassCount -> Seq(Seq(Span))]
  /\ word \in [Block -> {Data, Null} \cup Block \cup {IndexWord(i) : i \in 0..Stale}]
  /\ span_heap \in [Span -> Life!HeapOrNone]
  /\ size_class \in [Span -> Nat]
  /\ data \in [Span -> [free_list : 0..Stale, first_autolink : 0..Stale, free_count : 0..Stale]]
  /\ mapped \subseteq Span
  /\ live \subseteq Block
  /\ p \in [Thread -> Block \cup {Null}]

\* Block b and what it leads to through the links of deferred frees; no list is
\* longer than all mapped blocks.
Walk(b) ==
  LET within[n \in 0..Cardinality(mapped \X Slot)] ==
        IF n = 0 THEN {b}
        ELSE LET near == within[n - 1] IN near \cup {word[x] : x \in near \cap Block}
  IN within[Cardinality(mapped \X Slot)]
LinkedFrom(b) == Walk(b) \cap Block
Ends(b) == Null \in Walk(b)

\* What is freed and not yet back in its heap: queued on h, being queued by t,
\* or being worked off by t.
Queued(h) == LinkedFrom(defer[h])
AtHand(t) ==
  IF at[t] = "defer" THEN {p[t]} ELSE IF at[t] = "drain" THEN LinkedFrom(p[t]) ELSE {}
Pending == UNION ({Queued(h) : h \in Heap} \cup {AtHand(t) : t \in Thread})

\* The blocks no heap may hand out, and their spans.
Taken == live \cup Pending
InUse == {SpanOf(b) : b \in Taken}
UsedSmall == {s \in InUse : span_heap[s] # NoHeap /\ size_class[s] \in SmallClass}

Disjoint(list1, list2) == Range(list1) \cap Range(list2) = {}

\* All free spans of n units.
FreeSpans(n) == (UNION {Range(span_cache[h][n]) : h \in Heap}) \cup SpansIn(global[n])

\* No span is in two of the lists, or twice in one.
ListedOnce(n) ==
  /\ \A h \in Heap : /\ IsInjective(span_cache[h][n])
                     /\ \A k \in Heap \ {h} : Disjoint(span_cache[h][n], span_cache[k][n])
  /\ \A i \in DOMAIN global[n] :
       /\ IsInjective(global[n][i])
       /\ \A k \in DOMAIN global[n] \ {i} : Disjoint(global[n][i], global[n][k])
       /\ \A h \in Heap : Disjoint(global[n][i], span_cache[h][n])

\* The spans heap h has free blocks of class c in.
Partly(h, c) ==
  Range(size_cache[h][c]) \cup (IF active[h][c].free_count > 0 THEN {active[h][c].span} ELSE {})

\* Each mapped span is in one place and is what its header says: in use, or
\* once in one list of free spans of its size.  A span of small blocks is
\* active, listed as partly used, or full with no heap list leading to it,
\* although frees from any thread come in any order (rpmalloc.c:693-832,
\* 1118-1172).
SpanPlacement ==
  LET taken == Taken
      inUse == InUse
      small == UsedSmall
  IN
  /\ TypeOK
  /\ mapped = inUse \cup UNION {FreeSpans(n) : n \in 1..LargeClassCount}
  /\ \A n \in 1..LargeClassCount :
       /\ \A s \in FreeSpans(n) : SpanCount[s] = n /\ s \notin inUse
       /\ ListedOnce(n)
  /\ \A s \in inUse \ small :
       /\ Cardinality({b \in taken : SpanOf(b) = s}) = 1
       /\ SpanCount[s] > LargeClassCount \/ SpanCount[s] = Spans(size_class[s])
  /\ \A h \in Heap, c \in SmallClass :
       /\ Partly(h, c) = {s \in small : /\ span_heap[s] = h /\ size_class[s] = c
                                        /\ BlockData(h, s).free_count > 0}
       /\ Cardinality(Partly(h, c)) =
            Len(size_cache[h][c]) + (IF active[h][c].free_count > 0 THEN 1 ELSE 0)

\* The k-th free block of a span with bookkeeping bd, on the path that
\* allocation will take.
FreeSlot(s, bd) ==
  LET f[k \in 0..MaxBlocks] ==
        IF k = 0 THEN bd.free_list
        ELSE IF f[k - 1] >= bd.first_autolink THEN f[k - 1] + 1
        ELSE IF f[k - 1] \in Slot THEN IndexIn(word[<<s, f[k - 1]>>]) ELSE Stale
  IN f

\* The free list through the blocks, the autolink past the never used ones and
\* the count agree with what is in use: allocation will find each free block
\* once, though the same words held the program's data and other threads'
\* links in between, and no free block is forgotten (rpmalloc.c:697-739,
\* 1155-1171, 1284-1298).
FreeListsExact ==
  LET taken == Taken IN
  \A s \in UsedSmall :
     LET bd == BlockData(span_heap[s], s)
         free == {i \in 0..(BlockCount[size_class[s]] - 1) : <<s, i>> \notin taken}
     IN /\ bd.free_count = Cardinality(free)
        /\ {FreeSlot(s, bd)[k] : k \in 0..(Cardinality(free) - 1)} = free

\* Frees of other threads' blocks wait where their owner will look: each is
\* once on the list of the heap its span names, or in the hands of one
\* thread, and the lists end (rpmalloc.c:1241-1298).
DeferredIntact ==
  /\ \A h \in Heap : Ends(defer[h]) /\ \A b \in Queued(h) : span_heap[SpanOf(b)] = h
  /\ \A t \in Thread :
       /\ at[t] = "drain" => Ends(p[t]) /\ \A b \in AtHand(t) : span_heap[SpanOf(b)] = HeapOf(t)
       /\ \A h \in Heap : AtHand(t) \cap Queued(h) = {}
       /\ \A u \in Thread \ {t} : AtHand(t) \cap AtHand(u) = {}
  /\ Pending \cap live = {}

\* No free block is lost, listed twice or handed out while its free is on the way.
BlocksIntact == FreeListsExact /\ DeferredIntact

\* The id in a header leads to a heap that is still there: a free by another
\* thread follows it without looking whether it found one, long after the
\* thread that allocated has ended and while other heaps are linked in the same
\* bucket (rpmalloc.c:434-444, 1025-1030, 1289-1294).
HeapsFound ==
  Closing \/ /\ Life!HeapsFound
             /\ \A s \in Span : span_heap[s] # NoHeap =>
                                 Life!HeapLookup(span_heap[s]) = span_heap[s]

\* The memory of a block.
Cells(b) ==
  IF span_heap[SpanOf(b)] # NoHeap /\ size_class[SpanOf(b)] \in SmallClass
  THEN {b} ELSE {SpanOf(b)} \X Slot

\* The memory that can be one block, and the blocks the program has.
Memory == {{b} : b \in Block} \cup {{s} \X Slot : s \in Span}
ClientMemory == {Cells(b) : b \in live}

\* rpmalloc implements the abstract pool: every block it returns is memory
\* nobody has.
Pool == INSTANCE BlockPool WITH Blocks <- Memory, inUse <- ClientMemory
IsBlockPool == Pool!BSpec

\* When the program has freed everything and rpmalloc_finalize returns, no
\* span is left mapped, wherever it was cached and whatever was still on a
\* deferred list (rpmalloc.c:1562-1667).
FinalizeUnmapsAll ==
  [][\A t \in Thread : at[t] = "closing" /\ at'[t] = "closed" => mapped' = {}]_vars
=============================================================================
