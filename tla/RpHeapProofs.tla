---------------------------- MODULE RpHeapProofs ----------------------------
(***************************************************************************)
(* Proofs about the heaps of rpmalloc.c, for any number of threads, heaps, *)
(* buckets, spans and blocks.  The id in the header of a span leads to its *)
(* heap, whatever threads start, end and adopt heaps meanwhile.  While no  *)
(* two threads have one heap, each span has one place, deferred frees lead *)
(* to their ends, the heaps are the pool of BlockPool, and                 *)
(* rpmalloc_finalize leaves nothing mapped.  No two threads have one heap  *)
(* while no thread ends.                                                   *)
(***************************************************************************)
EXTENDS RpHeap, SequenceFacts, TLAPS
-----------------------------------------------------------------------------
(* The table of heaps: the inductive invariant *)

HeapOrNone == Life!HeapOrNone
Bucket == Life!Bucket
BucketOf(h) == Life!BucketOf(h)

\* Where a thread is in the functions of OrphanHeaps, and in those of RpHeap.
HeapLabel == {"map", "next", "pop", "link", "swap", "push"}
CloseLabel == {"unmap", "closing", "closed"}
Label == HeapLabel \cup CloseLabel \cup {"idle", "defer", "take", "drain", "refill", "release"}

\* A thread that works off deferred frees has a reason to go on for; only
\* rpmalloc_finalize unmaps, and it does nothing else.
Phases ==
  /\ at \in [Thread -> Label]
  /\ why \in [Thread -> {"none", "alloc", "collect", "end", "close"}]
  /\ \A t \in Thread : /\ at[t] \in {"take", "drain"} => why[t] # "none"
                       /\ at[t] \in CloseLabel => why[t] = "close"
                       /\ why[t] = "close" => at[t] \in CloseLabel \cup {"take", "drain"}

HeapTypes ==
  /\ heap_id \in 0..MaxHeaps
  /\ heaps \in [Bucket -> HeapOrNone]
  /\ next_heap \in [Heap -> HeapOrNone]
  /\ orphan_heaps \in HeapOrNone
  /\ next_orphan \in [Heap -> HeapOrNone]
  /\ thread_heap \in [Thread -> HeapOrNone]
  /\ heap \in [Thread -> HeapOrNone]
  /\ next \in [Thread -> HeapOrNone]
  /\ span_heap \in [Span -> HeapOrNone]

\* The heaps that are mapped and that no thread is about to link.
Links(t) == at[t] \in {"link", "swap"}
Linked == {h \in 1..heap_id : \A t \in Thread : Links(t) => heap[t] # h}

\* Each new heap is one thread's until it is linked, and its next is what that
\* thread will compare the bucket with.
NewHeaps ==
  /\ \A t \in Thread : Links(t) => heap[t] \in 1..heap_id
  /\ \A t, u \in Thread : t # u /\ Links(t) /\ Links(u) => heap[t] # heap[u]
  /\ \A t \in Thread : at[t] = "swap" => next_heap[heap[t]] = next[t]

HeapAt(c, i) == IF i \in 1..Len(c) THEN c[i] ELSE NoHeap

\* The heaps of bucket b are those of c in turn.
Chains(b, c) ==
  /\ c \in Seq(Heap) /\ NoRepeat(c)
  /\ heaps[b] = HeapAt(c, 1)
  /\ \A i \in 1..Len(c) : next_heap[c[i]] = HeapAt(c, i + 1)
  /\ Range(c) = {h \in Linked : BucketOf(h) = b}

\* Whoever has a heap's id or its address has those of a linked heap.
Known(h) == h = NoHeap \/ h \in Linked
AllKnown ==
  /\ Known(orphan_heaps)
  /\ \A h \in Heap : Known(next_orphan[h])
  /\ \A t \in Thread : /\ Known(thread_heap[t])
                       /\ at[t] \in {"next", "pop"} => heap[t] \in Linked
                       /\ at[t] \in {"pop", "push"} => Known(next[t])
  /\ \A s \in Span : Known(span_heap[s])

HeapsLinked ==
  /\ HeapTypes
  /\ NewHeaps
  /\ \A b \in Bucket : \E c : Chains(b, c)
  /\ AllKnown

HeapsInv == Phases /\ (Closing \/ HeapsLinked)

\* What the constants are.
LEMMA HeapSets ==
  /\ MaxHeaps \in Nat /\ Heap = 1..MaxHeaps /\ NoHeap = 0 /\ NoHeap \notin Heap
  /\ HeapOrNone = 0..MaxHeaps
  /\ \A h \in Nat : BucketOf(h) \in Bucket
<1>1. /\ MaxHeaps \in Nat /\ Heap = 1..MaxHeaps /\ NoHeap = 0
      /\ HeapOrNone = (1..MaxHeaps) \cup {0}
  BY HeapAssumption DEF Heap, NoHeap, HeapOrNone, Life!Heap, Life!NoHeap, Life!HeapOrNone
<1>2. ASSUME NEW h \in Nat PROVE BucketOf(h) \in Bucket
  <2>1. BucketOf(h) = h % HeapArraySize /\ Bucket = 0..(HeapArraySize - 1)
    BY DEF BucketOf, Bucket, Life!BucketOf, Life!Bucket
  <2> QED BY <2>1, HeapAssumption
<1> QED BY <1>1, <1>2
LEMMA SameSets ==
  Heap' = Heap /\ HeapOrNone' = HeapOrNone /\ Bucket' = Bucket /\ NoHeap' = NoHeap
BY DEF Heap, Life!Heap, HeapOrNone, Life!HeapOrNone, Bucket, Life!Bucket, NoHeap, Life!NoHeap
-----------------------------------------------------------------------------
(* Phases *)

Reason == {"none", "alloc", "collect", "end", "close"}

\* One thread goes on for a reason that fits.
LEMMA PhaseMove ==
  ASSUME Phases, NEW t \in Thread, NEW l \in Label, NEW r \in Reason,
         at' = [at EXCEPT ![t] = l], why' = [why EXCEPT ![t] = r],
         l \in {"take", "drain"} => r # "none",
         l \in CloseLabel => r = "close",
         r = "close" => l \in CloseLabel \cup {"take", "drain"},
         why[t] = "close" => r = "close"
  PROVE  Phases' /\ (Closing => Closing')
<1>1. at' \in [Thread -> Label] /\ why' \in [Thread -> Reason]
  BY DEF Phases, Reason
<1>2. ASSUME NEW u \in Thread
      PROVE  /\ at'[u] \in {"take", "drain"} => why'[u] # "none"
             /\ at'[u] \in CloseLabel => why'[u] = "close"
             /\ why'[u] = "close" => at'[u] \in CloseLabel \cup {"take", "drain"}
             /\ why[u] = "close" => why'[u] = "close"
  <2>1. CASE u = t
    BY <2>1 DEF Phases
  <2>2. CASE u # t
    <3>1. at'[u] = at[u] /\ why'[u] = why[u]
      BY <2>2 DEF Phases
    <3> QED BY <3>1 DEF Phases
  <2> QED BY <2>1, <2>2
<1> QED BY <1>1, <1>2 DEF Phases, Reason, Closing

\* Where the caller of _memory_deallocate_deferred goes on.
LEMMA CallerFacts ==
  ASSUME NEW r \in Reason \ {"none"}
  PROVE  /\ Caller(r) \in Label \ HeapLabel
         /\ Caller(r) \notin {"take", "drain"}
         /\ Caller(r) \in CloseLabel <=> r = "close"
BY DEF Caller, Reason, Label, HeapLabel, CloseLabel

\* A thread's move among the labels of RpHeap.
Elsewhere(t) ==
  /\ at[t] \notin HeapLabel
  /\ \E l \in Label \ HeapLabel : at' = [at EXCEPT ![t] = l]
  /\ Phases' /\ (Closing => Closing')

\* The first access of _memory_deallocate_deferred.
LEMMA LoadDeferredMoves ==
  ASSUME Phases, NEW t \in Thread, NEW h, NEW r \in Reason \ {"none"},
         LoadDeferred(t, h, r), at[t] \notin HeapLabel, why[t] = "close" => r = "close"
  PROVE  Elsewhere(t) /\ UNCHANGED <<lifeVars, span_heap>>
<1> DEFINE l == IF defer[h] = Null THEN Caller(r) ELSE "take"
<1>1. at' = [at EXCEPT ![t] = l] /\ why' = [why EXCEPT ![t] = r] /\ UNCHANGED <<lifeVars, span_heap>>
  BY DEF LoadDeferred, Goto, Life!Goto, spanVars
<1>2. /\ l \in Label \ HeapLabel
      /\ l \in CloseLabel => r = "close"
      /\ r = "close" => l \in CloseLabel \cup {"take", "drain"}
  BY CallerFacts DEF Label, HeapLabel, CloseLabel
<1> HIDE DEF l
<1>3. Phases' /\ (Closing => Closing')
  BY <1>1, <1>2, PhaseMove
<1> QED BY <1>1, <1>2, <1>3 DEF Elsewhere

\* A thread that goes on to l and keeps its reason, or drops it.
LEMMA GotoMoves ==
  ASSUME Phases, NEW t \in Thread, NEW l \in Label \ HeapLabel, at' = [at EXCEPT ![t] = l],
         at[t] \notin HeapLabel, NEW r \in Reason, why' = [why EXCEPT ![t] = r],
         r = why[t] \/ (r = "none" /\ why[t] # "close"),
         l \in {"take", "drain"} => r # "none",
         l \in CloseLabel <=> r = "close" /\ l \notin {"take", "drain"}
  PROVE  Elsewhere(t)
<1>1. Phases' /\ (Closing => Closing')
  BY PhaseMove
<1> QED BY <1>1 DEF Elsewhere

\* Each header keeps its heap, or gets that of thread t, or none.
HeadersBy(t) ==
  /\ span_heap' \in [Span -> HeapOrNone]
  /\ \A s \in Span : span_heap'[s] \in {span_heap[s], thread_heap[t], NoHeap}

LEMMA HeaderWritten ==
  ASSUME span_heap \in [Span -> HeapOrNone], NEW t \in Thread, thread_heap \in [Thread -> HeapOrNone],
         NEW s, NEW h \in {thread_heap[t], NoHeap},
         span_heap' = [span_heap EXCEPT ![s] = h] \/ span_heap' = span_heap
  PROVE  HeadersBy(t)
BY HeapSets DEF HeadersBy

\* A block freed to a heap.
LEMMA FreeToHeapHeaders ==
  ASSUME span_heap \in [Span -> HeapOrNone], NEW t \in Thread, thread_heap \in [Thread -> HeapOrNone],
         NEW h, NEW b, FreeToHeap(h, b)
  PROVE  HeadersBy(t)
<1> DEFINE s == SpanOf(b)
<1>1. span_heap' = [span_heap EXCEPT ![s] = NoHeap] \/ span_heap' = span_heap
  BY DEF FreeToHeap, FreeLast, FreeInSpan, FreeLarge, CacheInsert, Forget, Owned
<1> HIDE DEF s
<1> QED BY <1>1, HeaderWritten

\* A call that returns at once.
LEMMA StayMoves ==
  ASSUME Phases, NEW t \in Thread, at[t] \notin HeapLabel, UNCHANGED <<at, why>>
  PROVE  Elsewhere(t)
<1>1. PICK l : l = at[t]
  OBVIOUS
<1>2. l \in Label \ HeapLabel /\ at' = [at EXCEPT ![t] = l]
  BY <1>1 DEF Phases
<1>3. Phases' /\ (Closing => Closing')
  BY DEF Phases, Closing, Label, HeapLabel, CloseLabel
<1> QED BY <1>2, <1>3 DEF Elsewhere

LEMMA IdleFacts ==
  ASSUME Phases, NEW t \in Thread, at[t] \in {"idle", "refill", "release", "defer"}
  PROVE  at[t] \notin HeapLabel /\ why[t] \in Reason /\ why[t] # "close"
BY DEF Phases, HeapLabel, CloseLabel, Reason

\* Calls of the program.
LEMMA CallSteps ==
  ASSUME Phases, NEW t \in Thread, Call(t)
  PROVE  Elsewhere(t) /\ UNCHANGED lifeVars
<1>1. at[t] = "idle"
  BY DEF Call, Alloc, AllocActive, AllocSmall, AllocLargeCached, AllocLarge, AllocOversized,
         Free, FreeDeferred, FreeOversized, Collect, ThreadFinalize, Finalize, Ready
<1>2. at[t] \notin HeapLabel /\ why[t] \in Reason /\ why[t] # "close"
  BY <1>1, IdleFacts
<1>3. ASSUME NEW h, NEW r \in Reason \ {"none"}, LoadDeferred(t, h, r)
      PROVE  Elsewhere(t) /\ UNCHANGED lifeVars
  BY <1>2, <1>3, LoadDeferredMoves
<1>4. {"alloc", "collect", "end", "close"} = Reason \ {"none"}
  BY DEF Reason
<1>5. ASSUME NEW c, Alloc(t, c) PROVE Elsewhere(t) /\ UNCHANGED lifeVars
  <2>1. CASE AllocActive(t, c)
    BY <2>1, <1>2, StayMoves DEF AllocActive, callVars
  <2>2. CASE AllocSmall(t, c)
    BY <2>2, <1>3, <1>4 DEF AllocSmall
  <2>3. CASE AllocLargeCached(t, c)
    BY <2>3, <1>2, StayMoves DEF AllocLargeCached, callVars
  <2>4. CASE AllocLarge(t, c)
    BY <2>4, <1>3, <1>4 DEF AllocLarge
  <2>5. CASE AllocOversized(t, c)
    BY <2>5, <1>2, StayMoves DEF AllocOversized, callVars
  <2> QED BY <1>5, <2>1, <2>2, <2>3, <2>4, <2>5 DEF Alloc
<1>6. ASSUME NEW b, Free(t, b) \/ FreeOversized(t, b) PROVE Elsewhere(t) /\ UNCHANGED lifeVars
  BY <1>6, <1>2, StayMoves DEF Free, FreeOversized, callVars
<1>7. ASSUME NEW b, FreeDeferred(t, b) PROVE Elsewhere(t) /\ UNCHANGED lifeVars
  <2>1. at' = [at EXCEPT ![t] = "defer"] /\ UNCHANGED <<lifeVars, why>>
    BY <1>7 DEF FreeDeferred, LoadDefer, Goto, Life!Goto
  <2>2. why' = [why EXCEPT ![t] = why[t]]
    BY <2>1 DEF Phases
  <2>3. "defer" \in Label \ HeapLabel /\ "defer" \notin CloseLabel
    BY DEF Label, HeapLabel, CloseLabel
  <2> QED BY <1>2, <2>1, <2>2, <2>3, GotoMoves
<1>8. CASE Collect(t) \/ ThreadFinalize(t) \/ Finalize(t)
  BY <1>8, <1>3, <1>4 DEF Collect, ThreadFinalize, Finalize
<1> QED BY <1>5, <1>6, <1>7, <1>8 DEF Call

\* The steps of a call but those that change the table of heaps or the list of
\* orphans.
LEMMA ContinueSteps ==
  ASSUME Phases, NEW t \in Thread, Continue(t),
         ~ReleaseEnds(t), ~UnmapHeap(t), ~FinalizeEnds(t)
  PROVE  Elsewhere(t) /\ UNCHANGED lifeVars
<1> USE DEF Goto, Life!Goto
<1>1. \A l \in {"idle", "drain", "refill"} : l \in Label \ HeapLabel /\ l \notin CloseLabel
  BY DEF Label, HeapLabel, CloseLabel
<1>2. why = [why EXCEPT ![t] = why[t]] /\ why[t] \in Reason
  BY DEF Phases, Reason
<1>3. CASE DeferSwaps(t)
  <2>1. at[t] = "defer" /\ at' = [at EXCEPT ![t] = "idle"] /\ UNCHANGED <<lifeVars, why>>
    BY <1>3 DEF DeferSwaps
  <2>2. at[t] \notin HeapLabel /\ why[t] # "close"
    BY <2>1, IdleFacts
  <2> QED BY <1>1, <1>2, <2>1, <2>2, GotoMoves
<1>4. CASE DeferRetries(t)
  <2>1. at[t] = "defer" /\ UNCHANGED <<lifeVars, why, at>>
    BY <1>4 DEF DeferRetries, LoadDefer
  <2>2. at[t] \notin HeapLabel
    BY <2>1, IdleFacts
  <2> QED BY <2>1, <2>2, StayMoves
<1>5. ASSUME at[t] \in {"take", "drain"} PROVE why[t] \in Reason \ {"none"} /\ at[t] \notin HeapLabel
  BY <1>5 DEF Phases, Reason, HeapLabel
<1>6. ASSUME at[t] \in {"take", "drain"}, at' = [at EXCEPT ![t] = Caller(why[t])], UNCHANGED <<lifeVars, why>>
      PROVE  Elsewhere(t) /\ UNCHANGED lifeVars
  <2>1. /\ Caller(why[t]) \in Label \ HeapLabel
        /\ Caller(why[t]) \notin {"take", "drain"}
        /\ Caller(why[t]) \in CloseLabel <=> why[t] = "close"
    BY <1>5, <1>6, CallerFacts
  <2> DEFINE l == Caller(why[t])
  <2> HIDE DEF l
  <2>2. at' = [at EXCEPT ![t] = l]
    BY <1>6 DEF l
  <2>3. /\ l \in Label \ HeapLabel
        /\ l \notin {"take", "drain"}
        /\ l \in CloseLabel <=> why[t] = "close"
    BY <2>1 DEF l
  <2> QED BY <1>2, <1>5, <1>6, <2>2, <2>3, GotoMoves
<1>7. ASSUME at[t] \in {"take", "drain"}, at' = [at EXCEPT ![t] = "drain"], UNCHANGED <<lifeVars, why>>
      PROVE  Elsewhere(t) /\ UNCHANGED lifeVars
  <2>1. at[t] \notin HeapLabel /\ why[t] # "none"
    BY <1>5, <1>7
  <2> QED BY <1>1, <1>2, <1>7, <2>1, GotoMoves
<1>8. CASE TakeDeferred(t)
  BY <1>7, <1>8 DEF TakeDeferred, callVars
<1>9. CASE TakeFails(t)
  BY <1>6, <1>9 DEF TakeFails
<1>10. CASE Drain(t)
  <2>1. at[t] = "drain" /\ UNCHANGED <<lifeVars, why>>
        /\ at' = [at EXCEPT ![t] = IF word[p[t]] = Null THEN Caller(why[t]) ELSE "drain"]
    BY <1>10 DEF Drain, DrainTo
  <2>2. CASE word[p[t]] = Null
    BY <1>6, <2>1, <2>2
  <2>3. CASE word[p[t]] # Null
    BY <1>7, <2>1, <2>3
  <2> QED BY <2>2, <2>3
<1>11. CASE Promote(t) \/ NewSpan(t) \/ LargeAgain(t) \/ LargeNew(t)
  <2>1. at[t] = "refill" /\ at' = [at EXCEPT ![t] = "idle"] /\ UNCHANGED lifeVars
        /\ why' = [why EXCEPT ![t] = "none"]
    BY <1>11 DEF Promote, NewSpan, LargeAgain, LargeNew, Returns
  <2>2. at[t] \notin HeapLabel /\ why[t] # "close"
    BY <2>1, IdleFacts
  <2>3. "none" \in Reason
    BY DEF Reason
  <2> QED BY <1>1, <2>1, <2>2, <2>3, GotoMoves
<1>12. CASE Release(t)
  <2>1. at[t] = "release" /\ UNCHANGED <<lifeVars, why, at>>
    BY <1>12 DEF Release, callVars
  <2>2. at[t] \notin HeapLabel
    BY <2>1, IdleFacts
  <2> QED BY <2>1, <2>2, StayMoves
<1>13. CASE NextToClose(t)
  <2>1. LoadDeferred(t, ToClose, "close") /\ "close" \in Reason \ {"none"} /\ at[t] \notin HeapLabel
    BY <1>13 DEF NextToClose, Reason, HeapLabel
  <2> QED BY <2>1, LoadDeferredMoves
<1> QED BY <1>3, <1>4, <1>8, <1>9, <1>10, <1>11, <1>12, <1>13 DEF Continue

\* What every step of RpHeap makes of the headers.
LEMMA Headers ==
  ASSUME span_heap \in [Span -> HeapOrNone], thread_heap \in [Thread -> HeapOrNone],
         NEW t \in Thread, Call(t) \/ Continue(t)
  PROVE  HeadersBy(t)
<1> DEFINE Kept == span_heap' = span_heap
<1>1. ASSUME Kept PROVE HeadersBy(t)
  BY <1>1, HeaderWritten
<1>2. ASSUME NEW s, NEW c, Owned(thread_heap[t], c, s) PROVE HeadersBy(t)
  BY <1>2, HeaderWritten DEF Owned
<1>3. ASSUME NEW h, NEW r, LoadDeferred(t, h, r) PROVE Kept
  BY <1>3 DEF LoadDeferred, spanVars
<1>4. ASSUME NEW c, LargeFromCache(t, c) PROVE HeadersBy(t)
  <2>1. PICK s : span_heap' = [span_heap EXCEPT ![s] = thread_heap[t]] \/ span_heap' = span_heap
    BY <1>4 DEF LargeFromCache
  <2> QED BY <2>1, HeaderWritten
<1>5. ASSUME NEW c, Alloc(t, c) PROVE HeadersBy(t)
  <2>1. CASE AllocActive(t, c)
    BY <2>1, <1>1 DEF AllocActive, spanVars
  <2>2. CASE AllocSmall(t, c) \/ AllocLarge(t, c)
    BY <2>2, <1>1, <1>3 DEF AllocSmall, AllocLarge
  <2>3. CASE AllocLargeCached(t, c)
    BY <2>3, <1>4 DEF AllocLargeCached
  <2>4. CASE AllocOversized(t, c)
    <3>1. PICK s : span_heap' = [span_heap EXCEPT ![s] = NoHeap]
      BY <2>4 DEF AllocOversized
    <3> QED BY <3>1, HeaderWritten
  <2> QED BY <1>5, <2>1, <2>2, <2>3, <2>4 DEF Alloc
<1>6. ASSUME NEW b, Free(t, b) \/ FreeDeferred(t, b) \/ FreeOversized(t, b) PROVE HeadersBy(t)
  <2>1. CASE Free(t, b)
    BY <2>1, FreeToHeapHeaders DEF Free
  <2>2. CASE FreeDeferred(t, b)
    BY <2>2, <1>1 DEF FreeDeferred, LoadDefer, spanVars
  <2>3. CASE FreeOversized(t, b)
    BY <2>3, <1>1 DEF FreeOversized
  <2> QED BY <1>6, <2>1, <2>2, <2>3
<1>7. CASE Collect(t) \/ ThreadFinalize(t) \/ Finalize(t) \/ NextToClose(t)
  BY <1>7, <1>1, <1>3 DEF Collect, ThreadFinalize, Finalize, NextToClose
<1>8. CASE DeferSwaps(t) \/ DeferRetries(t) \/ TakeDeferred(t) \/ TakeFails(t)
  BY <1>8, <1>1 DEF DeferSwaps, DeferRetries, LoadDefer, TakeDeferred, TakeFails, spanVars
<1>9. CASE Drain(t)
  BY <1>9, FreeToHeapHeaders DEF Drain
<1>10. CASE Promote(t)
  BY <1>10, <1>1 DEF Promote, spanVars
<1>11. CASE NewSpan(t) \/ LargeNew(t)
  BY <1>11, <1>2 DEF NewSpan, LargeNew
<1>12. CASE LargeAgain(t)
  BY <1>12, <1>4 DEF LargeAgain
<1>13. CASE Release(t) \/ ReleaseEnds(t) \/ UnmapHeap(t) \/ FinalizeEnds(t)
  BY <1>13, <1>1 DEF Release, ReleaseEnds, UnmapHeap, FinalizeEnds, spanVars
<1> QED BY <1>5, <1>6, <1>7, <1>8, <1>9, <1>10, <1>11, <1>12, <1>13 DEF Call, Continue
-----------------------------------------------------------------------------
(* The table of heaps: every step keeps it linked *)

\* The heaps of a bucket, followed through their links.
LEMMA ChainFollowed ==
  ASSUME NEW b \in Bucket, NEW c, Chains(b, c), Linked \subseteq Heap
  PROVE  Life!InBucket(b) = Range(c)
<1> DEFINE Rec(f, n) == IF n = 0 THEN heaps[b]
                        ELSE IF f[n - 1] = NoHeap THEN NoHeap ELSE next_heap[f[n - 1]]
           w == [n \in 0..MaxHeaps |-> HeapAt(c, n + 1)]
           f == CHOOSE g : g = [n \in 0..MaxHeaps |-> Rec(g, n)]
<1>0. /\ MaxHeaps \in Nat /\ NoHeap \notin Heap /\ c \in Seq(Heap) /\ Len(c) \in Nat
      /\ \A i \in 1..Len(c) : c[i] \in Heap
  BY HeapSets DEF Chains
<1>1. Len(c) <= MaxHeaps
  <2>1. IsFiniteSet(Range(c)) /\ Cardinality(Range(c)) = Len(c) /\ Range(c) \subseteq Heap
    BY <1>0, NoRepeatCardinality, RangeFacts DEF Chains
  <2>2. IsFiniteSet(Heap) /\ Cardinality(Heap) = MaxHeaps
    <3>1. 1 \in Int /\ MaxHeaps \in Int /\ Heap = 1..MaxHeaps
      BY HeapSets
    <3> QED BY <3>1, <1>0, FS_Interval
  <2> QED BY <2>1, <2>2, FS_Subset
<1>2. ASSUME NEW n \in 0..MaxHeaps PROVE w[n] = Rec(w, n)
  <2>1. CASE n = 0
    BY <2>1, <1>0 DEF Chains
  <2>2. CASE n # 0
    <3>1. n - 1 \in 0..MaxHeaps /\ (n - 1) + 1 = n /\ w[n - 1] = HeapAt(c, n)
      BY <2>2, <1>0
    <3>2. CASE n <= Len(c)
      <4>1. n \in 1..Len(c) /\ HeapAt(c, n) = c[n] /\ c[n] # NoHeap
        BY <2>2, <3>2, <1>0 DEF HeapAt
      <4>2. next_heap[c[n]] = HeapAt(c, n + 1)
        BY <4>1 DEF Chains
      <4> QED BY <2>2, <3>1, <4>1, <4>2
    <3>3. CASE ~(n <= Len(c))
      <4>1. HeapAt(c, n) = NoHeap /\ HeapAt(c, n + 1) = NoHeap
        BY <3>3, <1>0 DEF HeapAt
      <4> QED BY <2>2, <3>1, <4>1
    <3> QED BY <3>2, <3>3
  <2> QED BY <2>1, <2>2
<1>3. w = [n \in 0..MaxHeaps |-> Rec(w, n)]
  BY <1>2, SMTT(30)
<1>4. f = [n \in 0..MaxHeaps |-> Rec(f, n)]
  BY <1>3
<1>5. Life!InBucket(b) = {f[n] : n \in 0..MaxHeaps} \ {NoHeap}
  BY DEF Life!InBucket, NoHeap, Life!NoHeap
<1>6. \A n \in 0..MaxHeaps : w[n] = HeapAt(c, n + 1)
  OBVIOUS
<1> HIDE DEF f, w
<1>7. ASSUME NEW n \in 1..MaxHeaps, f[n - 1] = w[n - 1] PROVE f[n] = w[n]
  <2>1. n \in 0..MaxHeaps /\ n # 0
    BY <1>0
  <2>2. f[n] = Rec(f, n) /\ w[n] = Rec(w, n)
    BY <1>2, <1>4, <2>1
  <2> QED BY <2>1, <2>2, <1>7
<1>8. f[0] = w[0]
  <2>1. 0 \in 0..MaxHeaps
    BY <1>0
  <2> QED BY <2>1, <1>2, <1>4
<1>9. \A n \in 0..MaxHeaps : f[n] = w[n]
  <2> DEFINE T == {n \in 0..MaxHeaps : f[n] # w[n]}
  <2>1. SUFFICES ASSUME T # {} PROVE FALSE
    OBVIOUS
  <2>2. T \subseteq Nat
    BY <1>0
  <2>3. T \subseteq 0..MaxHeaps /\ \A n \in 0..MaxHeaps : n \in T <=> f[n] # w[n]
    OBVIOUS
  <2> HIDE DEF T
  <2>4. PICK n \in T : \A m \in T : n <= m
    BY <2>1, <2>2, LeastElement
  <2>5. n \in 1..MaxHeaps /\ n - 1 \in 0..MaxHeaps /\ ~(n <= n - 1)
    BY <2>3, <1>0, <1>8
  <2>6. n - 1 \notin T
    BY <2>4, <2>5
  <2> QED BY <2>3, <2>5, <2>6, <1>7
<1>10. ASSUME NEW n \in 0..MaxHeaps, f[n] # NoHeap PROVE f[n] \in Range(c)
  <2>1. n + 1 \in 1..Len(c) /\ f[n] = c[n + 1]
    BY <1>0, <1>6, <1>9, <1>10 DEF HeapAt
  <2> QED BY <2>1, <1>0, RangeFacts
<1>11. ASSUME NEW h \in Range(c) PROVE h # NoHeap /\ \E n \in 0..MaxHeaps : f[n] = h
  <2>1. PICK i \in 1..Len(c) : h = c[i]
    BY <1>0, RangeFacts
  <2>2. i - 1 \in 0..MaxHeaps /\ (i - 1) + 1 = i
    BY <1>0, <1>1
  <2>3. f[i - 1] = c[i]
    BY <2>2, <1>6, <1>9 DEF HeapAt
  <2> QED BY <2>1, <2>2, <2>3, <1>0
<1> QED BY <1>5, <1>10, <1>11

\* Every linked heap is found by its id.
LEMMA LookupFinds ==
  ASSUME HeapsLinked, NEW h \in Linked
  PROVE  Life!HeapLookup(h) = h
<1>1. h \in 1..heap_id /\ Linked \subseteq Heap /\ h \in Nat
  BY HeapSets DEF Linked, HeapsLinked, HeapTypes
<1>2. BucketOf(h) \in Bucket
  BY <1>1, HeapSets
<1>3. PICK c : Chains(BucketOf(h), c)
  BY <1>2 DEF HeapsLinked
<1>4. h \in Life!InBucket(BucketOf(h))
  BY <1>1, <1>2, <1>3, ChainFollowed DEF Chains
<1> QED BY <1>4 DEF Life!HeapLookup, BucketOf

\* Nothing changes in a bucket.
LEMMA BucketKept ==
  ASSUME NEW b \in Bucket, NEW c, Chains(b, c), heaps'[b] = heaps[b],
         \A h \in Linked : next_heap'[h] = next_heap[h],
         \A h : BucketOf(h) = b => (h \in Linked <=> h \in Linked')
  PROVE  Chains(b, c)'
<1>1. c \in Seq(Heap) /\ NoRepeat(c) /\ Range(c) = {h \in Linked : BucketOf(h) = b}
      /\ heaps[b] = HeapAt(c, 1)
  BY DEF Chains
<1>2. Range(c) = {h \in Linked' : BucketOf(h) = b}
  BY <1>1
<1>3. ASSUME NEW i \in 1..Len(c) PROVE next_heap'[c[i]] = HeapAt(c, i + 1)
  <2>1. c[i] \in Linked
    BY <1>1, RangeFacts
  <2> QED BY <2>1 DEF Chains
<1>4. Chains(b, c)' <=> /\ c \in Seq(Heap) /\ NoRepeat(c)
                        /\ heaps'[b] = HeapAt(c, 1)
                        /\ \A i \in 1..Len(c) : next_heap'[c[i]] = HeapAt(c, i + 1)
                        /\ Range(c) = {h \in Linked' : BucketOf(h) = b}
  BY DEF Chains, Heap, Life!Heap, HeapAt, NoHeap, Life!NoHeap, BucketOf, Life!BucketOf
<1> QED BY <1>1, <1>2, <1>3, <1>4

\* A step that links no heap.
LEMMA BucketsKept ==
  ASSUME HeapsLinked, Linked' = Linked, heaps' = heaps,
         \A h \in Linked : next_heap'[h] = next_heap[h]
  PROVE  \A b \in Bucket : \E c : Chains(b, c)'
<1> SUFFICES ASSUME NEW b \in Bucket PROVE \E c : Chains(b, c)'
  OBVIOUS
<1>1. PICK c : Chains(b, c)
  BY DEF HeapsLinked
<1>2. Chains(b, c)'
  BY <1>1, BucketKept
<1> QED BY <1>2

LEMMA LinkedKept ==
  ASSUME heap_id' = heap_id,
         \A u \in Thread : (Links(u) <=> Links(u)') /\ (Links(u) => heap'[u] = heap[u])
  PROVE  Linked' = Linked
BY DEF Linked

\* A step of RpHeap that leaves the table of heaps alone.
LEMMA ElsewhereKeeps ==
  ASSUME HeapsLinked, Phases, NEW t \in Thread, Elsewhere(t), UNCHANGED lifeVars, HeadersBy(t)
  PROVE  HeapsLinked'
<1>1. /\ UNCHANGED <<heap_id, heaps, next_heap, orphan_heaps, next_orphan, thread_heap, heap, next>>
      /\ at \in [Thread -> Label]
  BY DEF lifeVars, Phases
<1>2. PICK l \in Label \ HeapLabel : at' = [at EXCEPT ![t] = l] /\ at[t] \notin HeapLabel
  BY DEF Elsewhere
<1>3. \A u \in Thread : \A k \in HeapLabel : at'[u] = k <=> at[u] = k
  BY <1>1, <1>2
<1>4. \A u \in Thread : Links(u) <=> Links(u)'
  BY <1>3 DEF Links, HeapLabel
<1>5. Linked' = Linked
  BY <1>1, <1>4, LinkedKept
<1>6. HeapTypes'
  BY <1>1 DEF HeapsLinked, HeapTypes, HeadersBy, Heap, Life!Heap, HeapOrNone, Life!HeapOrNone, Bucket, Life!Bucket
<1>7. NewHeaps'
  <2>1. "swap" \in HeapLabel
    BY DEF HeapLabel
  <2> QED BY <1>1, <1>3, <1>4, <2>1 DEF HeapsLinked, NewHeaps
<1>8. \A b \in Bucket : \E c : Chains(b, c)'
  BY <1>1, <1>5, BucketsKept
<1>9. \A h : Known(h) <=> Known(h)'
  BY <1>5 DEF Known, NoHeap, Life!NoHeap
<1>10. AllKnown'
  <2>1. ASSUME NEW s \in Span PROVE Known(span_heap'[s])
    BY DEF HeapsLinked, AllKnown, HeadersBy, Known
  <2>2. \A k \in {"next", "pop", "push"} : k \in HeapLabel
    BY DEF HeapLabel
  <2>3. \A h \in Heap : Known(next_orphan[h])
    BY DEF HeapsLinked, AllKnown
  <2>4. Heap' = Heap
    BY DEF Heap, Life!Heap
  <2>5. \A u \in Thread : /\ Known(thread_heap[u])
                          /\ at'[u] \in {"next", "pop"} => heap[u] \in Linked
                          /\ at'[u] \in {"pop", "push"} => Known(next[u])
    BY <1>3, <2>2 DEF HeapsLinked, AllKnown
  <2> QED BY <1>1, <1>5, <1>9, <2>1, <2>3, <2>4, <2>5 DEF HeapsLinked, AllKnown
<1> QED BY <1>6, <1>7, <1>8, <1>10 DEF HeapsLinked, Bucket, Life!Bucket


\* What is known is a heap, or none.
LEMMA KnownHeaps ==
  ASSUME HeapTypes
  PROVE  Linked \subseteq Heap /\ Known(NoHeap) /\ \A x : Known(x) => x \in HeapOrNone
<1>1. Linked \subseteq 1..heap_id
  BY DEF Linked
<1>2. 1..heap_id \subseteq 1..MaxHeaps
  BY HeapSets DEF HeapTypes
<1>3. Linked \subseteq Heap
  BY <1>1, <1>2, HeapSets
<1>4. Heap \subseteq HeapOrNone /\ NoHeap \in HeapOrNone
  BY HeapSets
<1> QED BY <1>3, <1>4 DEF Known

\* A step of thread t that links no heap: what it loads or stores is known.
LEMMA HandsOn ==
  ASSUME HeapsLinked, Phases, NEW t \in Thread, ~Links(t),
         UNCHANGED <<heap_id, heaps, next_heap, span_heap>>,
         NEW l \in {"idle", "map", "next", "pop", "push"}, at' = [at EXCEPT ![t] = l],
         NEW a \in HeapOrNone, heap' = [heap EXCEPT ![t] = a],
         l \in {"next", "pop"} => a \in Linked,
         NEW n \in HeapOrNone, next' = [next EXCEPT ![t] = n],
         l \in {"pop", "push"} => Known(n),
         NEW h, Known(h), thread_heap' = [thread_heap EXCEPT ![t] = h],
         Known(orphan_heaps'),
         next_orphan' \in [Heap -> HeapOrNone], \A x \in Heap : Known(next_orphan'[x])
  PROVE  HeapsLinked'
<1>1. /\ HeapTypes /\ NewHeaps /\ AllKnown
      /\ at \in [Thread -> Label] /\ heap \in [Thread -> HeapOrNone]
      /\ next \in [Thread -> HeapOrNone] /\ thread_heap \in [Thread -> HeapOrNone]
  BY DEF HeapsLinked, HeapTypes, Phases
<1>2. /\ \A u \in Thread : u # t => at'[u] = at[u] /\ heap'[u] = heap[u] /\ next'[u] = next[u]
                                   /\ thread_heap'[u] = thread_heap[u]
      /\ at'[t] = l /\ heap'[t] = a /\ next'[t] = n /\ thread_heap'[t] = h
  BY <1>1
<1>3. \A x : Known(x) => x \in HeapOrNone
  BY <1>1, KnownHeaps
<1>4. HeapTypes'
  <2>1. h \in HeapOrNone /\ orphan_heaps' \in HeapOrNone
    BY <1>3
  <2>2. /\ heap' \in [Thread -> HeapOrNone] /\ next' \in [Thread -> HeapOrNone]
        /\ thread_heap' \in [Thread -> HeapOrNone]
    BY <1>1, <2>1
  <2> QED BY <1>1, <2>1, <2>2, SameSets DEF HeapTypes
<1>5. \A u \in Thread : (Links(u) <=> Links(u)') /\ (Links(u) => u # t)
  BY <1>2 DEF Links
<1>6. Linked' = Linked
  BY <1>2, <1>5, LinkedKept
<1>7. NewHeaps'
  <2>1. \A u \in Thread : at'[u] = "swap" => u # t
    BY <1>2
  <2> QED BY <1>1, <1>2, <1>5, <2>1 DEF NewHeaps
<1>8. \A b \in Bucket : \E c : Chains(b, c)'
  BY <1>6, BucketsKept
<1>9. \A x : Known(x) <=> Known(x)'
  BY <1>6, SameSets DEF Known
<1>10. AllKnown'
  <2>1. ASSUME NEW u \in Thread
        PROVE  /\ Known(thread_heap'[u])
               /\ at'[u] \in {"next", "pop"} => heap'[u] \in Linked
               /\ at'[u] \in {"pop", "push"} => Known(next'[u])
    <3>1. CASE u = t
      BY <1>2, <3>1
    <3>2. CASE u # t
      BY <1>1, <1>2, <3>2 DEF AllKnown
    <3> QED BY <3>1, <3>2
  <2>2. \A s \in Span : Known(span_heap[s])
    BY <1>1 DEF AllKnown
  <2> QED BY <1>6, <1>9, <2>1, <2>2, SameSets DEF AllKnown
<1> QED BY <1>4, <1>7, <1>8, <1>10, SameSets DEF HeapsLinked

\* The steps on the list of orphans.
LEMMA OrphanSteps ==
  ASSUME HeapsLinked, Phases, NEW t \in Thread, UNCHANGED span_heap,
         \/ Life!ThreadInitialize(t) \/ Life!ReadNextOrphan(t) \/ Life!PopOrphan(t) \/ Life!PopFails(t)
         \/ Life!PushOrphan(t)
         \/ ~Links(t) /\ Life!LinkOrphan(t, thread_heap[t])
  PROVE  HeapsLinked'
<1> USE DEF Life!Goto, Life!sharedHeapVars, Life!Owns
<1>1. /\ HeapTypes /\ AllKnown /\ NoHeap \in HeapOrNone /\ NoHeap = 0 /\ Life!NoHeap = NoHeap
      /\ at \in [Thread -> Label] /\ heap \in [Thread -> HeapOrNone]
      /\ next \in [Thread -> HeapOrNone] /\ thread_heap \in [Thread -> HeapOrNone]
      /\ orphan_heaps \in HeapOrNone /\ Known(orphan_heaps) /\ Known(NoHeap)
      /\ next_orphan \in [Heap -> HeapOrNone] /\ \A x \in Heap : Known(next_orphan[x])
      /\ Linked \subseteq Heap
  <2>1. HeapTypes /\ AllKnown
    BY DEF HeapsLinked
  <2>2. NoHeap \in HeapOrNone /\ NoHeap = 0 /\ Life!NoHeap = NoHeap
    BY HeapSets DEF NoHeap
  <2> QED BY <2>1, <2>2, KnownHeaps DEF HeapTypes, Phases, AllKnown
<1>2. /\ heap = [heap EXCEPT ![t] = heap[t]]
      /\ next = [next EXCEPT ![t] = next[t]]
      /\ thread_heap = [thread_heap EXCEPT ![t] = thread_heap[t]]
      /\ heap[t] \in HeapOrNone /\ next[t] \in HeapOrNone /\ Known(thread_heap[t])
      /\ thread_heap[t] \in HeapOrNone
      /\ at[t] \in {"next", "pop"} => heap[t] \in Linked
      /\ at[t] \in {"pop", "push"} => Known(next[t])
  BY <1>1 DEF AllKnown
<1>3. at[t] \in {"idle", "next", "pop", "push"} => ~Links(t)
  BY DEF Links
<1>4. CASE Life!ThreadInitialize(t) \/ Life!PopFails(t)
  <2> DEFINE l == IF orphan_heaps = NoHeap THEN "map" ELSE "next"
             n == next'[t]
  <2>1. /\ ~Links(t) /\ UNCHANGED <<heap_id, heaps, next_heap, orphan_heaps, next_orphan, thread_heap>>
        /\ at' = [at EXCEPT ![t] = l] /\ heap' = [heap EXCEPT ![t] = orphan_heaps]
        /\ next' = next \/ next' = [next EXCEPT ![t] = NoHeap]
    BY <1>1, <1>3, <1>4 DEF Life!ThreadInitialize, Life!LoadOrphan, Life!PopFails
  <2>2. n \in HeapOrNone /\ next' = [next EXCEPT ![t] = n]
    BY <1>1, <1>2, <2>1
  <2>3. /\ l \in {"idle", "map", "next", "pop", "push"} /\ l \notin {"pop", "push"}
        /\ l \in {"next", "pop"} => orphan_heaps \in Linked
    BY <1>1 DEF Known
  <2> HIDE DEF l, n
  <2> QED BY <1>1, <1>2, <2>1, <2>2, <2>3, HandsOn
<1>5. CASE Life!ReadNextOrphan(t)
  <2>1. /\ at[t] = "next" /\ next' = [next EXCEPT ![t] = next_orphan[heap[t]]]
        /\ at' = [at EXCEPT ![t] = "pop"]
        /\ UNCHANGED <<heap_id, heaps, next_heap, orphan_heaps, next_orphan, thread_heap, heap>>
    BY <1>5 DEF Life!ReadNextOrphan
  <2>2. heap[t] \in Linked /\ next_orphan[heap[t]] \in HeapOrNone /\ Known(next_orphan[heap[t]])
    BY <1>1, <1>2, <2>1
  <2> QED BY <1>1, <1>2, <1>3, <2>1, <2>2, HandsOn
<1>6. CASE Life!PopOrphan(t)
  <2>1. /\ at[t] = "pop" /\ orphan_heaps' = next[t]
        /\ next_orphan' = [next_orphan EXCEPT ![heap[t]] = NoHeap]
        /\ thread_heap' = [thread_heap EXCEPT ![t] = heap[t]]
        /\ heap' = [heap EXCEPT ![t] = NoHeap] /\ next' = [next EXCEPT ![t] = NoHeap]
        /\ at' = [at EXCEPT ![t] = "idle"]
        /\ UNCHANGED <<heap_id, heaps, next_heap>>
    BY <1>1, <1>6 DEF Life!PopOrphan
  <2>2. Known(heap[t]) /\ Known(next[t])
    BY <1>2, <2>1 DEF Known
  <2>3. next_orphan' \in [Heap -> HeapOrNone] /\ \A x \in Heap : Known(next_orphan'[x])
    BY <1>1, <2>1
  <2> QED BY <1>1, <1>2, <1>3, <2>1, <2>2, <2>3, HandsOn
<1>7. ASSUME ~Links(t), Life!LinkOrphan(t, thread_heap[t]) PROVE HeapsLinked'
  <2>1. /\ next' = [next EXCEPT ![t] = orphan_heaps]
        /\ next_orphan' = [next_orphan EXCEPT ![thread_heap[t]] = orphan_heaps]
        /\ at' = [at EXCEPT ![t] = "push"]
        /\ UNCHANGED <<heap_id, heaps, next_heap, orphan_heaps, thread_heap, heap>>
    BY <1>7 DEF Life!LinkOrphan
  <2>2. next_orphan' \in [Heap -> HeapOrNone] /\ \A x \in Heap : Known(next_orphan'[x])
    BY <1>1, <2>1
  <2> QED BY <1>1, <1>2, <1>7, <2>1, <2>2, HandsOn
<1>8. CASE Life!PushOrphan(t)
  <2>1. /\ at[t] = "push" /\ orphan_heaps' = thread_heap[t]
        /\ thread_heap' = [thread_heap EXCEPT ![t] = NoHeap]
        /\ heap' = [heap EXCEPT ![t] = NoHeap] /\ next' = [next EXCEPT ![t] = NoHeap]
        /\ at' = [at EXCEPT ![t] = "idle"]
        /\ UNCHANGED <<heap_id, heaps, next_heap, next_orphan>>
    BY <1>1, <1>8 DEF Life!PushOrphan
  <2> QED BY <1>1, <1>2, <1>3, <2>1, HandsOn
<1> QED BY <1>4, <1>5, <1>6, <1>7, <1>8

\* The parts of the invariant.
LEMMA Parts ==
  ASSUME HeapsLinked, Phases
  PROVE  /\ HeapTypes /\ NewHeaps /\ AllKnown
         /\ at \in [Thread -> Label] /\ heap \in [Thread -> HeapOrNone]
         /\ next \in [Thread -> HeapOrNone] /\ thread_heap \in [Thread -> HeapOrNone]
         /\ next_heap \in [Heap -> HeapOrNone] /\ heaps \in [Bucket -> HeapOrNone]
         /\ heap_id \in Nat /\ heap_id \in 0..MaxHeaps /\ MaxHeaps \in Nat
         /\ NoHeap = 0 /\ NoHeap \in HeapOrNone
<1>1. HeapTypes /\ NewHeaps /\ AllKnown
  BY DEF HeapsLinked
<1>2. NoHeap = 0 /\ NoHeap \in HeapOrNone /\ MaxHeaps \in Nat
  BY HeapSets
<1> QED BY <1>1, <1>2 DEF HeapTypes, Phases

\* A new heap gets the next id; nobody else has it.
LEMMA MapHeapStep ==
  ASSUME HeapsLinked, Phases, NEW t \in Thread, UNCHANGED span_heap, Life!MapHeap(t)
  PROVE  HeapsLinked'
<1> DEFINE k == heap_id + 1
<1>1. /\ HeapTypes /\ NewHeaps /\ AllKnown
      /\ at \in [Thread -> Label] /\ heap \in [Thread -> HeapOrNone]
      /\ heap_id \in Nat /\ MaxHeaps \in Nat /\ NoHeap = 0
  BY Parts
<1>2. /\ heap_id < MaxHeaps /\ heap_id' = k /\ heap' = [heap EXCEPT ![t] = k]
      /\ at[t] = "map" /\ at' = [at EXCEPT ![t] = "link"]
      /\ UNCHANGED <<heaps, next_heap, orphan_heaps, next_orphan, thread_heap, next>>
  BY DEF Life!MapHeap, Life!Goto
<1>3. k \in Nat /\ k \in HeapOrNone /\ k \notin 1..heap_id /\ k \in 1..k
      /\ heap_id' \in 0..MaxHeaps /\ 1..k = 1..heap_id \cup {k}
  BY <1>1, <1>2, HeapSets
<1> HIDE DEF k
<1>4. /\ \A u \in Thread : u # t => at'[u] = at[u] /\ heap'[u] = heap[u]
      /\ at'[t] = "link" /\ heap'[t] = k
  BY <1>1, <1>2
<1>5. HeapTypes'
  <2>1. heap' \in [Thread -> HeapOrNone]
    BY <1>1, <1>2, <1>3
  <2> QED BY <1>1, <1>2, <1>3, <2>1, SameSets DEF HeapTypes
<1>6. \A u \in Thread : /\ Links(u)' <=> Links(u) \/ u = t
                        /\ Links(u) => u # t /\ heap[u] \in 1..heap_id
  BY <1>1, <1>2, <1>4 DEF Links, NewHeaps
<1>7. Linked' = Linked
  <2>1. ASSUME NEW h \in Linked PROVE h \in Linked'
    <3>1. h \in 1..heap_id' /\ h # k /\ \A u \in Thread : Links(u) => heap[u] # h
      BY <1>2, <1>3 DEF Linked
    <3>2. \A u \in Thread : Links(u)' => heap'[u] # h
      BY <1>4, <1>6, <3>1
    <3> QED BY <3>1, <3>2 DEF Linked
  <2>2. ASSUME NEW h \in Linked' PROVE h \in Linked
    <3>1. h \in 1..k /\ \A u \in Thread : Links(u)' => heap'[u] # h
      BY <1>2 DEF Linked
    <3>2. h # k
      BY <1>4, <1>6, <3>1
    <3>3. \A u \in Thread : Links(u) => heap[u] # h
      BY <1>4, <1>6, <3>1
    <3> QED BY <1>3, <3>1, <3>2, <3>3 DEF Linked
  <2> QED BY <2>1, <2>2
<1>8. NewHeaps'
  <2>1. \A u \in Thread : Links(u)' => heap'[u] \in 1..heap_id'
    BY <1>2, <1>3, <1>4, <1>6
  <2>2. ASSUME NEW u \in Thread, NEW v \in Thread, u # v, Links(u)', Links(v)'
        PROVE  heap'[u] # heap'[v]
    BY <1>1, <1>3, <1>4, <1>6, <2>2 DEF NewHeaps
  <2>3. \A u \in Thread : at'[u] = "swap" => next_heap'[heap'[u]] = next'[u]
    BY <1>1, <1>2, <1>4 DEF NewHeaps
  <2> QED BY <2>1, <2>2, <2>3 DEF NewHeaps
<1>9. \A b \in Bucket : \E c : Chains(b, c)'
  BY <1>2, <1>7, BucketsKept
<1>10. AllKnown'
  BY <1>1, <1>2, <1>4, <1>7, SameSets DEF AllKnown, Known
<1> QED BY <1>5, <1>8, <1>9, <1>10, SameSets DEF HeapsLinked

\* The new heap's next is the head of its bucket.
LEMMA LinkHeapStep ==
  ASSUME HeapsLinked, Phases, NEW t \in Thread, UNCHANGED span_heap, Life!LinkHeap(t)
  PROVE  HeapsLinked'
<1> DEFINE k == heap[t]
           d == heaps[BucketOf(k)]
<1>1. /\ HeapTypes /\ NewHeaps /\ AllKnown
      /\ at \in [Thread -> Label] /\ next \in [Thread -> HeapOrNone]
      /\ next_heap \in [Heap -> HeapOrNone] /\ heaps \in [Bucket -> HeapOrNone]
      /\ heap_id \in Nat /\ MaxHeaps \in Nat
  BY Parts
<1>2. /\ at[t] = "link" /\ at' = [at EXCEPT ![t] = "swap"]
      /\ next' = [next EXCEPT ![t] = d] /\ next_heap' = [next_heap EXCEPT ![k] = d]
      /\ UNCHANGED <<heap_id, heaps, orphan_heaps, next_orphan, thread_heap, heap>>
  BY DEF Life!LinkHeap, Life!Goto, BucketOf
<1>3. Links(t) /\ k \in 1..heap_id
  BY <1>1, <1>2 DEF Links, NewHeaps
<1>4. k \in Heap /\ k \in Nat /\ d \in HeapOrNone
  <2>1. k \in Heap /\ k \in Nat
    BY <1>1, <1>3, HeapSets DEF HeapTypes
  <2> QED BY <1>1, <2>1, HeapSets
<1> HIDE DEF k, d
<1>5. /\ \A u \in Thread : u # t => at'[u] = at[u] /\ next'[u] = next[u]
      /\ at'[t] = "swap" /\ next'[t] = d
      /\ next_heap'[k] = d /\ \A h \in Heap : h # k => next_heap'[h] = next_heap[h]
      /\ next' \in [Thread -> HeapOrNone] /\ next_heap' \in [Heap -> HeapOrNone]
  BY <1>1, <1>2, <1>4
<1>6. HeapTypes'
  BY <1>1, <1>2, <1>5, SameSets DEF HeapTypes
<1>7. \A u \in Thread : Links(u) <=> Links(u)'
  BY <1>2, <1>5 DEF Links
<1>8. Linked' = Linked
  BY <1>2, <1>7, LinkedKept
<1>9. k \notin Linked /\ Linked \subseteq Heap
  BY <1>1, <1>3, KnownHeaps DEF Linked, k
<1>10. NewHeaps'
  <2>1. ASSUME NEW u \in Thread, at'[u] = "swap" PROVE next_heap'[heap[u]] = next'[u]
    <3>1. CASE u = t
      BY <1>5, <3>1 DEF k
    <3>2. CASE u # t
      <4>1. at[u] = "swap" /\ Links(u) /\ heap[u] # k /\ heap[u] \in 1..heap_id
        BY <1>1, <1>3, <1>5, <2>1, <3>2 DEF NewHeaps, Links, k
      <4>2. heap[u] \in Heap
        BY <1>1, <4>1, HeapSets DEF HeapTypes
      <4> QED BY <1>1, <1>5, <3>2, <4>1, <4>2 DEF NewHeaps
    <3> QED BY <3>1, <3>2
  <2> QED BY <1>1, <1>2, <1>7, <2>1 DEF NewHeaps
<1>11. \A b \in Bucket : \E c : Chains(b, c)'
  <2>1. \A h \in Linked : next_heap'[h] = next_heap[h]
    BY <1>5, <1>9
  <2> QED BY <1>2, <1>8, <2>1, BucketsKept
<1>12. AllKnown'
  BY <1>1, <1>2, <1>5, <1>8, SameSets DEF AllKnown, Known
<1> QED BY <1>6, <1>10, <1>11, <1>12, SameSets DEF HeapsLinked

\* The swap failed: the head is loaded again.
LEMMA SwapBucketFailsStep ==
  ASSUME HeapsLinked, Phases, NEW t \in Thread, UNCHANGED span_heap, Life!SwapBucketFails(t)
  PROVE  HeapsLinked'
<1>1. /\ HeapTypes /\ NewHeaps /\ AllKnown
      /\ at \in [Thread -> Label] /\ next \in [Thread -> HeapOrNone] /\ NoHeap \in HeapOrNone
  BY Parts
<1>2. /\ at[t] = "swap" /\ at' = [at EXCEPT ![t] = "link"]
      /\ next' = [next EXCEPT ![t] = NoHeap]
      /\ UNCHANGED <<heap_id, heaps, next_heap, orphan_heaps, next_orphan, thread_heap, heap>>
  BY DEF Life!SwapBucketFails, Life!Goto, Life!sharedHeapVars, NoHeap
<1>3. /\ \A u \in Thread : u # t => at'[u] = at[u] /\ next'[u] = next[u]
      /\ at'[t] = "link" /\ next' \in [Thread -> HeapOrNone]
  BY <1>1, <1>2
<1>4. HeapTypes'
  BY <1>1, <1>2, <1>3, SameSets DEF HeapTypes
<1>5. \A u \in Thread : Links(u) <=> Links(u)'
  BY <1>2, <1>3 DEF Links
<1>6. Linked' = Linked
  BY <1>2, <1>5, LinkedKept
<1>7. NewHeaps'
  <2>1. \A u \in Thread : at'[u] = "swap" => next_heap[heap[u]] = next'[u]
    BY <1>1, <1>3 DEF NewHeaps
  <2> QED BY <1>1, <1>2, <1>5, <2>1 DEF NewHeaps
<1>8. \A b \in Bucket : \E c : Chains(b, c)'
  BY <1>2, <1>6, BucketsKept
<1>9. AllKnown'
  BY <1>1, <1>2, <1>3, <1>6, SameSets DEF AllKnown, Known
<1> QED BY <1>4, <1>7, <1>8, <1>9, SameSets DEF HeapsLinked

\* The new heap goes before the others of its bucket.
LEMMA SwapBucketStep ==
  ASSUME HeapsLinked, Phases, NEW t \in Thread, UNCHANGED span_heap, Life!SwapBucket(t)
  PROVE  HeapsLinked'
<1> DEFINE k == heap[t]
           d == BucketOf(k)
<1>1. /\ HeapTypes /\ NewHeaps /\ AllKnown
      /\ at \in [Thread -> Label] /\ heap \in [Thread -> HeapOrNone]
      /\ next \in [Thread -> HeapOrNone] /\ thread_heap \in [Thread -> HeapOrNone]
      /\ next_heap \in [Heap -> HeapOrNone] /\ heaps \in [Bucket -> HeapOrNone]
      /\ heap_id \in Nat /\ heap_id \in 0..MaxHeaps /\ MaxHeaps \in Nat
      /\ NoHeap = 0 /\ NoHeap \in HeapOrNone
  BY Parts
<1>2. /\ at[t] = "swap" /\ heaps[d] = next[t]
      /\ heaps' = [heaps EXCEPT ![d] = k] /\ thread_heap' = [thread_heap EXCEPT ![t] = k]
      /\ heap' = [heap EXCEPT ![t] = NoHeap] /\ next' = [next EXCEPT ![t] = NoHeap]
      /\ at' = [at EXCEPT ![t] = "idle"]
      /\ UNCHANGED <<heap_id, next_heap, orphan_heaps, next_orphan>>
  BY DEF Life!SwapBucket, Life!Owns, Life!Goto, BucketOf, NoHeap
<1>3. Links(t) /\ k \in 1..heap_id /\ next_heap[k] = heaps[d]
  BY <1>1, <1>2 DEF Links, NewHeaps
<1>4. k \in Heap /\ k \in HeapOrNone /\ k \in Nat /\ k # NoHeap
  BY <1>1, <1>3, HeapSets
<1>5. d \in Bucket
  BY <1>4, HeapSets
<1> HIDE DEF k, d
<1>6. /\ \A u \in Thread : u # t => at'[u] = at[u] /\ heap'[u] = heap[u] /\ next'[u] = next[u]
                                   /\ thread_heap'[u] = thread_heap[u]
      /\ at'[t] = "idle" /\ thread_heap'[t] = k
      /\ heaps'[d] = k /\ \A b \in Bucket : b # d => heaps'[b] = heaps[b]
  BY <1>1, <1>2, <1>5
<1>7. HeapTypes'
  <2>1. /\ heaps' \in [Bucket -> HeapOrNone] /\ thread_heap' \in [Thread -> HeapOrNone]
        /\ heap' \in [Thread -> HeapOrNone] /\ next' \in [Thread -> HeapOrNone]
    BY <1>1, <1>2, <1>4
  <2> QED BY <1>1, <1>2, <2>1, SameSets DEF HeapTypes
<1>8. \A u \in Thread : /\ Links(u)' <=> Links(u) /\ u # t
                        /\ Links(u) /\ u # t => heap[u] # k
  BY <1>1, <1>3, <1>6 DEF Links, NewHeaps, k
<1>9. \A h : h \in Linked' <=> h \in Linked \/ h = k
  <2>1. ASSUME NEW h \in Linked PROVE h \in Linked'
    <3>1. h \in 1..heap_id /\ \A u \in Thread : Links(u) => heap[u] # h
      BY DEF Linked
    <3>2. \A u \in Thread : Links(u)' => heap'[u] # h
      BY <1>6, <1>8, <3>1
    <3> QED BY <1>2, <3>1, <3>2 DEF Linked
  <2>2. k \in Linked'
    <3>1. \A u \in Thread : Links(u)' => heap'[u] # k
      BY <1>6, <1>8
    <3> QED BY <1>2, <1>3, <3>1 DEF Linked
  <2>3. ASSUME NEW h \in Linked', h # k PROVE h \in Linked
    <3>1. h \in 1..heap_id /\ \A u \in Thread : Links(u)' => heap'[u] # h
      BY <1>2 DEF Linked
    <3>2. \A u \in Thread : Links(u) => heap[u] # h
      BY <1>6, <1>8, <2>3, <3>1 DEF k
    <3> QED BY <3>1, <3>2 DEF Linked
  <2> QED BY <2>1, <2>2, <2>3
<1>10. k \notin Linked
  BY <1>3 DEF Linked, k
<1>11. NewHeaps'
  <2>1. \A u \in Thread : Links(u)' => heap'[u] \in 1..heap_id'
    BY <1>1, <1>2, <1>6, <1>8 DEF NewHeaps
  <2>2. ASSUME NEW u \in Thread, NEW v \in Thread, u # v, Links(u)', Links(v)'
        PROVE  heap'[u] # heap'[v]
    BY <1>1, <1>6, <1>8, <2>2 DEF NewHeaps
  <2>3. \A u \in Thread : at'[u] = "swap" => next_heap'[heap'[u]] = next'[u]
    BY <1>1, <1>2, <1>6 DEF NewHeaps
  <2> QED BY <2>1, <2>2, <2>3 DEF NewHeaps
<1>12. ASSUME NEW b \in Bucket PROVE \E c : Chains(b, c)'
  <2>1. PICK c : Chains(b, c)
    BY DEF HeapsLinked
  <2>2. CASE b # d
    <3>1. \A h : BucketOf(h) = b => (h \in Linked <=> h \in Linked')
      BY <1>9, <2>2 DEF d
    <3>2. heaps'[b] = heaps[b] /\ \A h \in Linked : next_heap'[h] = next_heap[h]
      BY <1>2, <1>6, <2>2
    <3>3. Chains(b, c)'
      BY <2>1, <3>1, <3>2, BucketKept
    <3> QED BY <3>3
  <2>3. CASE b = d
    <3>0. PICK e : e = <<k>> \o c
      OBVIOUS
    <3>1. c \in Seq(Heap) /\ NoRepeat(c) /\ Range(c) = {h \in Linked : BucketOf(h) = d}
          /\ heaps[d] = HeapAt(c, 1)
          /\ \A i \in 1..Len(c) : next_heap[c[i]] = HeapAt(c, i + 1)
      BY <2>1, <2>3 DEF Chains
    <3>2. k \notin Range(c)
      BY <1>10, <3>1
    <3>3. e \in Seq(Heap) /\ NoRepeat(e) /\ Range(e) = {k} \cup Range(c)
      BY <1>4, <3>0, <3>1, <3>2, ConsFacts, ConsRange
    <3>4. Len(c) \in Nat /\ Len(e) = Len(c) + 1 /\ e[1] = k
          /\ \A i \in 2..(Len(c) + 1) : e[i] = c[i - 1]
      BY <1>4, <3>0, <3>1, ConsFacts
    <3>5. \A i \in 1..(Len(c) + 1) : HeapAt(e, i + 1) = HeapAt(c, i)
      <4> SUFFICES ASSUME NEW i \in 1..(Len(c) + 1) PROVE HeapAt(e, i + 1) = HeapAt(c, i)
        OBVIOUS
      <4>1. CASE i <= Len(c)
        <5>1. i + 1 \in 2..(Len(c) + 1) /\ i + 1 \in 1..Len(e) /\ i \in 1..Len(c) /\ (i + 1) - 1 = i
          BY <3>4, <4>1
        <5> QED BY <3>4, <5>1 DEF HeapAt
      <4>2. CASE ~(i <= Len(c))
        <5>1. i \notin 1..Len(c) /\ i + 1 \notin 1..Len(e)
          BY <3>4, <4>2
        <5> QED BY <5>1 DEF HeapAt
      <4> QED BY <4>1, <4>2
    <3>6. heaps'[d] = HeapAt(e, 1)
      <4>1. 1 \in 1..Len(e)
        BY <3>4
      <4> QED BY <1>6, <3>4, <4>1 DEF HeapAt
    <3>7. ASSUME NEW i \in 1..Len(e) PROVE next_heap'[e[i]] = HeapAt(e, i + 1)
      <4>1. HeapAt(e, i + 1) = HeapAt(c, i)
        BY <3>4, <3>5
      <4>2. CASE i = 1
        BY <1>2, <1>3, <3>1, <3>4, <4>1, <4>2
      <4>3. CASE i # 1
        <5>1. i - 1 \in 1..Len(c) /\ e[i] = c[i - 1] /\ (i - 1) + 1 = i
          BY <3>4, <4>3
        <5>2. next_heap[c[i - 1]] = HeapAt(c, i)
          BY <3>1, <5>1
        <5> QED BY <1>2, <4>1, <5>1, <5>2
      <4> QED BY <4>2, <4>3
    <3>8. Range(e) = {h \in Linked' : BucketOf(h) = d}
      BY <1>9, <3>1, <3>3 DEF d
    <3>9. Chains(b, e)' <=> /\ e \in Seq(Heap) /\ NoRepeat(e)
                            /\ heaps'[b] = HeapAt(e, 1)
                            /\ \A i \in 1..Len(e) : next_heap'[e[i]] = HeapAt(e, i + 1)
                            /\ Range(e) = {h \in Linked' : BucketOf(h) = b}
      BY DEF Chains, Heap, Life!Heap, HeapAt, NoHeap, Life!NoHeap, BucketOf, Life!BucketOf
    <3>10. Chains(b, e)'
      BY <2>3, <3>3, <3>6, <3>7, <3>8, <3>9
    <3> QED BY <3>10
  <2> QED BY <2>2, <2>3
<1>13. AllKnown'
  <2>1. \A x : Known(x) => Known(x)'
    BY <1>9, SameSets DEF Known
  <2>2. Known(thread_heap[t])'
    BY <1>6, <1>9, SameSets DEF Known
  <2>3. ASSUME NEW u \in Thread
        PROVE  /\ Known(thread_heap[u])' 
               /\ at'[u] \in {"next", "pop"} => heap'[u] \in Linked'
               /\ at'[u] \in {"pop", "push"} => Known(next[u])'
    <3>1. CASE u = t
      BY <1>6, <2>2, <3>1
    <3>2. CASE u # t
      <4>1. /\ Known(thread_heap[u]) /\ at[u] \in {"next", "pop"} => heap[u] \in Linked
            /\ at[u] \in {"pop", "push"} => Known(next[u])
        BY <1>1 DEF AllKnown
      <4> QED BY <1>1, <1>6, <1>9, <3>2, SameSets DEF AllKnown, Known
    <3> QED BY <3>1, <3>2
  <2> QED BY <1>1, <1>2, <2>1, <2>3, SameSets DEF AllKnown, Known
<1> QED BY <1>7, <1>11, <1>12, <1>13, SameSets DEF HeapsLinked

\* A step of OrphanHeaps is one between two phases of its thread.
LEMMA LifeElsewhere ==
  ASSUME Phases, ~Closing, NEW t \in Thread, UNCHANGED why \/ why' = [why EXCEPT ![t] = "none"],
         NEW l \in HeapLabel \cup {"idle"}, at' = [at EXCEPT ![t] = l]
  PROVE  Phases'
<1> DEFINE r == why'[t]
<1>1. r \in Reason /\ r # "close" /\ why' = [why EXCEPT ![t] = r]
  BY DEF Phases, Closing, Reason
<1>2. l \in Label /\ l \notin {"take", "drain"} /\ l \notin CloseLabel /\ why[t] # "close"
  BY DEF Label, HeapLabel, CloseLabel, Closing
<1> HIDE DEF r
<1> QED BY <1>1, <1>2, PhaseMove

LEMMA LifeStepKeeps ==
  ASSUME HeapsInv, NEW t \in Thread, LifeStep(t)
  PROVE  Phases' /\ HeapsLinked'
<1>1. /\ Phases /\ ~Closing /\ HeapsLinked /\ UNCHANGED <<why, span_heap>>
      /\ Life!ThreadInitialize(t) \/ Life!HeapStep(t)
  BY DEF HeapsInv, LifeStep, spanVars, callVars
<1>2. Phases'
  <2>1. PICK l : at' = [at EXCEPT ![t] = l] /\ l \in {"idle", "map", "next", "pop", "link", "swap", "push"}
    BY <1>1 DEF Life!ThreadInitialize, Life!LoadOrphan, Life!HeapStep, Life!ReadNextOrphan, Life!PopOrphan,
                Life!PopFails, Life!MapHeap, Life!LinkHeap, Life!SwapBucket, Life!SwapBucketFails,
                Life!PushOrphan, Life!PushFails, Life!LinkOrphan, Life!Owns, Life!Goto
  <2>2. l \in HeapLabel \cup {"idle"}
    BY <2>1 DEF HeapLabel
  <2> QED BY <1>1, <2>1, <2>2, LifeElsewhere
<1>3. Life!PushFails(t) => ~Links(t) /\ Life!LinkOrphan(t, thread_heap[t])
  BY DEF Life!PushFails, Links
<1>4. HeapsLinked'
  BY <1>1, <1>3, OrphanSteps, MapHeapStep, LinkHeapStep, SwapBucketStep, SwapBucketFailsStep
     DEF Life!HeapStep
<1> QED BY <1>2, <1>4

\* A heap left to the orphans.
LEMMA ReleaseEndsKeeps ==
  ASSUME HeapsInv, NEW t \in Thread, ReleaseEnds(t)
  PROVE  HeapsInv'
<1>1. /\ Phases /\ at[t] = "release" /\ Life!LinkOrphan(t, thread_heap[t])
      /\ why' = [why EXCEPT ![t] = "none"] /\ UNCHANGED span_heap
      /\ at' = [at EXCEPT ![t] = "push"]
  BY DEF HeapsInv, ReleaseEnds, spanVars, Life!LinkOrphan, Life!Goto
<1>2. ~Links(t) /\ why[t] # "close"
  BY <1>1, IdleFacts DEF Links
<1>3. Phases' /\ (Closing => Closing')
  <2>1. "none" \in Reason /\ "push" \in Label /\ "push" \notin CloseLabel
    BY DEF Reason, Label, HeapLabel, CloseLabel
  <2> QED BY <1>1, <1>2, <2>1, PhaseMove
<1>4. ASSUME HeapsLinked PROVE HeapsLinked'
  BY <1>1, <1>2, <1>4, OrphanSteps
<1> QED BY <1>3, <1>4 DEF HeapsInv

\* While rpmalloc_finalize takes the table apart nothing is looked up.
LEMMA ClosingKeeps ==
  ASSUME HeapsInv, NEW t \in Thread, UnmapHeap(t) \/ FinalizeEnds(t)
  PROVE  HeapsInv'
<1>1. /\ Phases /\ at[t] \in CloseLabel /\ UNCHANGED why
      /\ at' = [at EXCEPT ![t] = "closing"] \/ at' = [at EXCEPT ![t] = "closed"]
  BY DEF HeapsInv, UnmapHeap, FinalizeEnds, Goto, Life!Goto, callVars, CloseLabel
<1>2. why[t] = "close" /\ why' = [why EXCEPT ![t] = "close"] /\ "close" \in Reason
  BY <1>1 DEF Phases, Reason
<1>3. Closing
  BY <1>2 DEF Closing
<1>4. PICK l \in {"closing", "closed"} : at' = [at EXCEPT ![t] = l]
  BY <1>1
<1>5. l \in Label /\ l \in CloseLabel /\ l \notin {"take", "drain"}
  BY DEF Label, CloseLabel
<1>6. Phases' /\ (Closing => Closing')
  BY <1>1, <1>2, <1>4, <1>5, PhaseMove
<1> QED BY <1>3, <1>6 DEF HeapsInv

LEMMA HeapsStart == Init => HeapsInv
<1> SUFFICES ASSUME Init PROVE HeapsInv
  OBVIOUS
<1>1. /\ heap_id = 0 /\ heaps = [b \in Bucket |-> NoHeap] /\ next_heap = [h \in Heap |-> NoHeap]
      /\ orphan_heaps = NoHeap /\ next_orphan = [h \in Heap |-> NoHeap]
      /\ thread_heap = [t \in Thread |-> NoHeap] /\ at = [t \in Thread |-> "idle"]
      /\ heap = [t \in Thread |-> NoHeap] /\ next = [t \in Thread |-> NoHeap]
      /\ span_heap = [s \in Span |-> NoHeap] /\ why = [t \in Thread |-> "none"]
  BY DEF Init, Life!HeapsInit, Bucket, Heap, NoHeap
<1>2. Phases
  BY <1>1 DEF Phases, Label, HeapLabel, CloseLabel
<1>3. HeapTypes
  <2>1. NoHeap \in HeapOrNone /\ 0 \in 0..MaxHeaps
    BY HeapSets
  <2> QED BY <1>1, <2>1 DEF HeapTypes
<1>4. NewHeaps /\ Linked = {}
  <2>1. \A t \in Thread : ~Links(t) /\ at[t] # "swap"
    BY <1>1 DEF Links
  <2>2. 1..heap_id = {}
    BY <1>1
  <2> QED BY <2>1, <2>2 DEF NewHeaps, Linked
<1>5. ASSUME NEW b \in Bucket PROVE Chains(b, <<>>)
  <2>1. heaps[b] = NoHeap /\ HeapAt(<<>>, 1) = NoHeap
    BY <1>1 DEF HeapAt
  <2> QED BY <1>4, <2>1, EmptyFacts DEF Chains
<1>6. AllKnown
  BY <1>1 DEF AllKnown, Known
<1> QED BY <1>2, <1>3, <1>4, <1>5, <1>6 DEF HeapsInv, HeapsLinked

LEMMA HeapsStutter == HeapsInv /\ UNCHANGED vars => HeapsInv'
<1> SUFFICES ASSUME HeapsInv, UNCHANGED vars PROVE HeapsInv'
  OBVIOUS
<1>1. /\ UNCHANGED <<heap_id, heaps, next_heap, orphan_heaps, next_orphan, thread_heap, heap, next,
                     at, why, span_heap>>
  BY DEF vars, lifeVars, spanVars, callVars
<1>2. Phases' /\ (Closing => Closing')
  BY <1>1 DEF HeapsInv, Phases, Closing
<1>3. ASSUME HeapsLinked PROVE HeapsLinked'
  <2>1. HeapTypes' /\ NewHeaps'
    BY <1>1, <1>3, SameSets DEF HeapsLinked, HeapTypes, NewHeaps, Links
  <2>2. \A u \in Thread : Links(u) <=> Links(u)'
    BY <1>1 DEF Links
  <2>3. Linked' = Linked
    BY <1>1, <2>2, LinkedKept
  <2>4. \A b \in Bucket : \E c : Chains(b, c)'
    BY <1>1, <1>3, <2>3, BucketsKept
  <2>5. AllKnown'
    BY <1>1, <1>3, <2>3, SameSets DEF HeapsLinked, AllKnown, Known
  <2> QED BY <2>1, <2>4, <2>5, SameSets DEF HeapsLinked
<1> QED BY <1>2, <1>3 DEF HeapsInv

LEMMA HeapsStep == HeapsInv /\ [Next]_vars => HeapsInv'
<1> SUFFICES ASSUME HeapsInv, [Next]_vars PROVE HeapsInv'
  OBVIOUS
<1>1. CASE UNCHANGED vars
  BY <1>1, HeapsStutter
<1>2. ASSUME NEW t \in Thread, LifeStep(t) PROVE HeapsInv'
  BY <1>2, LifeStepKeeps DEF HeapsInv
<1>3. ASSUME NEW t \in Thread, Call(t) \/ Continue(t), ~ReleaseEnds(t), ~UnmapHeap(t), ~FinalizeEnds(t)
      PROVE  HeapsInv'
  <2>1. Phases /\ Elsewhere(t) /\ UNCHANGED lifeVars
    BY <1>3, CallSteps, ContinueSteps DEF HeapsInv
  <2>2. ASSUME HeapsLinked PROVE HeapsLinked'
    <3>1. span_heap \in [Span -> HeapOrNone] /\ thread_heap \in [Thread -> HeapOrNone]
      BY <2>2 DEF HeapsLinked, HeapTypes
    <3>2. HeadersBy(t)
      BY <1>3, <3>1, Headers
    <3> QED BY <2>1, <2>2, <3>2, ElsewhereKeeps
  <2> QED BY <2>1, <2>2 DEF HeapsInv, Elsewhere
<1>4. ASSUME NEW t \in Thread, ReleaseEnds(t) \/ UnmapHeap(t) \/ FinalizeEnds(t) PROVE HeapsInv'
  BY <1>4, ReleaseEndsKeeps, ClosingKeeps
<1> QED BY <1>1, <1>2, <1>3, <1>4 DEF Next

\* The inductive invariant holds of every behaviour.
THEOREM HeapsInvInvariant == Spec => []HeapsInv
BY HeapsStart, HeapsStep, PTL DEF Spec

\* The id in every header leads to its heap, and so do a thread's heap and the
\* first orphan, while threads start, end and adopt heaps, however many link
\* one in the same bucket at the same time (rpmalloc.c:434-444, 1025-1030).
THEOREM HeapsFoundAlways == Spec => []HeapsFound
<1>1. HeapsInv => HeapsFound
  <2> SUFFICES ASSUME HeapsInv, ~Closing PROVE HeapsFound
    BY DEF HeapsFound
  <2>1. HeapsLinked /\ AllKnown /\ NoHeap = Life!NoHeap
    BY DEF HeapsInv, HeapsLinked, NoHeap
  <2>2. \A h : Known(h) /\ h # NoHeap => Life!HeapLookup(h) = h
    BY <2>1, LookupFinds DEF Known
  <2>3. Life!HeapsFound
    BY <2>1, <2>2 DEF Life!HeapsFound, AllKnown
  <2> QED BY <2>1, <2>2, <2>3 DEF HeapsFound, AllKnown
<1> QED BY <1>1, HeapsInvInvariant, PTL
-----------------------------------------------------------------------------
(* Where the spans are: definitions.  T is the set of blocks no heap may     *)
(* hand out, those the program has and those whose free is on the way.       *)

SpanUnits == 1..LargeClassCount
NoShare(l, k) == Range(l) \cap Range(k) = {}

\* The free spans of n units in caches sc and global caches gl.
Listed(sc, gl, n) == (UNION {Range(sc[h][n]) : h \in Heap}) \cup SpansIn(gl[n])
AllListed(sc, gl) == UNION {Listed(sc, gl, n) : n \in SpanUnits}

\* Each is in one place.
Once(sc, gl, n) ==
  /\ \A h \in Heap : NoRepeat(sc[h][n])
  /\ \A h, k \in Heap : h # k => NoShare(sc[h][n], sc[k][n])
  /\ \A i \in 1..Len(gl[n]) : NoRepeat(gl[n][i])
  /\ \A i, j \in 1..Len(gl[n]) : i # j => NoShare(gl[n][i], gl[n][j])
  /\ \A i \in 1..Len(gl[n]), h \in Heap : NoShare(gl[n][i], sc[h][n])

CacheType(sc) == sc \in [Heap -> [SpanUnits -> Seq(Span)]]
ListTypes(sc, gl) == CacheType(sc) /\ gl \in [SpanUnits -> Seq(Seq(Span))]
ListsOf(sc, gl, n) ==
  /\ Once(sc, gl, n)
  /\ \A i \in 1..Len(gl[n]) : gl[n][i] # <<>>
  /\ \A s \in Listed(sc, gl, n) : SpanCount[s] = n
FreeLists(sc, gl) == ListTypes(sc, gl) /\ \A n \in SpanUnits : ListsOf(sc, gl, n)

\* The spans with blocks in T, and those of heap h and class c.
UsedBy(T) == {SpanOf(b) : b \in T}
SlotsOf(T, s) == {i \in Slot : <<s, i>> \in T}
SmallOf(T, sh, sz, h, c) == {s \in UsedBy(T) : sh[s] = h /\ sz[s] = c}

\* The i-th block a span hands out: those freed in the order f, then the never
\* used ones from a on.
NthFree(f, a, i) == IF i \in 1..Len(f) THEN f[i] ELSE a

\* The bookkeeping bd of span s of class c and the words w of its blocks say
\* that all blocks but U are free, those below the autolink in the order f.
FreeListIs(U, s, c, bd, w, f) ==
  LET a == bd.first_autolink IN
  /\ f \in Seq(Nat) /\ NoRepeat(f)
  /\ a \in 0..BlockCount[c]
  /\ Range(f) = {i \in 0..(a - 1) : i \notin U}
  /\ U \subseteq 0..(a - 1)
  /\ bd.free_count = Len(f) + (BlockCount[c] - a)
  /\ \A i \in 1..Len(f) : (i < Len(f) \/ a < BlockCount[c]) =>
                            w[<<s, f[i]>>] = IndexWord(NthFree(f, a, i + 1))
  /\ bd.free_count > 0 => bd.free_list = NthFree(f, a, 1)

\* Span s with blocks U in use: its header h and c and, for small blocks, the
\* bookkeeping.
SmallOk(U, s, c, bd, w) == SpanCount[s] = 1 /\ \E f : FreeListIs(U, s, c, bd, w, f)
OtherOk(U, s, h, c) == U = {0} /\ (h # NoHeap => c = ClassOf(SpanCount[s]))
SpanOk(U, s, h, c, bd, w) ==
  /\ h = NoHeap <=> SpanCount[s] > LargeClassCount
  /\ IF h # NoHeap /\ c \in SmallClass THEN SmallOk(U, s, c, bd, w) ELSE OtherOk(U, s, h, c)

\* Of the spans S of a heap and class, one may be active (a), and of the others
\* those with free blocks are in the list l.
ClassOk(S, a, l, d) ==
  /\ a.free_count > 0 <=> a.span \in S
  /\ l \in Seq(Span) /\ NoRepeat(l)
  /\ Range(l) = {s \in S : s # a.span /\ d[s].free_count > 0}

Books == [free_list : 0..Stale, first_autolink : 0..Stale, free_count : 0..Stale]
Actives == [span : Span \cup {Null}, free_list : 0..Stale, first_autolink : 0..Stale,
            free_count : 0..Stale]
Words == {Data, Null} \cup Block \cup {IndexWord(i) : i \in 0..Stale}

PlaceTypes ==
  /\ active \in [Heap -> [SmallClass -> Actives]]
  /\ size_cache \in [Heap -> [SmallClass -> Seq(Span)]]
  /\ word \in [Block -> Words]
  /\ span_heap \in [Span -> HeapOrNone]
  /\ size_class \in [Span -> Nat]
  /\ data \in [Span -> Books]

Spare(T) ==
  /\ FreeLists(span_cache, global)
  /\ mapped = UsedBy(T) \cup AllListed(span_cache, global)
  /\ UsedBy(T) \cap AllListed(span_cache, global) = {}
  /\ \A s \in AllListed(span_cache, global) : SpanCount[s] # 1 => span_heap[s] # NoHeap

SpansOk(T) ==
  \A s \in UsedBy(T) :
    SpanOk(SlotsOf(T, s), s, span_heap[s], size_class[s], BlockData(span_heap[s], s), word)
ClassesOk(T) ==
  \A h \in Heap, c \in SmallClass :
    ClassOk(SmallOf(T, span_heap, size_class, h, c), active[h][c], size_cache[h][c], data)

Placed(T) == T \subseteq Block /\ PlaceTypes /\ Spare(T) /\ SpansOk(T) /\ ClassesOk(T)

-----------------------------------------------------------------------------
\* Sequences of sequences, by the elements of all.
LEMMA SpansInFacts ==
  ASSUME NEW S, NEW g \in Seq(Seq(S))
  PROVE  \A s : s \in SpansIn(g) <=> \E i \in 1..Len(g) : s \in Range(g[i])
<1>1. DOMAIN g = 1..Len(g)
  OBVIOUS
<1> QED BY <1>1 DEF SpansIn

\* A change to the lists of n units leaves the others.
OnlyLists(sc, gl, sd, gm, n) ==
  \A m \in SpanUnits \ {n} : gm[m] = gl[m] /\ \A h \in Heap : sd[h][m] = sc[h][m]

\* New lists of n units replace the old in the free spans.
LEMMA ListsChange ==
  ASSUME NEW sc, NEW gl, FreeLists(sc, gl), NEW sd, NEW gm, ListTypes(sd, gm), NEW n \in SpanUnits,
         OnlyLists(sc, gl, sd, gm, n),
         ListsOf(sd, gm, n)
  PROVE  /\ FreeLists(sd, gm)
         /\ AllListed(sd, gm) = (AllListed(sc, gl) \ Listed(sc, gl, n)) \cup Listed(sd, gm, n)
<1>1. ASSUME NEW m \in SpanUnits \ {n} PROVE Listed(sd, gm, m) = Listed(sc, gl, m) /\ ListsOf(sd, gm, m)
  <2>1. gm[m] = gl[m] /\ \A h \in Heap : sd[h][m] = sc[h][m]
    BY DEF OnlyLists
  <2>2. {Range(sd[h][m]) : h \in Heap} = {Range(sc[h][m]) : h \in Heap}
    BY <2>1
  <2>3. Listed(sd, gm, m) = Listed(sc, gl, m)
    BY <2>1, <2>2 DEF Listed
  <2>4. Once(sc, gl, m)
    BY DEF FreeLists, ListsOf
  <2>5. Once(sd, gm, m)
    BY <2>1, <2>4 DEF Once
  <2>6. (\A i \in 1..Len(gl[m]) : gl[m][i] # <<>>) /\ \A s \in Listed(sc, gl, m) : SpanCount[s] = m
    BY DEF FreeLists, ListsOf
  <2> QED BY <2>1, <2>3, <2>5, <2>6 DEF ListsOf
<1>2. FreeLists(sd, gm)
  BY <1>1 DEF FreeLists
<1>3. \A m \in SpanUnits : \A s \in Listed(sc, gl, m) : SpanCount[s] = m
  BY DEF FreeLists, ListsOf
<1>4. ASSUME NEW s PROVE s \in AllListed(sd, gm) <=>
                           s \in (AllListed(sc, gl) \ Listed(sc, gl, n)) \cup Listed(sd, gm, n)
  <2>1. s \in AllListed(sd, gm) <=> \E m \in SpanUnits : s \in Listed(sd, gm, m)
    BY DEF AllListed
  <2>2. s \in AllListed(sc, gl) <=> \E m \in SpanUnits : s \in Listed(sc, gl, m)
    BY DEF AllListed
  <2> QED BY <1>1, <1>3, <2>1, <2>2
<1> QED BY <1>2, <1>4
-----------------------------------------------------------------------------
\* One list of a heap written, and the sublists of n units.
CacheSet(sc, h, n, l, sd) == sd = [sc EXCEPT ![h][n] = l]
GlobalSet(gl, n, g, gm) == gm = [gl EXCEPT ![n] = g]

\* One cache written, the others left.
LEMMA CacheWritten ==
  ASSUME NEW sc, CacheType(sc), NEW h \in Heap, NEW n \in SpanUnits, NEW l \in Seq(Span),
         NEW sd, CacheSet(sc, h, n, l, sd)
  PROVE  /\ CacheType(sd)
         /\ sd[h][n] = l
         /\ \A k \in Heap \ {h} : sd[k] = sc[k]
         /\ \A k \in Heap, m \in SpanUnits \ {n} : sd[k][m] = sc[k][m]
<1>1. sc[h] \in [SpanUnits -> Seq(Span)]
  BY DEF CacheType
<1>2. [sc[h] EXCEPT ![n] = l] \in [SpanUnits -> Seq(Span)]
  BY <1>1
<1>3. sd = [sc EXCEPT ![h] = [sc[h] EXCEPT ![n] = l]]
  BY DEF CacheSet
<1> QED BY <1>1, <1>2, <1>3 DEF CacheType

\* The elements of the caches of n units when heap h's list is l.
LEMMA CachedWritten ==
  ASSUME NEW sc, CacheType(sc), NEW h \in Heap, NEW n \in SpanUnits,
         NEW sd, \A k \in Heap \ {h} : sd[k] = sc[k]
  PROVE  UNION {Range(sd[k][n]) : k \in Heap} =
           (UNION {Range(sc[k][n]) : k \in Heap \ {h}}) \cup Range(sd[h][n])
<1> DEFINE A == UNION {Range(sd[k][n]) : k \in Heap}
           B == UNION {Range(sc[k][n]) : k \in Heap \ {h}}
<1>1. ASSUME NEW s PROVE s \in A <=> s \in B \/ s \in Range(sd[h][n])
  <2>1. s \in A <=> \E k \in Heap : s \in Range(sd[k][n])
    OBVIOUS
  <2>2. s \in B <=> \E k \in Heap \ {h} : s \in Range(sc[k][n])
    OBVIOUS
  <2> QED BY <2>1, <2>2
<1> QED BY <1>1

\* A heap's list of n units changed to l, which has the spans of A instead of
\* those of its old one and shares none with the other lists.
LEMMA CacheChange ==
  ASSUME NEW sc, NEW gl, FreeLists(sc, gl), NEW h \in Heap, NEW n \in SpanUnits,
         NEW l \in Seq(Span), NoRepeat(l), NEW sd, CacheSet(sc, h, n, l, sd),
         \A s \in Range(l) : SpanCount[s] = n /\ (s \in Range(sc[h][n]) \/ s \notin Listed(sc, gl, n))
  PROVE  /\ FreeLists(sd, gl)
         /\ AllListed(sd, gl) = (AllListed(sc, gl) \ Range(sc[h][n])) \cup Range(l)
<1> DEFINE Others == UNION {Range(sc[k][n]) : k \in Heap \ {h}}
<1>1. ListTypes(sc, gl) /\ ListsOf(sc, gl, n) /\ Once(sc, gl, n)
  BY DEF FreeLists, ListsOf
<1>2. CacheType(sc) /\ gl[n] \in Seq(Seq(Span))
  BY <1>1 DEF ListTypes
<1>3. /\ CacheType(sd) /\ sd[h][n] = l
      /\ \A k \in Heap \ {h} : sd[k] = sc[k]
      /\ \A k \in Heap, m \in SpanUnits \ {n} : sd[k][m] = sc[k][m]
  BY <1>2, CacheWritten
<1>4. /\ Listed(sc, gl, n) = (Others \cup Range(sc[h][n])) \cup SpansIn(gl[n])
      /\ Listed(sd, gl, n) = (Others \cup Range(l)) \cup SpansIn(gl[n])
  <2>1. UNION {Range(sc[k][n]) : k \in Heap} = Others \cup Range(sc[h][n])
    BY <1>2, CachedWritten
  <2>2. UNION {Range(sd[k][n]) : k \in Heap} = Others \cup Range(l)
    BY <1>2, <1>3, CachedWritten
  <2> QED BY <2>1, <2>2 DEF Listed
<1>5. ASSUME NEW k \in Heap \ {h} PROVE NoShare(l, sc[k][n]) /\ NoShare(sc[k][n], l)
  <2>1. NoShare(sc[h][n], sc[k][n])
    BY <1>1 DEF Once
  <2>2. Range(sc[k][n]) \subseteq Listed(sc, gl, n)
    BY <1>4
  <2> QED BY <2>1, <2>2 DEF NoShare
<1>6. ASSUME NEW i \in 1..Len(gl[n]) PROVE NoShare(gl[n][i], l)
  <2>1. NoShare(gl[n][i], sc[h][n])
    BY <1>1 DEF Once
  <2>2. Range(gl[n][i]) \subseteq Listed(sc, gl, n)
    BY <1>2, <1>4, SpansInFacts
  <2> QED BY <2>1, <2>2 DEF NoShare
<1>7. Others \cap Range(sc[h][n]) = {}
  BY <1>1 DEF Once, NoShare
<1>8. SpansIn(gl[n]) \cap Range(sc[h][n]) = {}
  <2>1. \A i \in 1..Len(gl[n]) : Range(gl[n][i]) \cap Range(sc[h][n]) = {}
    BY <1>1 DEF Once, NoShare
  <2>2. ASSUME NEW s \in SpansIn(gl[n]) PROVE s \notin Range(sc[h][n])
    BY <1>2, <2>1, SpansInFacts
  <2> QED BY <2>2
<1> HIDE DEF Others
<1>9. Listed(sd, gl, n) = (Listed(sc, gl, n) \ Range(sc[h][n])) \cup Range(l)
  BY <1>4, <1>7, <1>8
<1>10. Once(sd, gl, n)
  <2>1. ASSUME NEW k \in Heap, k # h PROVE sd[k][n] = sc[k][n]
    BY <1>3, <2>1
  <2>2. \A k \in Heap : NoRepeat(sd[k][n])
    BY <1>1, <1>3, <2>1 DEF Once
  <2>3. ASSUME NEW k \in Heap, NEW j \in Heap, k # j PROVE NoShare(sd[k][n], sd[j][n])
    <3>1. NoShare(sc[k][n], sc[j][n])
      BY <1>1, <2>3 DEF Once
    <3>2. CASE k = h
      BY <3>2, <2>1, <2>3, <1>3, <1>5
    <3>3. CASE j = h
      BY <3>3, <2>1, <2>3, <1>3, <1>5
    <3>4. CASE k # h /\ j # h
      BY <3>1, <3>4, <2>1
    <3> QED BY <3>2, <3>3, <3>4
  <2>4. ASSUME NEW i \in 1..Len(gl[n]), NEW k \in Heap PROVE NoShare(gl[n][i], sd[k][n])
    <3>1. NoShare(gl[n][i], sc[k][n])
      BY <1>1 DEF Once
    <3> QED BY <3>1, <2>1, <1>3, <1>6
  <2> QED BY <1>1, <2>2, <2>3, <2>4 DEF Once
<1>11. ListsOf(sd, gl, n)
  BY <1>1, <1>9, <1>10 DEF ListsOf
<1>12. FreeLists(sc, gl) /\ ListTypes(sd, gl) /\ OnlyLists(sc, gl, sd, gl, n)
  BY <1>1, <1>3 DEF ListTypes, OnlyLists
<1>13. FreeLists(sd, gl)
  BY <1>11, <1>12, ListsChange
<1>14. AllListed(sd, gl) = (AllListed(sc, gl) \ Listed(sc, gl, n)) \cup Listed(sd, gl, n)
  BY <1>11, <1>12, ListsChange
<1>15. Listed(sc, gl, n) \subseteq AllListed(sc, gl)
  BY DEF AllListed
<1>16. Range(sc[h][n]) \subseteq Listed(sc, gl, n)
  BY <1>4
<1> QED BY <1>9, <1>13, <1>14, <1>15, <1>16

\* The set B is A without s, or with s.
Without(A, s, B) == s \in A /\ B = A \ {s}
WithToo(A, s, B) == B = A \cup {s}

\* A span taken from, or put before, a heap's own list.
LEMMA CacheTake ==
  ASSUME NEW sc, NEW gl, FreeLists(sc, gl), NEW h \in Heap, NEW n \in SpanUnits,
         NEW s \in Range(sc[h][n]), NEW l \in Seq(Span), NoRepeat(l),
         Range(l) = Range(sc[h][n]) \ {s}, NEW sd, CacheSet(sc, h, n, l, sd)
  PROVE  /\ FreeLists(sd, gl)
         /\ Without(AllListed(sc, gl), s, AllListed(sd, gl))
         /\ SpanCount[s] = n
<1>1. Range(sc[h][n]) \subseteq Listed(sc, gl, n) /\ Listed(sc, gl, n) \subseteq AllListed(sc, gl)
  BY DEF Listed, AllListed
<1>2. \A x \in Range(sc[h][n]) : SpanCount[x] = n
  BY <1>1 DEF FreeLists, ListsOf
<1>3. \A x \in Range(l) : SpanCount[x] = n /\ (x \in Range(sc[h][n]) \/ x \notin Listed(sc, gl, n))
  BY <1>2
<1>4. FreeLists(sd, gl)
  BY <1>3, CacheChange
<1>5. AllListed(sd, gl) = (AllListed(sc, gl) \ Range(sc[h][n])) \cup Range(l)
  BY <1>3, CacheChange
<1> QED BY <1>1, <1>2, <1>4, <1>5 DEF Without

\* A span that was in no list joins a cache.
LEMMA CachePut ==
  ASSUME NEW sc, NEW gl, FreeLists(sc, gl), NEW h \in Heap, NEW n \in SpanUnits,
         NEW s \in Span, s \notin AllListed(sc, gl), SpanCount[s] = n,
         NEW l \in Seq(Span), NoRepeat(l),
         Range(l) = {s} \cup Range(sc[h][n]), NEW sd, CacheSet(sc, h, n, l, sd)
  PROVE  /\ FreeLists(sd, gl)
         /\ WithToo(AllListed(sc, gl), s, AllListed(sd, gl))
<1>1. Range(sc[h][n]) \subseteq Listed(sc, gl, n) /\ Listed(sc, gl, n) \subseteq AllListed(sc, gl)
  BY DEF Listed, AllListed
<1>2. \A x \in Range(sc[h][n]) : SpanCount[x] = n
  BY <1>1 DEF FreeLists, ListsOf
<1>3. \A x \in Range(l) : SpanCount[x] = n /\ (x \in Range(sc[h][n]) \/ x \notin Listed(sc, gl, n))
  BY <1>1, <1>2
<1>4. FreeLists(sd, gl)
  BY <1>3, CacheChange
<1>5. AllListed(sd, gl) = (AllListed(sc, gl) \ Range(sc[h][n])) \cup Range(l)
  BY <1>3, CacheChange
<1> QED BY <1>1, <1>4, <1>5 DEF WithToo
-----------------------------------------------------------------------------
\* The sublists y are those of g after a first one.
Shifted(y, g) == Len(y) = Len(g) + 1 /\ \A i \in 1..Len(g) : y[i + 1] = g[i]

\* A sublist in front, or gone, and the others one place on.
LEMMA SpansInShifted ==
  ASSUME NEW S, NEW g \in Seq(Seq(S)), NEW y \in Seq(Seq(S)), Shifted(y, g)
  PROVE  /\ SpansIn(y) = Range(y[1]) \cup SpansIn(g)
         /\ 1 \in 1..Len(y)
         /\ \A i \in 1..Len(y) : i = 1 \/ \E j \in 1..Len(g) : i = j + 1 /\ y[i] = g[j]
         /\ \A j \in 1..Len(g) : j + 1 \in 1..Len(y) /\ j + 1 # 1 /\ y[j + 1] = g[j]
<1>1. Len(g) \in Nat /\ Len(y) = Len(g) + 1
  BY DEF Shifted
<1>2. ASSUME NEW i \in 1..Len(y), i # 1 PROVE \E j \in 1..Len(g) : i = j + 1 /\ y[i] = g[j]
  <2>1. i - 1 \in 1..Len(g) /\ i = (i - 1) + 1
    BY <1>1, <1>2
  <2> QED BY <2>1 DEF Shifted
<1>3. ASSUME NEW j \in 1..Len(g) PROVE j + 1 \in 1..Len(y) /\ j + 1 # 1 /\ y[j + 1] = g[j]
  BY <1>1 DEF Shifted
<1>4. 1 \in 1..Len(y)
  BY <1>1
<1>5. ASSUME NEW s PROVE s \in SpansIn(y) <=> s \in Range(y[1]) \/ s \in SpansIn(g)
  <2>1. s \in SpansIn(y) <=> \E i \in 1..Len(y) : s \in Range(y[i])
    BY SpansInFacts
  <2>2. s \in SpansIn(g) <=> \E i \in 1..Len(g) : s \in Range(g[i])
    BY SpansInFacts
  <2> QED BY <1>2, <1>3, <1>4, <2>1, <2>2
<1> QED BY <1>2, <1>3, <1>4, <1>5

\* The sublists of n units changed.
LEMMA GlobalWritten ==
  ASSUME NEW sc, NEW gl, FreeLists(sc, gl), NEW n \in SpanUnits, NEW y \in Seq(Seq(Span)),
         NEW gm, GlobalSet(gl, n, y, gm)
  PROVE  gm[n] = y /\ ListTypes(sc, gm) /\ OnlyLists(sc, gl, sc, gm, n)
BY DEF FreeLists, ListTypes, GlobalSet, OnlyLists

\* The first sublist of n units leaves the global cache.
LEMMA GlobalDrop ==
  ASSUME NEW sc, NEW gl, FreeLists(sc, gl), NEW n \in SpanUnits,
         NEW y \in Seq(Seq(Span)), Shifted(gl[n], y), NEW gm, GlobalSet(gl, n, y, gm)
  PROVE  /\ FreeLists(sc, gm)
         /\ AllListed(sc, gm) = AllListed(sc, gl) \ Range(gl[n][1])
         /\ Listed(sc, gm, n) = Listed(sc, gl, n) \ Range(gl[n][1])
         /\ Range(gl[n][1]) \subseteq AllListed(sc, gl)
         /\ \A s \in Range(gl[n][1]) : SpanCount[s] = n
<1> DEFINE g == gl[n]
           C == UNION {Range(sc[k][n]) : k \in Heap}
<1>1. ListTypes(sc, gl) /\ ListsOf(sc, gl, n) /\ Once(sc, gl, n)
  BY DEF FreeLists, ListsOf
<1>2. g \in Seq(Seq(Span))
  BY <1>1 DEF ListTypes
<1>3. gm[n] = y /\ ListTypes(sc, gm) /\ OnlyLists(sc, gl, sc, gm, n)
  BY GlobalWritten
<1>4. /\ SpansIn(g) = Range(g[1]) \cup SpansIn(y)
      /\ 1 \in 1..Len(g)
      /\ \A j \in 1..Len(y) : j + 1 \in 1..Len(g) /\ j + 1 # 1 /\ g[j + 1] = y[j]
  BY <1>2, SpansInShifted, SMTT(30)
<1>5. Listed(sc, gl, n) = C \cup SpansIn(g) /\ Listed(sc, gm, n) = C \cup SpansIn(y)
  BY <1>3 DEF Listed
<1>6. C \cap Range(g[1]) = {}
  <2>1. \A k \in Heap : NoShare(g[1], sc[k][n])
    BY <1>1, <1>4 DEF Once
  <2> QED BY <2>1 DEF NoShare
<1>7. SpansIn(y) \cap Range(g[1]) = {}
  <2>1. ASSUME NEW s \in SpansIn(y) PROVE s \notin Range(g[1])
    <3>1. PICK j \in 1..Len(y) : s \in Range(y[j])
      BY SpansInFacts
    <3>2. NoShare(g[1], g[j + 1])
      BY <1>1, <1>4 DEF Once
    <3> QED BY <3>1, <3>2, <1>4 DEF NoShare
  <2> QED BY <2>1
<1> HIDE DEF C
<1>8. Listed(sc, gm, n) = Listed(sc, gl, n) \ Range(g[1])
  BY <1>4, <1>5, <1>6, <1>7
<1>9. Once(sc, gm, n)
  <2>1. \A j \in 1..Len(y) : NoRepeat(y[j])
    BY <1>1, <1>4 DEF Once
  <2>2. ASSUME NEW i \in 1..Len(y), NEW j \in 1..Len(y), i # j PROVE NoShare(y[i], y[j])
    <3>1. i + 1 # j + 1
      BY <2>2
    <3> QED BY <3>1, <1>1, <1>4 DEF Once
  <2>3. \A i \in 1..Len(y), k \in Heap : NoShare(y[i], sc[k][n])
    <3>1. \A i \in 1..Len(g), k \in Heap : NoShare(g[i], sc[k][n])
      BY <1>1 DEF Once
    <3> QED BY <3>1, <1>4
  <2> QED BY <2>1, <2>2, <2>3, <1>1, <1>3 DEF Once
<1>10. ListsOf(sc, gm, n)
  <2>1. \A j \in 1..Len(y) : y[j] # <<>>
    BY <1>1, <1>4 DEF ListsOf
  <2> QED BY <2>1, <1>1, <1>3, <1>8, <1>9 DEF ListsOf
<1>11. FreeLists(sc, gm)
  BY <1>3, <1>10, ListsChange
<1>12. AllListed(sc, gm) = (AllListed(sc, gl) \ Listed(sc, gl, n)) \cup Listed(sc, gm, n)
  BY <1>3, <1>10, ListsChange
<1>13. Listed(sc, gl, n) \subseteq AllListed(sc, gl)
  BY DEF AllListed
<1>14. Range(g[1]) \subseteq Listed(sc, gl, n) /\ \A s \in Listed(sc, gl, n) : SpanCount[s] = n
  BY <1>1, <1>4, <1>5 DEF ListsOf
<1> QED BY <1>8, <1>11, <1>12, <1>13, <1>14

\* A sublist of n units not yet free is put first in the global cache.
LEMMA GlobalAdd ==
  ASSUME NEW sc, NEW gl, FreeLists(sc, gl), NEW n \in SpanUnits,
         NEW y \in Seq(Seq(Span)), Shifted(y, gl[n]), y[1] # <<>>, NoRepeat(y[1]),
         \A s \in Range(y[1]) : SpanCount[s] = n /\ s \notin Listed(sc, gl, n),
         NEW gm, GlobalSet(gl, n, y, gm)
  PROVE  /\ FreeLists(sc, gm)
         /\ AllListed(sc, gm) = AllListed(sc, gl) \cup Range(y[1])
<1> DEFINE g == gl[n]
           C == UNION {Range(sc[k][n]) : k \in Heap}
<1>1. ListTypes(sc, gl) /\ ListsOf(sc, gl, n) /\ Once(sc, gl, n)
  BY DEF FreeLists, ListsOf
<1>2. g \in Seq(Seq(Span))
  BY <1>1 DEF ListTypes
<1>3. gm[n] = y /\ ListTypes(sc, gm) /\ OnlyLists(sc, gl, sc, gm, n)
  BY GlobalWritten
<1>4. /\ SpansIn(y) = Range(y[1]) \cup SpansIn(g)
      /\ \A i \in 1..Len(y) : i = 1 \/ \E j \in 1..Len(g) : i = j + 1 /\ y[i] = g[j]
  <2>1. Shifted(y, g)
    OBVIOUS
  <2> HIDE DEF g
  <2>2. SpansIn(y) = Range(y[1]) \cup SpansIn(g)
    BY <1>2, <2>1, SpansInShifted
  <2>3. \A i \in 1..Len(y) : i = 1 \/ \E j \in 1..Len(g) : i = j + 1 /\ y[i] = g[j]
    BY <1>2, <2>1, SpansInShifted
  <2> QED BY <2>2, <2>3
<1>5. Listed(sc, gl, n) = C \cup SpansIn(g) /\ Listed(sc, gm, n) = C \cup SpansIn(y)
  BY <1>3 DEF Listed
<1>6. Listed(sc, gm, n) = Listed(sc, gl, n) \cup Range(y[1])
  BY <1>4, <1>5
<1>7. ASSUME NEW j \in 1..Len(g) PROVE NoShare(y[1], g[j]) /\ NoShare(g[j], y[1])
  <2>1. Range(g[j]) \subseteq SpansIn(g)
    BY <1>2, SpansInFacts
  <2> QED BY <2>1, <1>5 DEF NoShare
<1>8. ASSUME NEW k \in Heap PROVE NoShare(y[1], sc[k][n])
  <2>1. Range(sc[k][n]) \subseteq C
    OBVIOUS
  <2> QED BY <2>1, <1>5 DEF NoShare
<1> HIDE DEF C
<1>9. Once(sc, gm, n)
  <2>1. \A j \in 1..Len(y) : NoRepeat(y[j])
    BY <1>1, <1>4 DEF Once
  <2>2. ASSUME NEW i \in 1..Len(y), NEW j \in 1..Len(y), i # j PROVE NoShare(y[i], y[j])
    <3>1. CASE i = 1
      BY <3>1, <2>2, <1>4, <1>7
    <3>2. CASE j = 1
      BY <3>2, <2>2, <1>4, <1>7
    <3>3. CASE i # 1 /\ j # 1
      <4>1. PICK a \in 1..Len(g) : i = a + 1 /\ y[i] = g[a]
        BY <3>3, <1>4
      <4>2. PICK b \in 1..Len(g) : j = b + 1 /\ y[j] = g[b]
        BY <3>3, <1>4
      <4>3. a # b
        BY <2>2, <4>1, <4>2
      <4> QED BY <4>1, <4>2, <4>3, <1>1 DEF Once
    <3> QED BY <3>1, <3>2, <3>3
  <2>3. \A i \in 1..Len(y), k \in Heap : NoShare(y[i], sc[k][n])
    <3>1. \A i \in 1..Len(g), k \in Heap : NoShare(g[i], sc[k][n])
      BY <1>1 DEF Once
    <3> QED BY <3>1, <1>4, <1>8
  <2> QED BY <2>1, <2>2, <2>3, <1>1, <1>3 DEF Once
<1>10. ListsOf(sc, gm, n)
  <2>1. \A j \in 1..Len(y) : y[j] # <<>>
    <3>1. \A j \in 1..Len(g) : g[j] # <<>>
      BY <1>1 DEF ListsOf
    <3> QED BY <3>1, <1>4
  <2>2. \A s \in Listed(sc, gm, n) : SpanCount[s] = n
    BY <1>1, <1>6 DEF ListsOf
  <2> QED BY <2>1, <2>2, <1>3, <1>9 DEF ListsOf
<1>11. FreeLists(sc, gm)
  BY <1>3, <1>10, ListsChange
<1>12. AllListed(sc, gm) = (AllListed(sc, gl) \ Listed(sc, gl, n)) \cup Listed(sc, gm, n)
  BY <1>3, <1>10, ListsChange
<1>13. Listed(sc, gl, n) \subseteq AllListed(sc, gl)
  BY DEF AllListed
<1> QED BY <1>6, <1>11, <1>12, <1>13

\* The first sublist taken from the global cache: span s of it is used, the
\* others are cached in the list r.
LEMMA GlobalTake ==
  ASSUME NEW sc, NEW gl, FreeLists(sc, gl), NEW h \in Heap, NEW n \in SpanUnits, Range(sc[h][n]) = {},
         NEW y \in Seq(Seq(Span)), Shifted(gl[n], y), NEW s \in Range(gl[n][1]),
         NEW r \in Seq(Span), NoRepeat(r), Range(r) = Range(gl[n][1]) \ {s},
         NEW sd, CacheSet(sc, h, n, r, sd), NEW gm, GlobalSet(gl, n, y, gm)
  PROVE  /\ FreeLists(sd, gm)
         /\ Without(AllListed(sc, gl), s, AllListed(sd, gm))
         /\ SpanCount[s] = n
<1>1. /\ FreeLists(sc, gm)
      /\ AllListed(sc, gm) = AllListed(sc, gl) \ Range(gl[n][1])
      /\ Listed(sc, gm, n) = Listed(sc, gl, n) \ Range(gl[n][1])
      /\ Range(gl[n][1]) \subseteq AllListed(sc, gl)
      /\ \A x \in Range(gl[n][1]) : SpanCount[x] = n
  BY GlobalDrop
<1>2. \A x \in Range(r) : SpanCount[x] = n /\ (x \in Range(sc[h][n]) \/ x \notin Listed(sc, gm, n))
  BY <1>1
<1>3. FreeLists(sd, gm)
  BY <1>1, <1>2, CacheChange
<1>4. AllListed(sd, gm) = (AllListed(sc, gm) \ Range(sc[h][n])) \cup Range(r)
  BY <1>1, <1>2, CacheChange
<1> QED BY <1>1, <1>3, <1>4 DEF Without

\* A heap's list is cut in two: a goes to the global cache, z stays.
LEMMA GlobalPut ==
  ASSUME NEW sc, NEW gl, FreeLists(sc, gl), NEW h \in Heap, NEW n \in SpanUnits,
         NEW y \in Seq(Seq(Span)), Shifted(y, gl[n]), NEW z \in Seq(Span),
         y[1] # <<>>, NoRepeat(y[1]), NoRepeat(z), Range(y[1]) \cap Range(z) = {},
         Range(y[1]) \cup Range(z) = Range(sc[h][n]),
         NEW sd, CacheSet(sc, h, n, z, sd), NEW gm, GlobalSet(gl, n, y, gm)
  PROVE  /\ FreeLists(sd, gm)
         /\ AllListed(sd, gm) = AllListed(sc, gl)
<1>1. Range(sc[h][n]) \subseteq Listed(sc, gl, n) /\ Listed(sc, gl, n) \subseteq AllListed(sc, gl)
  BY DEF Listed, AllListed
<1>2. \A x \in Range(sc[h][n]) : SpanCount[x] = n
  BY <1>1 DEF FreeLists, ListsOf
<1>3. \A x \in Range(z) : SpanCount[x] = n /\ (x \in Range(sc[h][n]) \/ x \notin Listed(sc, gl, n))
  BY <1>2
<1>4. FreeLists(sd, gl)
  BY <1>3, CacheChange
<1>5. AllListed(sd, gl) = (AllListed(sc, gl) \ Range(sc[h][n])) \cup Range(z)
  BY <1>3, CacheChange
<1>6. Listed(sd, gl, n) \subseteq AllListed(sd, gl)
  BY DEF AllListed
<1>7. \A x \in Range(y[1]) : SpanCount[x] = n /\ x \notin Listed(sd, gl, n)
  BY <1>2, <1>5, <1>6
<1>8. FreeLists(sd, gm)
  BY <1>4, <1>7, GlobalAdd
<1>9. AllListed(sd, gm) = AllListed(sd, gl) \cup Range(y[1])
  BY <1>4, <1>7, GlobalAdd
<1> QED BY <1>1, <1>5, <1>8, <1>9

\* All of a heap's caches emptied.
LEMMA CacheEmptied ==
  ASSUME NEW sc, NEW gl, FreeLists(sc, gl), NEW h \in Heap,
         NEW sd, sd = [sc EXCEPT ![h] = [n \in SpanUnits |-> <<>>]]
  PROVE  /\ FreeLists(sd, gl)
         /\ AllListed(sd, gl) = AllListed(sc, gl) \ SpansIn(sc[h])
<1>1. ListTypes(sc, gl) /\ \A n \in SpanUnits : ListsOf(sc, gl, n)
  BY DEF FreeLists
<1>2. sc \in [Heap -> [SpanUnits -> Seq(Span)]] /\ gl \in [SpanUnits -> Seq(Seq(Span))]
  BY <1>1 DEF ListTypes, CacheType
<1>3. sd \in [Heap -> [SpanUnits -> Seq(Span)]] /\ (\A n \in SpanUnits : sd[h][n] = <<>>)
      /\ \A k \in Heap \ {h} : sd[k] = sc[k]
  <2>1. [n \in SpanUnits |-> <<>>] \in [SpanUnits -> Seq(Span)]
    OBVIOUS
  <2>2. sd[h] = [n \in SpanUnits |-> <<>>] /\ sd \in [Heap -> [SpanUnits -> Seq(Span)]]
    BY <1>2, <2>1
  <2>3. \A k \in Heap \ {h} : sd[k] = sc[k]
    BY <1>2
  <2>4. \A n \in SpanUnits : sd[h][n] = <<>>
    BY <2>2
  <2> QED BY <2>2, <2>3, <2>4
<1>4. SpansIn(sc[h]) = UNION {Range(sc[h][n]) : n \in SpanUnits}
  <2>1. DOMAIN sc[h] = SpanUnits
    BY <1>2
  <2> QED BY <2>1 DEF SpansIn
<1>5. ASSUME NEW n \in SpanUnits
      PROVE  Listed(sd, gl, n) = Listed(sc, gl, n) \ Range(sc[h][n]) /\ ListsOf(sd, gl, n)
  <2> DEFINE Others == UNION {Range(sc[j][n]) : j \in Heap \ {h}}
  <2>1. Once(sc, gl, n)
    BY <1>1 DEF ListsOf
  <2>2. UNION {Range(sc[j][n]) : j \in Heap} = Others \cup Range(sc[h][n])
    BY <1>2, CachedWritten
  <2>3. UNION {Range(sd[j][n]) : j \in Heap} = Others \cup Range(sd[h][n])
    BY <1>2, <1>3, CachedWritten
  <2>4. Range(sd[h][n]) = {} /\ NoRepeat(sd[h][n])
    BY <1>3, EmptyFacts
  <2>5. Others \cap Range(sc[h][n]) = {}
    BY <2>1 DEF Once, NoShare
  <2>6. SpansIn(gl[n]) \cap Range(sc[h][n]) = {}
    <3>1. gl[n] \in Seq(Seq(Span))
      BY <1>2
    <3>2. \A i \in 1..Len(gl[n]) : Range(gl[n][i]) \cap Range(sc[h][n]) = {}
      BY <2>1 DEF Once, NoShare
    <3> QED BY <3>1, <3>2, SpansInFacts
  <2> HIDE DEF Others
  <2>7. Listed(sd, gl, n) = Listed(sc, gl, n) \ Range(sc[h][n])
    BY <2>2, <2>3, <2>4, <2>5, <2>6 DEF Listed
  <2>8. \A k \in Heap : Range(sd[k][n]) \subseteq Range(sc[k][n]) /\ NoRepeat(sd[k][n])
    BY <1>3, <2>1, <2>4 DEF Once
  <2>9. Once(sd, gl, n)
    BY <2>1, <2>8 DEF Once, NoShare
  <2> QED BY <1>1, <2>7, <2>9 DEF ListsOf
<1>6. ASSUME NEW s PROVE s \in AllListed(sd, gl) <=> s \in AllListed(sc, gl) \ SpansIn(sc[h])
  <2>1. s \in AllListed(sd, gl) <=> \E n \in SpanUnits : s \in Listed(sd, gl, n)
    BY DEF AllListed
  <2>2. s \in AllListed(sc, gl) <=> \E n \in SpanUnits : s \in Listed(sc, gl, n)
    BY DEF AllListed
  <2>3. s \in SpansIn(sc[h]) <=> \E n \in SpanUnits : s \in Range(sc[h][n])
    BY <1>4
  <2>4. \A n \in SpanUnits : s \in Listed(sc, gl, n) => SpanCount[s] = n
    BY <1>1 DEF ListsOf
  <2>5. \A n \in SpanUnits : s \in Range(sc[h][n]) => s \in Listed(sc, gl, n)
    BY DEF Listed
  <2>6. \A n \in SpanUnits : s \in Listed(sd, gl, n) <=> s \in Listed(sc, gl, n) /\ s \notin Range(sc[h][n])
    BY <1>5
  <2> QED BY <2>1, <2>2, <2>3, <2>4, <2>5, <2>6
<1> QED BY <1>1, <1>2, <1>3, <1>5, <1>6 DEF FreeLists, ListTypes, CacheType

\* The global caches emptied.
LEMMA GlobalEmptied ==
  ASSUME NEW sc, NEW gl, FreeLists(sc, gl), NEW gm, gm = [n \in SpanUnits |-> <<>>]
  PROVE  /\ FreeLists(sc, gm)
         /\ AllListed(sc, gm) = AllListed(sc, gl) \ UNION {SpansIn(gl[n]) : n \in SpanUnits}
<1>1. ListTypes(sc, gl) /\ \A n \in SpanUnits : ListsOf(sc, gl, n)
  BY DEF FreeLists
<1>2. gm \in [SpanUnits -> Seq(Seq(Span))]
  OBVIOUS
<1>3. ASSUME NEW n \in SpanUnits
      PROVE  Listed(sc, gm, n) = Listed(sc, gl, n) \ SpansIn(gl[n]) /\ ListsOf(sc, gm, n)
  <2>1. Once(sc, gl, n) /\ gl[n] \in Seq(Seq(Span))
    BY <1>1 DEF ListsOf, ListTypes
  <2>2. gm[n] = <<>> /\ SpansIn(gm[n]) = {} /\ Len(gm[n]) = 0
    <3>1. <<>> \in Seq(Seq(Span)) /\ Len(<<>>) = 0 /\ gm[n] = <<>>
      OBVIOUS
    <3>2. ASSUME NEW s PROVE s \notin SpansIn(<<>>)
      <4>1. s \in SpansIn(<<>>) <=> \E i \in 1..Len(<<>>) : s \in Range(<<>>[i])
        BY <3>1, SpansInFacts
      <4> QED BY <4>1, <3>1
    <3> QED BY <3>1, <3>2
  <2>3. SpansIn(gl[n]) \cap UNION {Range(sc[j][n]) : j \in Heap} = {}
    <3>1. \A i \in 1..Len(gl[n]), j \in Heap : Range(gl[n][i]) \cap Range(sc[j][n]) = {}
      BY <2>1 DEF Once, NoShare
    <3>2. ASSUME NEW s \in SpansIn(gl[n]), NEW j \in Heap PROVE s \notin Range(sc[j][n])
      <4>1. PICK i \in 1..Len(gl[n]) : s \in Range(gl[n][i])
        BY <2>1, SpansInFacts
      <4> QED BY <4>1, <3>1
    <3> QED BY <3>2
  <2>4. Listed(sc, gm, n) = Listed(sc, gl, n) \ SpansIn(gl[n])
    BY <2>2, <2>3 DEF Listed
  <2>5. Once(sc, gm, n)
    BY <2>1, <2>2 DEF Once
  <2> QED BY <1>1, <2>2, <2>4, <2>5 DEF ListsOf
<1>4. ASSUME NEW s PROVE s \in AllListed(sc, gm) <=>
                           s \in AllListed(sc, gl) \ UNION {SpansIn(gl[n]) : n \in SpanUnits}
  <2>1. s \in AllListed(sc, gm) <=> \E n \in SpanUnits : s \in Listed(sc, gm, n)
    BY DEF AllListed
  <2>2. s \in AllListed(sc, gl) <=> \E n \in SpanUnits : s \in Listed(sc, gl, n)
    BY DEF AllListed
  <2>3. \A n \in SpanUnits : \A x \in Listed(sc, gl, n) : SpanCount[x] = n
    BY <1>1 DEF ListsOf
  <2>4. \A n \in SpanUnits : SpansIn(gl[n]) \subseteq Listed(sc, gl, n)
    BY DEF Listed
  <2> QED BY <1>3, <2>1, <2>2, <2>3, <2>4
<1> QED BY <1>1, <1>2, <1>3, <1>4 DEF FreeLists, ListTypes
-----------------------------------------------------------------------------
(* The free blocks of a span *)

\* A function from an interval to the numbers has a largest value.
LEMMA LargestValue ==
  ASSUME NEW n \in Nat, NEW f \in [0..n -> Nat]
  PROVE  \E j \in 0..n : \A i \in 0..n : f[i] <= f[j]
<1> DEFINE Bad == {k \in 0..n : ~\E j \in 0..k : \A i \in 0..k : f[i] <= f[j]}
<1>1. SUFFICES ASSUME n \in Bad PROVE FALSE
  OBVIOUS
<1>2. PICK k \in Bad : \A m \in Bad : k <= m
  <2>1. \A x \in Bad : x \in Nat
    OBVIOUS
  <2>2. Bad \subseteq Nat /\ Bad # {}
    BY <1>1, <2>1
  <2> HIDE DEF Bad
  <2> QED BY <2>2, LeastElement
<1>3. k \in 0..n /\ k # 0
  <2>1. k = 0 => \A i \in 0..k : i = 0
    OBVIOUS
  <2> QED BY <1>2, <2>1
<1>4. k - 1 \in 0..n /\ k - 1 \notin Bad
  <2>1. k \in Nat /\ k - 1 \in 0..n /\ ~(k <= k - 1)
    BY <1>3
  <2> HIDE DEF Bad
  <2> QED BY <1>2, <2>1
<1>5. PICK j \in 0..(k - 1) : \A i \in 0..(k - 1) : f[i] <= f[j]
  BY <1>4
<1>6. /\ j \in 0..k /\ j \in 0..n /\ f[j] \in Nat /\ f[k] \in Nat
      /\ \A i \in 0..k : i = k \/ i \in 0..(k - 1)
  BY <1>3, <1>5
<1>7. CASE f[k] <= f[j]
  <2>1. \A i \in 0..k : f[i] <= f[j]
    BY <1>5, <1>6, <1>7
  <2> QED BY <2>1, <1>2, <1>6
<1>8. CASE ~(f[k] <= f[j])
  <2>1. ASSUME NEW i \in 0..(k - 1) PROVE f[i] <= f[k]
    <3>1. f[i] \in Nat /\ f[i] <= f[j]
      BY <1>3, <1>5
    <3> QED BY <3>1, <1>6, <1>8
  <2>2. \A i \in 0..k : f[i] <= f[k]
    BY <1>6, <2>1
  <2>3. k \in 0..k
    BY <1>3
  <2> QED BY <2>2, <2>3, <1>2
<1> QED BY <1>7, <1>8

\* Every class has at least two blocks and at most MaxBlocks.
LEMMA BlockSets ==
  /\ MaxBlocks \in Nat \ {0} /\ Stale = MaxBlocks /\ Slot = 0..(MaxBlocks - 1)
  /\ \A c \in SmallClass : BlockCount[c] \in Nat /\ BlockCount[c] >= 2 /\ BlockCount[c] <= MaxBlocks
  /\ 0 \in Slot
<1>1. /\ SizeClassCount \in Nat /\ SmallClass = 0..(SizeClassCount - 1)
      /\ BlockCount \in [SmallClass -> Nat] /\ \A c \in SmallClass : BlockCount[c] >= 2
  BY BlockCountAssumption DEF SmallClass
<1>2. MaxBlocks \in Nat \ {0} /\ \A c \in SmallClass : BlockCount[c] <= MaxBlocks
  <2>1. CASE SizeClassCount = 0
    BY <1>1, <2>1 DEF MaxBlocks
  <2>2. CASE SizeClassCount # 0
    <3>1. SizeClassCount - 1 \in Nat
      BY <1>1, <2>2
    <3>2. PICK j \in SmallClass : \A i \in SmallClass : BlockCount[i] <= BlockCount[j]
      BY <1>1, <3>1, LargestValue
    <3>3. Range(BlockCount) = {BlockCount[c] : c \in SmallClass}
      BY <1>1 DEF Range
    <3>4. BlockCount[j] \in Range(BlockCount) /\ \A m \in Range(BlockCount) : m <= BlockCount[j]
      BY <3>2, <3>3
    <3>5. MaxBlocks = CHOOSE n \in Range(BlockCount) : \A m \in Range(BlockCount) : m <= n
      BY <2>2 DEF MaxBlocks
    <3>6. MaxBlocks \in Range(BlockCount) /\ \A m \in Range(BlockCount) : m <= MaxBlocks
      BY <3>4, <3>5
    <3>7. MaxBlocks \in Nat /\ MaxBlocks >= 2
      BY <1>1, <3>3, <3>6
    <3>8. \A c \in SmallClass : BlockCount[c] <= MaxBlocks
      BY <3>3, <3>6
    <3> QED BY <3>7, <3>8
  <2> QED BY <2>1, <2>2
<1>3. 0 \in 0..(MaxBlocks - 1)
  BY <1>2
<1> QED BY <1>1, <1>2, <1>3 DEF Stale, Slot

\* The index in a word.
LEMMA IndexRead == \A i \in 0..Stale : IndexIn(IndexWord(i)) = i
<1>1. ASSUME NEW i \in 0..Stale PROVE IndexWord(i) # Null /\ IndexWord(i)[2] = i
  BY NullAssumption DEF IndexWord
<1> QED BY <1>1 DEF IndexIn

\* The words of the blocks of span s that are not in U are the same.
SameFree(U, s, w, x) == \A i \in Slot \ U : x[<<s, i>>] = w[<<s, i>>]

\* The bookkeeping a step leaves: bd2 after the block of bd is handed out.
HandsOut(c, s, bd, w, bd2) ==
  IF bd.free_count = 1
  THEN bd2.first_autolink = BlockCount[c] /\ bd2.free_count = 0
  ELSE /\ bd2.free_count = bd.free_count - 1
       /\ IF bd.free_list < bd.first_autolink
          THEN /\ bd2.free_list = IndexIn(w[<<s, bd.free_list>>])
               /\ bd2.first_autolink = bd.first_autolink
          ELSE /\ bd2.free_list = bd.free_list + 1
               /\ bd2.first_autolink = bd.first_autolink + 1

\* Each of f is a block below a that is not in U.
AllFreeBelow(f, U, a) == \A i \in 1..Len(f) : f[i] \in Slot \ U /\ f[i] \in Nat /\ f[i] < a

\* The numbers in the bookkeeping of a span.
LEMMA FreeListFacts ==
  ASSUME NEW U, NEW s, NEW c \in SmallClass, NEW bd, NEW w, NEW f, FreeListIs(U, s, c, bd, w, f)
  PROVE  /\ Len(f) \in Nat /\ bd.first_autolink \in Nat /\ BlockCount[c] \in Nat
         /\ bd.first_autolink <= BlockCount[c] /\ BlockCount[c] <= MaxBlocks /\ MaxBlocks \in Nat
         /\ bd.free_count = Len(f) + (BlockCount[c] - bd.first_autolink)
         /\ AllFreeBelow(f, U, bd.first_autolink)
         /\ U \subseteq Slot
<1>1. /\ f \in Seq(Nat) /\ bd.first_autolink \in 0..BlockCount[c]
      /\ Range(f) = {i \in 0..(bd.first_autolink - 1) : i \notin U}
      /\ bd.free_count = Len(f) + (BlockCount[c] - bd.first_autolink)
      /\ U \subseteq 0..(bd.first_autolink - 1)
  BY DEF FreeListIs
<1>2. BlockCount[c] \in Nat /\ BlockCount[c] <= MaxBlocks /\ MaxBlocks \in Nat /\ Slot = 0..(MaxBlocks - 1)
  BY BlockSets
<1>3. 0..(bd.first_autolink - 1) \subseteq Slot
  BY <1>1, <1>2
<1>4. ASSUME NEW i \in 1..Len(f) PROVE f[i] \in Slot \ U /\ f[i] \in Nat /\ f[i] < bd.first_autolink
  <2>1. f[i] \in Range(f)
    BY <1>1, RangeFacts
  <2> QED BY <2>1, <1>1, <1>2, <1>3
<1> QED BY <1>1, <1>2, <1>3, <1>4 DEF AllFreeBelow

\* The block at the head of the list is free, and without it the list goes on.
LEMMA HandOutList ==
  ASSUME NEW U, NEW s, NEW c \in SmallClass, NEW bd, NEW w, NEW f, FreeListIs(U, s, c, bd, w, f),
         bd.free_count > 0, NEW bd2, HandsOut(c, s, bd, w, bd2),
         NEW V, V = U \cup {bd.free_list}, NEW x, SameFree(V, s, w, x)
  PROVE  /\ bd.free_list \in Slot \ U /\ bd.free_list < BlockCount[c]
         /\ \E g : FreeListIs(V, s, c, bd2, x, g)
         /\ bd.free_count > 1 => bd2.free_list \in 0..BlockCount[c] /\ bd2.first_autolink \in 0..BlockCount[c]
<1> DEFINE a == bd.first_autolink
           B == BlockCount[c]
           i == bd.free_list
<1>1. /\ f \in Seq(Nat) /\ NoRepeat(f)
      /\ Range(f) = {j \in 0..(a - 1) : j \notin U}
      /\ U \subseteq 0..(a - 1)
      /\ \A j \in 1..Len(f) : (j < Len(f) \/ a < B) => w[<<s, f[j]>>] = IndexWord(NthFree(f, a, j + 1))
      /\ i = NthFree(f, a, 1)
  BY DEF FreeListIs
<1>2. /\ Len(f) \in Nat /\ a \in Nat /\ B \in Nat /\ a <= B /\ B <= MaxBlocks /\ MaxBlocks \in Nat
      /\ bd.free_count = Len(f) + (B - a)
      /\ \A j \in 1..Len(f) : f[j] \in Slot \ U /\ f[j] \in Nat /\ f[j] < a
  <2>1. /\ Len(f) \in Nat /\ a \in Nat /\ B \in Nat /\ a <= B /\ B <= MaxBlocks /\ MaxBlocks \in Nat
        /\ bd.free_count = Len(f) + (B - a)
    BY FreeListFacts
  <2>2. \A j \in 1..Len(f) : f[j] \in Slot \ U /\ f[j] \in Nat /\ f[j] < a
    BY FreeListFacts DEF AllFreeBelow
  <2> QED BY <2>1, <2>2
<1>3. Slot = 0..(MaxBlocks - 1) /\ Stale = MaxBlocks
  BY BlockSets
<1>4. CASE f # <<>>
  <2> DEFINE g == Tail(f)
  <2>1. /\ g \in Seq(Nat) /\ Len(f) \in Nat \ {0} /\ Len(g) = Len(f) - 1
        /\ \A j \in 1..(Len(f) - 1) : g[j] = f[j + 1]
    BY <1>1, <1>4, TailFacts
  <2>2. f[1] \in Range(f) /\ Range(g) = Range(f) \ {f[1]} /\ NoRepeat(g)
    BY <1>1, <1>4, TailRange
  <2> HIDE DEF g
  <2>3. 1 \in 1..Len(f) /\ i = f[1]
    BY <1>1, <2>1 DEF NthFree
  <2>4. i \in Slot \ U /\ i < a /\ i \in Nat
    BY <1>2, <2>3
  <2>5. Range(g) = {j \in 0..(a - 1) : j \notin V} /\ V \subseteq 0..(a - 1)
    BY <1>1, <1>2, <2>2, <2>3, <2>4
  <2>6. ASSUME NEW j \in 1..Len(g)
        PROVE  /\ j + 1 \in 1..Len(f) /\ g[j] = f[j + 1] /\ g[j] \in Slot \ V
               /\ NthFree(f, a, (j + 1) + 1) = NthFree(g, a, j + 1)
    <3>1. j + 1 \in 1..Len(f) /\ g[j] = f[j + 1] /\ j + 1 # 1
      BY <2>1
    <3>2. g[j] \in Slot \ V
      BY <1>1, <1>2, <2>3, <3>1 DEF NoRepeat
    <3>3. CASE j = Len(g)
      <4>1. (j + 1) + 1 \notin 1..Len(f) /\ j + 1 \notin 1..Len(g)
        BY <2>1, <3>3
      <4> QED BY <3>1, <3>2, <4>1 DEF NthFree
    <3>4. CASE j # Len(g)
      <4>1. (j + 1) + 1 \in 1..Len(f) /\ j + 1 \in 1..Len(g) /\ j + 1 \in 1..(Len(f) - 1)
        BY <2>1, <3>4
      <4> QED BY <3>1, <3>2, <4>1, <2>1 DEF NthFree
    <3> QED BY <3>3, <3>4
  <2>7. ASSUME NEW j \in 1..Len(g), j < Len(g) \/ a < B PROVE x[<<s, g[j]>>] = IndexWord(NthFree(g, a, j + 1))
    <3>1. j + 1 < Len(f) \/ a < B
      BY <2>1, <2>7
    <3>2. w[<<s, f[j + 1]>>] = IndexWord(NthFree(f, a, (j + 1) + 1))
      BY <3>1, <2>6, <1>1
    <3>3. x[<<s, g[j]>>] = w[<<s, g[j]>>]
      BY <2>6 DEF SameFree
    <3> QED BY <2>6, <3>2, <3>3
  <2>8. CASE bd.free_count = 1
    <3>1. Len(g) = 0 /\ a = B
      BY <1>2, <2>1, <2>8
    <3>2. bd2.first_autolink = B /\ bd2.free_count = 0
      BY <2>8 DEF HandsOut
    <3>3. bd2.first_autolink \in 0..B /\ bd2.free_count = Len(g) + (B - bd2.first_autolink)
          /\ ~(bd2.free_count > 0)
      BY <1>2, <3>1, <3>2
    <3>4. FreeListIs(V, s, c, bd2, x, g)
      BY <2>1, <2>2, <2>5, <2>7, <3>1, <3>2, <3>3 DEF FreeListIs
    <3> QED BY <2>4, <3>4, <1>2, <2>8
  <2>9. CASE bd.free_count # 1
    <3>1. 1 < Len(f) \/ a < B
      BY <1>2, <2>1, <2>9
    <3>2. w[<<s, i>>] = IndexWord(NthFree(f, a, 2))
      BY <1>1, <2>3, <3>1
    <3>3. NthFree(f, a, 2) = NthFree(g, a, 1) /\ NthFree(g, a, 1) \in 0..B
      <4>1. CASE Len(g) = 0
        <5>0. Len(f) = 1
          BY <2>1, <4>1
        <5>1. 2 \notin 1..Len(f) /\ 1 \notin 1..Len(g)
          BY <5>0, <4>1
        <5> QED BY <5>1, <1>2 DEF NthFree
      <4>2. CASE Len(g) # 0
        <5>1. 2 \in 1..Len(f) /\ 1 \in 1..Len(g) /\ 1 \in 1..(Len(f) - 1) /\ g[1] = f[2]
          BY <2>1, <4>2, SMTT(30)
        <5>2. f[2] \in Nat /\ f[2] < a
          BY <5>1, <1>2
        <5> QED BY <5>1, <5>2, <1>2 DEF NthFree
      <4> QED BY <4>1, <4>2
    <3>4. bd2.free_list = NthFree(g, a, 1) /\ bd2.first_autolink = a /\ bd2.free_count = bd.free_count - 1
      <4>1. bd2.free_list = IndexIn(w[<<s, i>>]) /\ bd2.first_autolink = a /\ bd2.free_count = bd.free_count - 1
        BY <2>4, <2>9 DEF HandsOut
      <4>2. NthFree(g, a, 1) \in 0..Stale
        BY <3>3, <1>2, <1>3
      <4> QED BY <4>1, <4>2, <3>2, <3>3, IndexRead
    <3>5. bd2.first_autolink \in 0..B /\ bd2.free_count = Len(g) + (B - bd2.first_autolink)
      BY <1>2, <2>1, <3>4
    <3>6. FreeListIs(V, s, c, bd2, x, g)
      BY <2>1, <2>2, <2>5, <2>7, <3>4, <3>5 DEF FreeListIs
    <3> QED BY <2>4, <3>3, <3>4, <3>5, <3>6, <1>2
  <2> QED BY <2>8, <2>9
<1>5. CASE f = <<>>
  <2>1. Len(f) = 0 /\ i = a /\ a < B
    BY <1>1, <1>2, <1>5 DEF NthFree
  <2>2. Range(f) = {} /\ NoRepeat(f)
    BY <1>5, EmptyFacts
  <2>3. i \in Slot \ U /\ i \in Nat
    BY <1>1, <1>2, <1>3, <2>1
  <2>4. V \subseteq 0..((a + 1) - 1) /\ Range(f) = {j \in 0..((a + 1) - 1) : j \notin V}
    <3>1. \A j \in 0..((a + 1) - 1) : j = a \/ j \in 0..(a - 1)
      BY <1>2
    <3>2. a \in 0..((a + 1) - 1) /\ 0..(a - 1) \subseteq 0..((a + 1) - 1)
      BY <1>2
    <3>3. \A j \in 0..(a - 1) : j \in U
      BY <1>1, <2>2
    <3>4. V = U \cup {a}
      BY <2>1
    <3>5. \A j \in 0..((a + 1) - 1) : j \in V
      BY <3>1, <3>3, <3>4
    <3>6. V \subseteq 0..((a + 1) - 1)
      BY <1>1, <3>2, <3>4
    <3> QED BY <2>2, <3>5, <3>6
  <2>5. CASE bd.free_count = 1
    <3>1. bd2.first_autolink = B /\ bd2.free_count = 0 /\ a + 1 = B
      BY <1>2, <2>1, <2>5 DEF HandsOut
    <3>2. bd2.first_autolink \in 0..B /\ bd2.free_count = Len(f) + (B - bd2.first_autolink)
          /\ ~(bd2.free_count > 0) /\ bd2.first_autolink = a + 1
      BY <1>2, <2>1, <3>1
    <3>3. FreeListIs(V, s, c, bd2, x, f)
      BY <1>1, <2>1, <2>2, <2>4, <3>2 DEF FreeListIs
    <3> QED BY <2>1, <2>3, <3>3, <1>2, <2>5
  <2>6. CASE bd.free_count # 1
    <3>1. ~(i < a)
      BY <1>2, <2>1
    <3>2. bd2.free_list = a + 1 /\ bd2.first_autolink = a + 1 /\ bd2.free_count = bd.free_count - 1
      BY <3>1, <2>1, <2>6 DEF HandsOut
    <3>3. bd2.first_autolink \in 0..B /\ bd2.free_count = Len(f) + (B - bd2.first_autolink)
      BY <1>2, <2>1, <3>2
    <3>4. NthFree(f, a + 1, 1) = a + 1
      BY <2>1 DEF NthFree
    <3>5. FreeListIs(V, s, c, bd2, x, f)
      BY <1>1, <2>1, <2>2, <2>4, <3>2, <3>3, <3>4 DEF FreeListIs
    <3> QED BY <2>1, <2>3, <3>2, <3>3, <3>5
  <2> QED BY <2>5, <2>6
<1> QED BY <1>4, <1>5

\* How many numbers an interval has.
LEMMA IntervalSize ==
  ASSUME NEW a \in Nat, NEW b \in Nat, a <= b
  PROVE  IsFiniteSet(a..(b - 1)) /\ Cardinality(a..(b - 1)) = b - a
<1>1. a \in Int /\ b - 1 \in Int
  OBVIOUS
<1>2. IsFiniteSet(a..(b - 1))
      /\ Cardinality(a..(b - 1)) = IF a > b - 1 THEN 0 ELSE (b - 1) - a + 1
  BY <1>1, FS_Interval
<1> QED BY <1>2

\* Some order of the free blocks fits.
HasList(U, s, c, bd, w) == \E f : FreeListIs(U, s, c, bd, w, f)

\* A block in use becomes the first of the list.
FreesTo(c, bd, i, bd2) ==
  /\ bd2.free_list = i
  /\ bd2.first_autolink = IF bd.free_count = 0 THEN BlockCount[c] ELSE bd.first_autolink
  /\ bd2.free_count = bd.free_count + 1

\* A block freed goes in front of the list of its span.
LEMMA FreedList ==
  ASSUME NEW U, NEW s, NEW c \in SmallClass, NEW bd, NEW w, NEW f, FreeListIs(U, s, c, bd, w, f),
         NEW i \in U, NEW bd2, FreesTo(c, bd, i, bd2), NEW V, V = U \ {i},
         NEW x, SameFree(U, s, w, x), x[<<s, i>>] = IndexWord(bd.free_list)
  PROVE  /\ HasList(V, s, c, bd2, x)
         /\ bd2.first_autolink \in 0..BlockCount[c] /\ bd2.free_count \in 1..BlockCount[c]
<1> DEFINE a == bd.first_autolink
           B == BlockCount[c]
           g == <<i>> \o f
<1>1. /\ f \in Seq(Nat) /\ NoRepeat(f)
      /\ Range(f) = {j \in 0..(a - 1) : j \notin U}
      /\ U \subseteq 0..(a - 1)
      /\ \A j \in 1..Len(f) : (j < Len(f) \/ a < B) => w[<<s, f[j]>>] = IndexWord(NthFree(f, a, j + 1))
      /\ bd.free_count > 0 => bd.free_list = NthFree(f, a, 1)
  BY DEF FreeListIs
<1>2. /\ Len(f) \in Nat /\ a \in Nat /\ B \in Nat /\ a <= B
      /\ bd.free_count = Len(f) + (B - a)
  BY FreeListFacts
<1>3. AllFreeBelow(f, U, a)
  BY FreeListFacts
<1>4. i \in Nat /\ i < a /\ i \in 0..(a - 1)
  BY <1>1, <1>2
<1>5. /\ g \in Seq(Nat) /\ Len(g) = Len(f) + 1 /\ g[1] = i
      /\ \A j \in 2..(Len(f) + 1) : g[j] = f[j - 1]
  BY <1>1, <1>4, ConsFacts
<1>6. Range(g) = {i} \cup Range(f) /\ NoRepeat(g)
  BY <1>1, <1>4, ConsRange
<1> HIDE DEF g
<1>7. bd2.first_autolink = a /\ bd2.free_list = i /\ bd2.free_count = bd.free_count + 1
  BY <1>2 DEF FreesTo
<1>8. Range(g) = {j \in 0..(a - 1) : j \notin V} /\ V \subseteq 0..(a - 1)
  BY <1>1, <1>4, <1>6
<1>9. \A j \in 1..Len(f) : NthFree(g, a, j + 1) = f[j]
  <2>1. ASSUME NEW j \in 1..Len(f) PROVE j + 1 \in 1..Len(g) /\ j + 1 \in 2..(Len(f) + 1) /\ (j + 1) - 1 = j
    BY <1>2, <1>5
  <2> QED BY <2>1, <1>5 DEF NthFree
<1>10. NthFree(g, a, Len(g) + 1) = a
  <2>1. Len(g) + 1 \notin 1..Len(g)
    BY <1>2, <1>5
  <2> QED BY <2>1 DEF NthFree
<1>11. \A j \in 1..Len(f) : NthFree(f, a, j) = f[j]
  BY DEF NthFree
<1>12. NthFree(f, a, Len(f) + 1) = a
  <2>1. Len(f) + 1 \notin 1..Len(f)
    BY <1>2
  <2> QED BY <2>1 DEF NthFree
<1>13. \A j \in 1..(Len(f) + 1) : NthFree(g, a, j + 1) = NthFree(f, a, j)
  <2>1. ASSUME NEW j \in 1..(Len(f) + 1) PROVE j \in 1..Len(f) \/ j = Len(f) + 1
    BY <1>2
  <2> QED BY <2>1, <1>5, <1>9, <1>10, <1>11, <1>12
<1>14. ASSUME NEW j \in 1..Len(g), j < Len(g) \/ a < B
       PROVE  x[<<s, g[j]>>] = IndexWord(NthFree(g, a, j + 1))
  <2>1. CASE j = 1
    <3>1. bd.free_count > 0
      BY <1>2, <1>5, <1>14, <2>1
    <3>2. bd.free_list = NthFree(f, a, 1) /\ 1 \in 1..(Len(f) + 1)
      BY <1>1, <1>2, <3>1
    <3>3. NthFree(g, a, 2) = bd.free_list
      BY <1>13, <3>2
    <3> QED BY <3>3, <2>1, <1>5
  <2>2. CASE j # 1
    <3>1. j - 1 \in 1..Len(f) /\ j \in 2..(Len(f) + 1) /\ (j - 1) + 1 = j /\ (j - 1 < Len(f) \/ a < B)
          /\ j \in 1..(Len(f) + 1)
      BY <1>2, <1>5, <1>14, <2>2
    <3>2. w[<<s, f[j - 1]>>] = IndexWord(NthFree(f, a, j)) /\ g[j] = f[j - 1]
      BY <3>1, <1>1, <1>5
    <3>3. x[<<s, f[j - 1]>>] = w[<<s, f[j - 1]>>]
      BY <3>1, <1>3 DEF SameFree, AllFreeBelow
    <3>4. NthFree(g, a, j + 1) = NthFree(f, a, j)
      BY <1>13, <3>1
    <3> QED BY <3>2, <3>3, <3>4
  <2> QED BY <2>1, <2>2
<1>15. NthFree(g, a, 1) = i
  <2>1. 1 \in 1..Len(g)
    BY <1>2, <1>5
  <2> QED BY <2>1, <1>5 DEF NthFree
<1>16. bd2.first_autolink \in 0..B /\ bd2.free_count = Len(g) + (B - bd2.first_autolink)
  BY <1>2, <1>5, <1>7
<1>17. FreeListIs(V, s, c, bd2, x, g)
  BY <1>5, <1>6, <1>7, <1>8, <1>14, <1>15, <1>16 DEF FreeListIs
<1>18. bd2.free_count \in 1..B
  <2>1. Len(g) <= a
    <3>1. Cardinality(Range(g)) = Len(g)
      BY <1>5, <1>6, NoRepeatCardinality
    <3>2. IsFiniteSet(0..(a - 1)) /\ Cardinality(0..(a - 1)) = a
      BY <1>2, IntervalSize
    <3>3. Range(g) \subseteq 0..(a - 1)
      BY <1>8
    <3> QED BY <3>1, <3>2, <3>3, FS_Subset
  <2> QED BY <2>1, <1>2, <1>5, <1>7, <1>16
<1> QED BY <1>16, <1>17, <1>18 DEF HasList

\* How many blocks are free.
LEMMA FreeCountIs ==
  ASSUME NEW U, NEW s, NEW c \in SmallClass, NEW bd, NEW w, NEW f, FreeListIs(U, s, c, bd, w, f)
  PROVE  /\ IsFiniteSet({i \in 0..(BlockCount[c] - 1) : i \notin U})
         /\ Cardinality({i \in 0..(BlockCount[c] - 1) : i \notin U}) = bd.free_count
         /\ IsFiniteSet(U) /\ Cardinality(U) = BlockCount[c] - bd.free_count
<1> DEFINE a == bd.first_autolink
           B == BlockCount[c]
<1>1. /\ f \in Seq(Nat) /\ NoRepeat(f)
      /\ Range(f) = {j \in 0..(a - 1) : j \notin U}
      /\ U \subseteq 0..(a - 1)
  BY DEF FreeListIs
<1>2. /\ Len(f) \in Nat /\ a \in Nat /\ B \in Nat /\ a <= B
      /\ bd.free_count = Len(f) + (B - a)
  <2>1. FreeListIs(U, s, c, bd, w, f)
    OBVIOUS
  <2>2. Len(f) \in Nat /\ a \in Nat /\ B \in Nat /\ a <= B
    BY <2>1, FreeListFacts
  <2>3. bd.free_count = Len(f) + (B - a)
    BY <2>1, FreeListFacts
  <2> QED BY <2>2, <2>3
<1> DEFINE F == {i \in 0..(B - 1) : i \notin U}
           A == a..(B - 1)
<1>3. IsFiniteSet(Range(f)) /\ Cardinality(Range(f)) = Len(f)
  BY <1>1, NoRepeatCardinality
<1>4. IsFiniteSet(A) /\ Cardinality(A) = B - a
  BY <1>2, IntervalSize
<1>5. ASSUME NEW i PROVE (i \in F <=> i \in Range(f) \/ i \in A) /\ ~(i \in Range(f) /\ i \in A)
  <2>1. i \in Range(f) <=> i \in 0..(a - 1) /\ i \notin U
    BY <1>1
  <2>2. i \in U => i \in 0..(a - 1)
    BY <1>1
  <2>3. i \in 0..(B - 1) <=> i \in 0..(a - 1) \/ i \in A
    BY <1>2
  <2>4. ~(i \in 0..(a - 1) /\ i \in A)
    BY <1>2
  <2> QED BY <2>1, <2>2, <2>3, <2>4
<1>6. IsFiniteSet(0..(B - 1)) /\ Cardinality(0..(B - 1)) = B
  BY <1>2, IntervalSize
<1>7. ASSUME NEW i PROVE (i \in U <=> i \in 0..(B - 1) /\ i \notin F) /\ (i \in F => i \in 0..(B - 1))
  <2>1. i \in U => i \in 0..(a - 1)
    BY <1>1
  <2>2. i \in 0..(a - 1) => i \in 0..(B - 1)
    BY <1>2
  <2> QED BY <2>1, <2>2
<1>8. bd.free_count = Len(f) + (B - a)
  BY <1>2
<1> DEFINE R == Range(f)
           I == 0..(B - 1)
<1> HIDE DEF F, A, I, R
<1>9. F = R \cup A /\ R \cap A = {}
  BY <1>5 DEF R
<1>10. U = I \ F /\ I \cap F = F
  BY <1>7 DEF I
<1>11. IsFiniteSet(R) /\ Cardinality(R) = Len(f)
  BY <1>3 DEF R
<1>12. /\ IsFiniteSet(R \cup A)
       /\ Cardinality(R \cup A) = Cardinality(R) + Cardinality(A) - Cardinality(R \cap A)
  BY <1>4, <1>11, FS_Union
<1>13. Cardinality(R \cap A) = 0
  BY <1>9, FS_EmptySet
<1>14. Cardinality(F) = bd.free_count /\ IsFiniteSet(F)
  BY <1>2, <1>4, <1>8, <1>9, <1>11, <1>12, <1>13
<1>15. IsFiniteSet(I \ F) /\ Cardinality(I \ F) = Cardinality(I) - Cardinality(I \cap F)
  BY <1>6, FS_Difference DEF I
<1>16. IsFiniteSet(U) /\ Cardinality(U) = B - bd.free_count
  BY <1>6, <1>10, <1>14, <1>15 DEF I
<1> QED BY <1>14, <1>16 DEF F

\* When all but one block are free, there is no other in use.
LEMMA LastInUse ==
  ASSUME NEW U, NEW s, NEW c \in SmallClass, NEW bd, NEW w, NEW f, FreeListIs(U, s, c, bd, w, f),
         bd.free_count = BlockCount[c] - 1, NEW i \in U
  PROVE  U = {i}
<1>1. IsFiniteSet(U) /\ Cardinality(U) = BlockCount[c] - bd.free_count
  BY FreeCountIs
<1>2. BlockCount[c] \in Nat
  BY FreeListFacts
<1>3. Cardinality(U) = 1
  BY <1>1, <1>2
<1>4. PICK j : U = {j}
  BY <1>1, <1>3, FS_Singleton
<1> QED BY <1>4

\* A new span with all blocks but the first free.
LEMMA NewList ==
  ASSUME NEW s, NEW c \in SmallClass, NEW bd, NEW w,
         bd.free_list = 1, bd.first_autolink = 1, bd.free_count = BlockCount[c] - 1
  PROVE  FreeListIs({0}, s, c, bd, w, <<>>)
<1>1. BlockCount[c] \in Nat /\ BlockCount[c] >= 2
  BY BlockSets
<1>2. <<>> \in Seq(Nat) /\ Len(<<>>) = 0 /\ Range(<<>>) = {} /\ NoRepeat(<<>>)
  BY EmptyFacts
<1>3. NthFree(<<>>, 1, 1) = 1
  BY <1>2 DEF NthFree
<1>4. {i \in 0..(1 - 1) : i \notin {0}} = {} /\ {0} \subseteq 0..(1 - 1)
  OBVIOUS
<1>5. 1 \in 0..BlockCount[c] /\ BlockCount[c] - 1 = 0 + (BlockCount[c] - 1)
  BY <1>1
<1> QED BY <1>2, <1>3, <1>4, <1>5 DEF FreeListIs

\* The same list after a step that leaves the words of the free blocks.
LEMMA ListKept ==
  ASSUME NEW U, NEW s, NEW c \in SmallClass, NEW bd, NEW w, NEW f, FreeListIs(U, s, c, bd, w, f),
         NEW x, SameFree(U, s, w, x)
  PROVE  FreeListIs(U, s, c, bd, x, f)
<1> DEFINE a == bd.first_autolink
<1>1. AllFreeBelow(f, U, a)
  BY FreeListFacts
<1>2. \A j \in 1..Len(f) : x[<<s, f[j]>>] = w[<<s, f[j]>>]
  BY <1>1 DEF SameFree, AllFreeBelow
<1> QED BY <1>2 DEF FreeListIs
-----------------------------------------------------------------------------
(* A step about one span *)

\* Nothing of a span but s0 changes.
OneSpan(s0) ==
  /\ \A s \in Span \ {s0} :
       span_heap'[s] = span_heap[s] /\ size_class'[s] = size_class[s] /\ data'[s] = data[s]
  /\ \A b \in Block : SpanOf(b) # s0 => word'[b] = word[b]

\* Nor of the blocks taken.
SameBut(T, T2, s0) == T2 \subseteq Block /\ \A b \in Block : SpanOf(b) # s0 => (b \in T2 <=> b \in T)

\* Where the active span changes, it was and is none but s0.
ActiveMoves(T, s0) ==
  \A h \in Heap, c \in SmallClass :
    \/ active'[h][c] = active[h][c]
    \/ \A s \in SmallOf(T, span_heap, size_class, h, c) \ {s0} :
         active[h][c].span # s /\ active'[h][c].span # s

\* Every class of a heap is in order, or has nothing to do with s0.
ClassesFollow(T, T2, s0) ==
  \A h \in Heap, c \in SmallClass :
    \/ ClassOk(SmallOf(T2, span_heap', size_class', h, c), active'[h][c], size_cache'[h][c], data')
    \/ /\ s0 \notin SmallOf(T, span_heap, size_class, h, c)
       /\ s0 \notin SmallOf(T2, span_heap', size_class', h, c)
       /\ active'[h][c] = active[h][c] /\ size_cache'[h][c] = size_cache[h][c]

\* A block is its span and its slot.
LEMMA BlockFacts ==
  /\ \A b \in Block : SpanOf(b) \in Span /\ SlotOf(b) \in Slot /\ b = <<SpanOf(b), SlotOf(b)>>
  /\ \A s \in Span, i \in Slot : <<s, i>> \in Block /\ SpanOf(<<s, i>>) = s /\ SlotOf(<<s, i>>) = i
BY DEF Block, SpanOf, SlotOf

\* The used spans and their slots.
LEMMA UsedFacts ==
  ASSUME NEW T, T \subseteq Block
  PROVE  /\ UsedBy(T) \subseteq Span
         /\ \A s \in Span : s \in UsedBy(T) <=> SlotsOf(T, s) # {}
         /\ \A s \in Span : SlotsOf(T, s) \subseteq Slot
<1>1. ASSUME NEW b \in T PROVE SpanOf(b) \in Span /\ SlotOf(b) \in SlotsOf(T, SpanOf(b))
  <2>1. b \in Block
    OBVIOUS
  <2>2. SpanOf(b) \in Span /\ SlotOf(b) \in Slot /\ b = <<SpanOf(b), SlotOf(b)>>
    BY <2>1, BlockFacts
  <2> QED BY <2>2 DEF SlotsOf
<1>2. ASSUME NEW s \in Span, NEW i \in SlotsOf(T, s) PROVE s \in UsedBy(T)
  <2>1. i \in Slot /\ <<s, i>> \in T
    BY DEF SlotsOf
  <2>2. SpanOf(<<s, i>>) = s
    BY DEF SpanOf
  <2> QED BY <2>1, <2>2 DEF UsedBy
<1>3. UsedBy(T) \subseteq Span
  BY <1>1 DEF UsedBy
<1>4. ASSUME NEW s \in UsedBy(T) PROVE SlotsOf(T, s) # {}
  BY <1>1 DEF UsedBy
<1>5. \A s \in Span : SlotsOf(T, s) \subseteq Slot
  BY DEF SlotsOf
<1> QED BY <1>2, <1>3, <1>4, <1>5

\* What such a step leaves as it is.
LEMMA OtherSpans ==
  ASSUME NEW T, Placed(T), NEW s0 \in Span, NEW T2, SameBut(T, T2, s0), OneSpan(s0)
  PROVE  \A s \in Span \ {s0} :
           /\ SlotsOf(T2, s) = SlotsOf(T, s)
           /\ s \in UsedBy(T2) <=> s \in UsedBy(T)
           /\ \A h, c : s \in SmallOf(T2, span_heap', size_class', h, c) <=>
                        s \in SmallOf(T, span_heap, size_class, h, c)
<1> SUFFICES ASSUME NEW s \in Span \ {s0}
             PROVE  /\ SlotsOf(T2, s) = SlotsOf(T, s)
                    /\ s \in UsedBy(T2) <=> s \in UsedBy(T)
                    /\ \A h, c : s \in SmallOf(T2, span_heap', size_class', h, c) <=>
                                 s \in SmallOf(T, span_heap, size_class, h, c)
  OBVIOUS
<1>1. \A i \in Slot : <<s, i>> \in T2 <=> <<s, i>> \in T
  BY BlockFacts DEF SameBut
<1>2. SlotsOf(T2, s) = SlotsOf(T, s)
  BY <1>1 DEF SlotsOf
<1>3. T \subseteq Block /\ T2 \subseteq Block
  BY DEF Placed, SameBut
<1>4. s \in UsedBy(T2) <=> s \in UsedBy(T)
  BY <1>2, <1>3, UsedFacts
<1>5. span_heap'[s] = span_heap[s] /\ size_class'[s] = size_class[s]
  BY DEF OneSpan
<1> QED BY <1>2, <1>4, <1>5 DEF SmallOf

\* The same span after a step about another.
LEMMA SpanKept ==
  ASSUME NEW T, Placed(T), NEW s0 \in Span, NEW T2, SameBut(T, T2, s0), OneSpan(s0),
         ActiveMoves(T, s0), NEW s \in UsedBy(T2), s # s0
  PROVE  SpanOk(SlotsOf(T2, s), s, span_heap'[s], size_class'[s], BlockData(span_heap[s], s)', word')
<1>1. T \subseteq Block /\ T2 \subseteq Block /\ s \in Span
  BY UsedFacts DEF Placed, SameBut
<1>2. s \in UsedBy(T) /\ SlotsOf(T2, s) = SlotsOf(T, s)
  BY <1>1, OtherSpans
<1>3. SpanOk(SlotsOf(T, s), s, span_heap[s], size_class[s], BlockData(span_heap[s], s), word)
  BY <1>2 DEF Placed, SpansOk
<1>4. span_heap'[s] = span_heap[s] /\ size_class'[s] = size_class[s] /\ data'[s] = data[s]
  BY <1>1 DEF OneSpan
<1> DEFINE h == span_heap[s]
           c == size_class[s]
           U == SlotsOf(T, s)
<1>5. CASE h # NoHeap /\ c \in SmallClass
  <2>1. h \in Heap
    <3>1. span_heap[s] \in HeapOrNone
      BY <1>1 DEF Placed, PlaceTypes
    <3> QED BY <3>1, <1>5, HeapSets
  <2>2. s \in SmallOf(T, span_heap, size_class, h, c) \ {s0}
    BY <1>2 DEF SmallOf
  <2>3. active'[h][c] = active[h][c] \/ (active[h][c].span # s /\ active'[h][c].span # s)
    BY <2>1, <2>2, <1>5 DEF ActiveMoves
  <2>4. BlockData(span_heap[s], s)' = BlockData(span_heap[s], s)
    BY <1>4, <2>3 DEF BlockData, IsActive
  <2>5. SpanCount[s] = 1 /\ \E f : FreeListIs(U, s, c, BlockData(span_heap[s], s), word, f)
    BY <1>3, <1>5 DEF SpanOk, SmallOk
  <2>6. PICK f : FreeListIs(U, s, c, BlockData(span_heap[s], s), word, f)
    BY <2>5
  <2>7. SameFree(U, s, word, word')
    <3>1. \A i \in Slot : <<s, i>> \in Block /\ SpanOf(<<s, i>>) = s
      BY <1>1, BlockFacts
    <3> QED BY <3>1 DEF SameFree, OneSpan
  <2>8. FreeListIs(U, s, c, BlockData(span_heap[s], s), word', f)
    BY <1>5, <2>6, <2>7, ListKept
  <2> QED BY <1>2, <1>3, <1>4, <1>5, <2>4, <2>5, <2>8 DEF SpanOk, SmallOk
<1>6. CASE ~(h # NoHeap /\ c \in SmallClass)
  BY <1>2, <1>3, <1>4, <1>6 DEF SpanOk
<1> QED BY <1>5, <1>6

\* Classes in order after a step about a span that is none of theirs.
LEMMA ClassKept ==
  ASSUME NEW S, NEW a, NEW l, NEW d, ClassOk(S, a, l, d), NEW e, \A s \in S : e[s] = d[s]
  PROVE  ClassOk(S, a, l, e)
BY DEF ClassOk

\* How every step about one span keeps the invariant.
LEMMA OneSpanStep ==
  ASSUME NEW T, Placed(T), NEW s0 \in Span, NEW T2, SameBut(T, T2, s0), OneSpan(s0),
         ActiveMoves(T, s0), ClassesFollow(T, T2, s0), PlaceTypes', Spare(T2)',
         s0 \in UsedBy(T2) =>
           SpanOk(SlotsOf(T2, s0), s0, span_heap'[s0], size_class'[s0],
                  BlockData(span_heap[s0], s0)', word')
  PROVE  Placed(T2)'
<1>1. T2 \subseteq Block /\ UsedBy(T2) \subseteq Span /\ UsedBy(T) \subseteq Span
  BY UsedFacts DEF SameBut, Placed
<1>2. SpansOk(T2)'
  <2>1. ASSUME NEW s \in UsedBy(T2)
        PROVE  SpanOk(SlotsOf(T2, s), s, span_heap'[s], size_class'[s], BlockData(span_heap[s], s)', word')
    BY SpanKept
  <2> QED BY <2>1 DEF SpansOk
<1>3. ASSUME NEW h \in Heap, NEW c \in SmallClass
      PROVE  ClassOk(SmallOf(T2, span_heap', size_class', h, c), active'[h][c], size_cache'[h][c], data')
  <2> DEFINE S == SmallOf(T, span_heap, size_class, h, c)
             S2 == SmallOf(T2, span_heap', size_class', h, c)
  <2>1. CASE /\ s0 \notin S /\ s0 \notin S2
             /\ active'[h][c] = active[h][c] /\ size_cache'[h][c] = size_cache[h][c]
    <3>1. ClassOk(S, active[h][c], size_cache[h][c], data)
      BY DEF Placed, ClassesOk
    <3>2. S \subseteq Span /\ S2 \subseteq Span
      BY <1>1 DEF SmallOf
    <3>3. \A s \in Span \ {s0} : s \in S2 <=> s \in S
      BY OtherSpans
    <3>4. S2 = S
      BY <2>1, <3>2, <3>3, SMTT(30)
    <3>5. \A s \in S : data'[s] = data[s]
      BY <2>1, <3>2 DEF OneSpan
    <3>6. ClassOk(S, active[h][c], size_cache[h][c], data')
      <4> HIDE DEF S
      <4> QED BY <3>1, <3>5, ClassKept
    <3> QED BY <2>1, <3>4, <3>6
  <2>2. CASE ClassOk(S2, active'[h][c], size_cache'[h][c], data')
    BY <2>2
  <2> QED BY <2>1, <2>2 DEF ClassesFollow
<1>4. ClassesOk(T2)'
  BY <1>3, SameSets DEF ClassesOk
<1> QED BY <1>1, <1>2, <1>4 DEF Placed
-----------------------------------------------------------------------------
(* A step about one span of a heap's class *)

\* A table of heaps and classes changes for h and c alone.
WritesAt(f, g, h, c) == \A k \in Heap, d \in SmallClass : k # h \/ d # c => g[k][d] = f[k][d]

\* The active span stays, or neither was nor is another one in use.
ActiveGoes(S, s, a, a2) == a2 = a \/ \A x \in S \ {s} : a.span # x /\ a2.span # x

\* The list l2 is l but for span s.
ListGoes(s, l, l2) ==
  l2 \in Seq(Span) /\ NoRepeat(l2) /\ \A x : x # s => (x \in Range(l2) <=> x \in Range(l))

\* Span s, in use with header h and c if it is in use at all.
Headed(T, sh, sz, s, h, c) == s \in UsedBy(T) => sh[s] = h /\ sz[s] = c

\* A step of heap h and class c about span s alone.
LEMMA PairStep ==
  ASSUME NEW T, Placed(T), NEW s \in Span, NEW T2, SameBut(T, T2, s), OneSpan(s),
         PlaceTypes', Spare(T2)', NEW h \in Heap, NEW c \in SmallClass,
         WritesAt(active, active', h, c), WritesAt(size_cache, size_cache', h, c),
         Headed(T, span_heap, size_class, s, h, c), Headed(T2, span_heap', size_class', s, h, c),
         ActiveGoes(SmallOf(T, span_heap, size_class, h, c), s, active[h][c], active'[h][c]),
         ListGoes(s, size_cache[h][c], size_cache'[h][c]),
         active'[h][c].free_count > 0 <=>
           active'[h][c].span \in SmallOf(T2, span_heap', size_class', h, c),
         s \in Range(size_cache'[h][c]) <=>
           s \in UsedBy(T2) /\ s # active'[h][c].span /\ data'[s].free_count > 0,
         s \in UsedBy(T2) =>
           SpanOk(SlotsOf(T2, s), s, h, c, BlockData(span_heap[s], s)', word')
  PROVE  Placed(T2)'
<1> DEFINE S == SmallOf(T, span_heap, size_class, h, c)
           S2 == SmallOf(T2, span_heap', size_class', h, c)
           a == active[h][c]
           a2 == active'[h][c]
           l == size_cache[h][c]
           l2 == size_cache'[h][c]
<1>1. ActiveMoves(T, s)
  <2>1. ASSUME NEW k \in Heap, NEW d \in SmallClass, k # h \/ d # c PROVE active'[k][d] = active[k][d]
    BY <2>1 DEF WritesAt
  <2>2. a2 = a \/ \A x \in S \ {s} : a.span # x /\ a2.span # x
    BY DEF ActiveGoes
  <2> QED BY <2>1, <2>2 DEF ActiveMoves
<1>2. ClassOk(S, a, l, data)
  BY DEF Placed, ClassesOk
<1>3. /\ S \subseteq Span /\ S2 \subseteq Span
      /\ \A x \in Span \ {s} : x \in S2 <=> x \in S
  <2>1. UsedBy(T) \subseteq Span /\ UsedBy(T2) \subseteq Span
    BY UsedFacts DEF Placed, SameBut
  <2>2. \A x \in Span \ {s} : x \in S2 <=> x \in S
    BY OtherSpans
  <2> QED BY <2>1, <2>2 DEF SmallOf
<1>4. s \in S2 <=> s \in UsedBy(T2)
  BY DEF SmallOf, Headed
<1>5. ASSUME NEW x \in S2 PROVE x = s \/ (x # a2.span <=> x # a.span)
  BY <1>3 DEF ActiveGoes
<1>6. ASSUME NEW x PROVE x \in Range(l2) <=> x \in S2 /\ x # a2.span /\ data'[x].free_count > 0
  <2>1. CASE x = s
    BY <2>1, <1>4
  <2>2. CASE x # s
    <3>1. x \in Range(l2) <=> x \in Range(l)
      BY <2>2 DEF ListGoes
    <3>2. x \in Range(l) <=> x \in S /\ x # a.span /\ data[x].free_count > 0
      BY <1>2 DEF ClassOk
    <3>3. x \in S2 => data'[x] = data[x] /\ x \in S
      BY <1>3, <2>2 DEF OneSpan
    <3>4. x \in S => x \in S2
      BY <1>3, <2>2
    <3> QED BY <3>1, <3>2, <3>3, <3>4, <1>5, <2>2
  <2> QED BY <2>1, <2>2
<1>7. Range(l2) = {x \in S2 : x # a2.span /\ data'[x].free_count > 0}
  BY <1>6
<1>8. ClassOk(S2, a2, l2, data')
  <2>1. l2 \in Seq(Span) /\ NoRepeat(l2)
    BY DEF ListGoes
  <2> QED BY <1>7, <2>1 DEF ClassOk
<1>9. ClassesFollow(T, T2, s)
  <2>1. ASSUME NEW k \in Heap, NEW d \in SmallClass, k # h \/ d # c
        PROVE  /\ s \notin SmallOf(T, span_heap, size_class, k, d)
               /\ s \notin SmallOf(T2, span_heap', size_class', k, d)
               /\ active'[k][d] = active[k][d] /\ size_cache'[k][d] = size_cache[k][d]
    BY <2>1 DEF SmallOf, Headed, WritesAt
  <2> QED BY <1>8, <2>1 DEF ClassesFollow
<1>10. s \in UsedBy(T2) =>
         SpanOk(SlotsOf(T2, s), s, span_heap'[s], size_class'[s], BlockData(span_heap[s], s)', word')
  BY DEF Headed
<1> QED BY <1>1, <1>9, <1>10, OneSpanStep
-----------------------------------------------------------------------------
(* Blocks taken and given back *)

\* The slots and the spans in use with one block more.
LEMMA UsedAdd ==
  ASSUME NEW T, T \subseteq Block, NEW b \in Block
  PROVE  /\ UsedBy(T \cup {b}) = UsedBy(T) \cup {SpanOf(b)}
         /\ SlotsOf(T \cup {b}, SpanOf(b)) = SlotsOf(T, SpanOf(b)) \cup {SlotOf(b)}
         /\ SameBut(T, T \cup {b}, SpanOf(b))
<1>1. UsedBy(T \cup {b}) = UsedBy(T) \cup {SpanOf(b)}
  BY DEF UsedBy
<1>2. SlotOf(b) \in Slot /\ b = <<SpanOf(b), SlotOf(b)>>
  BY BlockFacts
<1>3. ASSUME NEW i \in Slot PROVE <<SpanOf(b), i>> = b <=> i = SlotOf(b)
  BY <1>2 DEF SlotOf
<1>4. ASSUME NEW i PROVE i \in SlotsOf(T \cup {b}, SpanOf(b)) <=> i \in SlotsOf(T, SpanOf(b)) \cup {SlotOf(b)}
  BY <1>2, <1>3 DEF SlotsOf
<1>5. SameBut(T, T \cup {b}, SpanOf(b))
  BY DEF SameBut
<1> QED BY <1>1, <1>4, <1>5

\* The slots and the spans in use with one block less.
LEMMA UsedDrop ==
  ASSUME NEW T, T \subseteq Block, NEW b \in T
  PROVE  /\ SlotsOf(T \ {b}, SpanOf(b)) = SlotsOf(T, SpanOf(b)) \ {SlotOf(b)}
         /\ SlotOf(b) \in SlotsOf(T, SpanOf(b)) /\ SpanOf(b) \in UsedBy(T) /\ SpanOf(b) \in Span
         /\ SameBut(T, T \ {b}, SpanOf(b))
         /\ SlotsOf(T, SpanOf(b)) # {SlotOf(b)} => UsedBy(T \ {b}) = UsedBy(T)
         /\ SlotsOf(T, SpanOf(b)) = {SlotOf(b)} => UsedBy(T \ {b}) = UsedBy(T) \ {SpanOf(b)}
<1> DEFINE s == SpanOf(b)
<1>1. b \in Block /\ s \in Span /\ SlotOf(b) \in Slot /\ b = <<s, SlotOf(b)>>
  BY BlockFacts
<1>2. ASSUME NEW i \in Slot PROVE <<s, i>> = b <=> i = SlotOf(b)
  BY <1>1 DEF SlotOf
<1>3. ASSUME NEW i PROVE i \in SlotsOf(T \ {b}, s) <=> i \in SlotsOf(T, s) \ {SlotOf(b)}
  BY <1>1, <1>2 DEF SlotsOf
<1>4. SlotsOf(T \ {b}, s) = SlotsOf(T, s) \ {SlotOf(b)} /\ SlotOf(b) \in SlotsOf(T, s)
  BY <1>1, <1>3 DEF SlotsOf
<1>5. SameBut(T, T \ {b}, s)
  BY DEF SameBut
<1>6. ASSUME NEW x PROVE x \in UsedBy(T \ {b}) <=> x \in UsedBy(T) /\ (x # s \/ SlotsOf(T, s) # {SlotOf(b)})
  <2>1. UsedBy(T \ {b}) \subseteq UsedBy(T) /\ UsedBy(T) \subseteq Span
    BY UsedFacts DEF UsedBy
  <2>2. CASE x = s
    <3>1. s \in UsedBy(T \ {b}) <=> SlotsOf(T, s) \ {SlotOf(b)} # {}
      BY <1>1, <1>4, UsedFacts
    <3> QED BY <2>1, <2>2, <3>1, <1>4
  <2>3. CASE x # s
    <3>1. ASSUME x \in UsedBy(T) PROVE x \in UsedBy(T \ {b})
      BY <2>3, <3>1 DEF UsedBy
    <3> QED BY <2>1, <2>3, <3>1
  <2> QED BY <2>2, <2>3
<1>7. SpanOf(b) \in UsedBy(T)
  BY DEF UsedBy
<1> QED BY <1>1, <1>4, <1>5, <1>6, <1>7

\* Only the blocks of used spans change.
LEMMA SpareKept ==
  ASSUME NEW T, Spare(T), NEW T2, UsedBy(T2) = UsedBy(T), UNCHANGED <<span_cache, global, mapped>>,
         \A s \in AllListed(span_cache, global) : span_heap'[s] = span_heap[s]
  PROVE  Spare(T2)'
<1>1. FreeLists(span_cache', global') /\ AllListed(span_cache', global') = AllListed(span_cache, global)
  BY DEF Spare
<1> QED BY <1>1, SameSets DEF Spare

\* One entry of a table of heaps and classes written.
Table(f, X) == f \in [Heap -> [SmallClass -> X]]
SetAt(f, h, c, v, g) == g = [f EXCEPT ![h][c] = v]

\* One entry of a table of heaps and classes written.
LEMMA TableWritten ==
  ASSUME NEW X, NEW f, Table(f, X), NEW h \in Heap, NEW c \in SmallClass, NEW v \in X,
         NEW g, SetAt(f, h, c, v, g)
  PROVE  Table(g, X) /\ g[h][c] = v /\ WritesAt(f, g, h, c) /\ \A k \in Heap \ {h} : g[k] = f[k]
<1>1. f[h] \in [SmallClass -> X]
  BY DEF Table
<1>2. [f[h] EXCEPT ![c] = v] \in [SmallClass -> X]
  BY <1>1
<1>3. g = [f EXCEPT ![h] = [f[h] EXCEPT ![c] = v]]
  BY DEF SetAt
<1>4. Table(g, X) /\ g[h][c] = v /\ \A k \in Heap \ {h} : g[k] = f[k]
  BY <1>1, <1>2, <1>3 DEF Table
<1>5. WritesAt(f, g, h, c)
  BY <1>1, <1>2, <1>3 DEF WritesAt, Table
<1> QED BY <1>4, <1>5

\* A table left alone.
LEMMA TableKept ==
  ASSUME NEW f, NEW h, NEW c PROVE WritesAt(f, f, h, c)
BY DEF WritesAt
-----------------------------------------------------------------------------
(* Allocating from the active span *)

SameBooks(a, bd) ==
  a.free_list = bd.free_list /\ a.first_autolink = bd.first_autolink /\ a.free_count = bd.free_count

\* What allocation does to the bookkeeping is what HandsOut says.
LEMMA NextFreeIs ==
  ASSUME NEW a \in Actives
  PROVE  /\ NextFree(a).span = a.span
         /\ NextFree(a).free_count = a.free_count - 1
         /\ IF a.free_list < a.first_autolink
            THEN /\ NextFree(a).free_list = IndexIn(word[<<a.span, a.free_list>>])
                 /\ NextFree(a).first_autolink = a.first_autolink
            ELSE /\ NextFree(a).free_list = a.free_list + 1
                 /\ NextFree(a).first_autolink = a.first_autolink + 1
         /\ NextFree(a).free_list \in 0..Stale /\ NextFree(a).first_autolink \in 0..Stale
            /\ NextFree(a).free_count \in 0..Stale => NextFree(a) \in Actives
BY DEF NextFree, Actives
\* What the proofs about steps need of the types.
LEMMA TypeFacts ==
  /\ NoActive \in Actives /\ NoActive.span = Null /\ NoActive.free_count = 0
  /\ NoBlocks \in Books
  /\ \A c \in SmallClass : /\ FullSpan(c) \in Books /\ FullSpan(c).free_count = 0
                           /\ FullSpan(c).first_autolink = BlockCount[c]
  /\ Data \in Words /\ \A i \in 0..Stale : IndexWord(i) \in Words
  /\ Null \notin Span /\ Null \notin Block
<1>1. Stale \in Nat /\ \A c \in SmallClass : BlockCount[c] \in 0..Stale
  BY BlockSets
<1>2. Stale \in 0..Stale /\ 0 \in 0..Stale
  BY <1>1
<1>3. Null \notin Span /\ Null \notin Block
  BY NullAssumption
<1> QED BY <1>1, <1>2, <1>3 DEF NoActive, Actives, NoBlocks, Books, FullSpan, Words

\* The block that is handed out is free, and afterwards it is not.
LEMMA UseActivePlaced ==
  ASSUME NEW T, Placed(T), NEW h \in Heap, NEW c \in SmallClass,
         NEW s \in SmallOf(T, span_heap, size_class, h, c), NEW a \in Actives, a.span = s,
         a.free_count > 0, SameBooks(a, BlockData(h, s)), UseActive(h, c, a), UNCHANGED spanVars,
         Table(size_cache', Seq(Span)), WritesAt(size_cache, size_cache', h, c),
         ListGoes(s, size_cache[h][c], size_cache'[h][c]), s \notin Range(size_cache'[h][c]),
         active[h][c].span = s \/ active[h][c].span \notin SmallOf(T, span_heap, size_class, h, c)
  PROVE  /\ <<s, a.free_list>> \in Block \ T
         /\ Placed(T \cup {<<s, a.free_list>>})'
<1> DEFINE b == <<s, a.free_list>>
           T2 == T \cup {b}
           U == SlotsOf(T, s)
           bd == BlockData(h, s)
           bd2 == BlockData(span_heap[s], s)'
           V == U \cup {bd.free_list}
<1>1. /\ T \subseteq Block /\ s \in UsedBy(T) /\ span_heap[s] = h /\ size_class[s] = c
      /\ h # NoHeap /\ PlaceTypes /\ Spare(T)
  BY HeapSets DEF SmallOf, Placed
<1>2. s \in Span
  BY <1>1, UsedFacts
<1>3. SpanOk(U, s, h, c, bd, word)
  BY <1>1 DEF Placed, SpansOk
<1>4. SpanCount[s] = 1 /\ \E f : FreeListIs(U, s, c, bd, word, f)
  BY <1>1, <1>3 DEF SpanOk, SmallOk
<1>5. PICK f : FreeListIs(U, s, c, bd, word, f)
  BY <1>4
<1>6. bd.free_list = a.free_list /\ bd.first_autolink = a.first_autolink /\ bd.free_count = a.free_count
  BY DEF SameBooks
<1>7. /\ word' = [word EXCEPT ![b] = Data] /\ live' = live \cup {b}
      /\ IF a.free_count = 1
         THEN /\ active' = [active EXCEPT ![h][c] = NoActive]
              /\ data' = [data EXCEPT ![s] = FullSpan(c)]
         ELSE /\ active' = [active EXCEPT ![h][c] = NextFree(a)]
              /\ data' = [data EXCEPT ![s] = NoBlocks]
      /\ UNCHANGED <<span_cache, global, span_heap, size_class, mapped>>
  BY DEF UseActive, HandOut, spanVars
<1>8. /\ a.free_list \in 0..Stale /\ a.first_autolink \in 0..Stale /\ a.free_count \in 0..Stale
      /\ Stale \in Nat
  BY BlockSets DEF Actives
<1>9. /\ Table(active, Actives) /\ Table(size_cache, Seq(Span)) /\ word \in [Block -> Words]
      /\ data \in [Span -> Books] /\ span_heap \in [Span -> HeapOrNone] /\ size_class \in [Span -> Nat]
  BY <1>1 DEF PlaceTypes, Table
<1>10. SameFree(V, s, word, word')
  <2>1. ASSUME NEW i \in Slot \ V PROVE word'[<<s, i>>] = word[<<s, i>>]
    <3>1. <<s, i>> \in Block /\ <<s, i>> # b
      BY <1>2, <1>6, BlockFacts
    <3> QED BY <3>1, <1>7, <1>9
  <2> QED BY <2>1 DEF SameFree
<1>11. WritesAt(active, active', h, c) /\ active'[h][c] = (IF a.free_count = 1 THEN NoActive ELSE NextFree(a))
       /\ (active'[h][c] \in Actives => Table(active', Actives))
  <2> DEFINE v == IF a.free_count = 1 THEN NoActive ELSE NextFree(a)
  <2>1. SetAt(active, h, c, v, active')
    BY <1>7 DEF SetAt
  <2> HIDE DEF v
  <2>2. Table(active, Actives \cup {v})
    <3>1. \A k \in Heap : active[k] \in [SmallClass -> Actives]
      BY <1>9 DEF Table
    <3>2. \A k \in Heap : active[k] \in [SmallClass -> Actives \cup {v}]
      BY <3>1
    <3> QED BY <3>2, <1>9 DEF Table
  <2>3. WritesAt(active, active', h, c) /\ active'[h][c] = v
    <3> DEFINE X == Actives \cup {v}
    <3>1. v \in X /\ Table(active, X)
      BY <2>2
    <3> HIDE DEF X
    <3>2. WritesAt(active, active', h, c)
      BY <2>1, <3>1, TableWritten
    <3>3. active'[h][c] = v
      BY <2>1, <3>1, TableWritten
    <3> QED BY <3>2, <3>3
  <2>4. active'[h][c] \in Actives => Table(active', Actives)
    BY <2>1, <2>3, <1>9, TableWritten
  <2> QED BY <2>3, <2>4 DEF v
<1>12. HandsOut(c, s, bd, word, bd2) /\ bd2 = (IF a.free_count = 1 THEN FullSpan(c)
          ELSE [free_list |-> NextFree(a).free_list, first_autolink |-> NextFree(a).first_autolink,
                free_count |-> NextFree(a).free_count])
  <2>1. span_heap'[s] = h /\ size_class'[s] = c
    BY <1>1, <1>7
  <2>2. CASE a.free_count = 1
    <3>1. active'[h][c].span # s /\ data'[s] = FullSpan(c)
      BY <1>2, <1>7, <1>9, <1>11, <2>2, TypeFacts
    <3>2. bd2 = FullSpan(c)
      BY <2>1, <3>1, <1>1, <1>7 DEF BlockData, IsActive
    <3> QED BY <3>2, <1>6, <2>2, TypeFacts DEF HandsOut
  <2>3. CASE a.free_count # 1
    <3>1. active'[h][c] = NextFree(a) /\ NextFree(a).span = s
      BY <1>11, <2>3, NextFreeIs
    <3>2. bd2 = [free_list |-> NextFree(a).free_list, first_autolink |-> NextFree(a).first_autolink,
                free_count |-> NextFree(a).free_count]
      BY <2>1, <3>1, <1>1, <1>7 DEF BlockData, IsActive
    <3>3. /\ bd2.free_list = NextFree(a).free_list /\ bd2.first_autolink = NextFree(a).first_autolink
          /\ bd2.free_count = NextFree(a).free_count
      BY <3>2
    <3> QED BY <3>2, <3>3, <1>6, <2>3, NextFreeIs DEF HandsOut
  <2> QED BY <2>2, <2>3
<1> HIDE DEF bd, bd2, U, V
<1>13. /\ bd.free_list \in Slot \ U /\ bd.free_list < BlockCount[c]
       /\ \E g : FreeListIs(V, s, c, bd2, word', g)
       /\ bd.free_count > 1 => bd2.free_list \in 0..BlockCount[c] /\ bd2.first_autolink \in 0..BlockCount[c]
  <2>1. V = U \cup {bd.free_list} /\ bd.free_count > 0
    BY <1>6 DEF V
  <2>2. HandsOut(c, s, bd, word, bd2)
    BY <1>12
  <2>3. /\ bd.free_list \in Slot \ U /\ bd.free_list < BlockCount[c]
    BY <1>5, <1>10, <2>1, <2>2, HandOutList
  <2>4. \E g : FreeListIs(V, s, c, bd2, word', g)
    BY <1>5, <1>10, <2>1, <2>2, HandOutList
  <2>5. bd.free_count > 1 => bd2.free_list \in 0..BlockCount[c] /\ bd2.first_autolink \in 0..BlockCount[c]
    BY <1>5, <1>10, <2>1, <2>2, HandOutList
  <2> QED BY <2>3, <2>4, <2>5
<1>14. b \in Block \ T /\ SpanOf(b) = s /\ SlotOf(b) = a.free_list
  BY <1>2, <1>6, <1>13, BlockFacts DEF U, SlotsOf
<1>15. /\ UsedBy(T2) = UsedBy(T) /\ SlotsOf(T2, s) = V /\ SameBut(T, T2, s)
  <2>1. b \in Block /\ SpanOf(b) = s /\ SlotOf(b) = a.free_list
    BY <1>14
  <2>2. U = SlotsOf(T, s) /\ V = U \cup {a.free_list}
    BY <1>6 DEF U, V
  <2> HIDE DEF b
  <2>3. UsedBy(T2) = UsedBy(T) \cup {s}
    BY <1>1, <2>1, UsedAdd
  <2>4. SlotsOf(T2, s) = SlotsOf(T, s) \cup {a.free_list}
    <3>1. SlotsOf(T \cup {b}, SpanOf(b)) = SlotsOf(T, SpanOf(b)) \cup {SlotOf(b)}
      BY <1>1, <2>1, UsedAdd
    <3> QED BY <2>1, <3>1
  <2>5. SameBut(T, T2, s)
    <3>1. SameBut(T, T \cup {b}, SpanOf(b))
      BY <1>1, <2>1, UsedAdd
    <3> QED BY <2>1, <3>1
  <2> QED BY <2>2, <2>3, <2>4, <2>5, <1>1
<1>16. active'[h][c] \in Actives
  <2>1. CASE a.free_count = 1
    BY <2>1, <1>11, TypeFacts
  <2>2. CASE a.free_count # 1
    <3>1. bd2.free_list \in 0..BlockCount[c] /\ bd2.first_autolink \in 0..BlockCount[c]
      BY <2>2, <1>6, <1>8, <1>13
    <3>2. NextFree(a).free_list \in 0..Stale /\ NextFree(a).first_autolink \in 0..Stale
      BY <3>1, <2>2, <1>12, BlockSets
    <3>3. NextFree(a).free_count = a.free_count - 1
      BY NextFreeIs
    <3>4. NextFree(a).free_count \in 0..Stale
      BY <1>8, <3>3
    <3> QED BY <3>2, <3>4, <2>2, <1>11, NextFreeIs
  <2> QED BY <2>1, <2>2
<1>17. PlaceTypes'
  <2>1. word' \in [Block -> Words]
    BY <1>7, <1>9, TypeFacts
  <2>2. data' \in [Span -> Books]
    BY <1>7, <1>9, TypeFacts
  <2>3. Table(active', Actives)
    BY <1>11, <1>16
  <2> QED BY <2>1, <2>2, <2>3, <1>7, <1>9, SameSets DEF PlaceTypes, Table
<1>18. OneSpan(s)
  <2>1. \A x \in Block : SpanOf(x) # s => word'[x] = word[x]
    BY <1>7, <1>9, <1>14
  <2>2. \A x \in Span \ {s} : data'[x] = data[x]
    BY <1>7, <1>9
  <2> QED BY <2>1, <2>2, <1>7 DEF OneSpan
<1>19. Spare(T2)'
  BY <1>1, <1>7, <1>15, SpareKept
<1>20. SpanOk(SlotsOf(T2, s), s, h, c, BlockData(span_heap[s], s)', word')
  <2>1. h = NoHeap <=> SpanCount[s] > LargeClassCount
    BY <1>3 DEF SpanOk
  <2> QED BY <2>1, <1>1, <1>4, <1>13, <1>15 DEF SpanOk, SmallOk, bd2
<1>21. active'[h][c].free_count > 0 <=> active'[h][c].span = s
  <2>1. CASE a.free_count = 1
    BY <2>1, <1>2, <1>11, TypeFacts
  <2>2. CASE a.free_count # 1
    <3>1. active'[h][c].span = s /\ active'[h][c].free_count = a.free_count - 1
      BY <2>2, <1>11, NextFreeIs
    <3> QED BY <3>1, <2>2, <1>8
  <2> QED BY <2>1, <2>2
<1>22. active'[h][c].span \in {s, Null}
  BY <1>11, NextFreeIs, TypeFacts
<1>23. s \in SmallOf(T2, span_heap', size_class', h, c) /\ Null \notin SmallOf(T2, span_heap', size_class', h, c)
  <2>1. span_heap'[s] = h /\ size_class'[s] = c
    BY <1>1, <1>7
  <2>2. UsedBy(T2) \subseteq Span
    BY <1>1, <1>15, UsedFacts
  <2> QED BY <2>1, <2>2, <1>1, <1>15, TypeFacts DEF SmallOf
<1>24. ActiveGoes(SmallOf(T, span_heap, size_class, h, c), s, active[h][c], active'[h][c])
  <2>1. \A x \in SmallOf(T, span_heap, size_class, h, c) : x # Null
    <3>1. UsedBy(T) \subseteq Span
      BY <1>1, UsedFacts
    <3> QED BY <3>1, TypeFacts DEF SmallOf
  <2> QED BY <1>22, <2>1 DEF ActiveGoes
<1>25. s \in UsedBy(T2) /\ s # active'[h][c].span /\ data'[s].free_count > 0 => FALSE
  <2>1. CASE a.free_count = 1
    <3>1. data'[s].free_count = 0
      BY <1>2, <1>7, <1>9, <2>1, TypeFacts
    <3> QED BY <3>1
  <2>2. CASE a.free_count # 1
    BY <2>2, <1>11, NextFreeIs
  <2> QED BY <2>1, <2>2
<1>26. Headed(T, span_heap, size_class, s, h, c) /\ Headed(T2, span_heap', size_class', s, h, c)
  BY <1>1, <1>7 DEF Headed
<1> HIDE DEF T2, b
<1>27. Placed(T2)'
  BY <1>2, <1>11, <1>15, <1>17, <1>18, <1>19, <1>20, <1>21, <1>22, <1>23, <1>24, <1>25, <1>26, PairStep
<1> QED BY <1>14, <1>27 DEF T2, b
-----------------------------------------------------------------------------
(* Spans taken from where they were free *)

\* The numbers of units.
LEMMA UnitFacts == LargeClassCount \in Nat /\ LargeClassCount >= 1 /\ 1 \in SpanUnits /\ \A n \in SpanUnits : n \in Nat
BY SpanAssumption DEF SpanUnits

\* A span from the cache of a heap was free and is now in no list.
LEMMA FromCacheIs ==
  ASSUME FreeLists(span_cache, global), NEW h \in Heap, NEW n \in SpanUnits, NEW s, FromCache(h, n, s)
  PROVE  /\ FreeLists(span_cache', global)
         /\ Without(AllListed(span_cache, global), s, AllListed(span_cache', global))
         /\ SpanCount[s] = n
<1> DEFINE k == span_cache[h][n]
           l == Tail(k)
<1>1. k \in Seq(Span) /\ NoRepeat(k)
  BY DEF FreeLists, ListTypes, CacheType, ListsOf, Once
<1>2. k # <<>> /\ s = Head(k) /\ CacheSet(span_cache, h, n, l, span_cache')
  BY DEF FromCache, CacheSet
<1> HIDE DEF k
<1>3. l \in Seq(Span)
  BY <1>1, <1>2, TailFacts
<1>4. Head(k) \in Range(k) /\ Range(l) = Range(k) \ {Head(k)} /\ NoRepeat(l)
  BY <1>1, <1>2, TailRange
<1>5. s \in Range(k) /\ Range(l) = Range(k) \ {s} /\ NoRepeat(l)
  BY <1>2, <1>4
<1> USE DEF k
<1> HIDE DEF l
<1>6. FreeLists(span_cache', global)
  BY <1>2, <1>3, <1>5, CacheTake
<1>7. Without(AllListed(span_cache, global), s, AllListed(span_cache', global))
  BY <1>2, <1>3, <1>5, CacheTake
<1>8. SpanCount[s] = n
  BY <1>2, <1>3, <1>5, CacheTake
<1> QED BY <1>6, <1>7, <1>8

\* A span from the global cache was free and is now in no list.
LEMMA FromGlobalIs ==
  ASSUME FreeLists(span_cache, global), NEW h \in Heap, NEW n \in SpanUnits, NEW s, FromGlobal(h, n, s)
  PROVE  /\ FreeLists(span_cache', global')
         /\ Without(AllListed(span_cache, global), s, AllListed(span_cache', global'))
         /\ SpanCount[s] = n
<1> DEFINE g == global[n]
           y == Tail(g)
           k == g[1]
           r == Tail(k)
<1>1. /\ g \in Seq(Seq(Span)) /\ g # <<>> /\ ListsOf(span_cache, global, n)
      /\ Range(span_cache[h][n]) = {}
  <2>1. span_cache[h][n] = <<>> /\ g # <<>>
    BY DEF FromGlobal
  <2>2. g \in Seq(Seq(Span)) /\ ListsOf(span_cache, global, n)
    BY DEF FreeLists, ListTypes
  <2> QED BY <2>1, <2>2, EmptyFacts
<1>2. /\ y \in Seq(Seq(Span)) /\ Len(g) \in Nat \ {0} /\ Len(y) = Len(g) - 1
      /\ \A i \in 1..(Len(g) - 1) : y[i] = g[i + 1]
  <2> HIDE DEF g
  <2> QED BY <1>1, TailFacts
<1>3. Shifted(g, y) /\ 1 \in 1..Len(g) /\ Head(g) = k
  BY <1>2 DEF Shifted
<1>4. k \in Seq(Span) /\ k # <<>> /\ NoRepeat(k)
  BY <1>1, <1>3 DEF ListsOf, Once
<1>5. /\ s = Head(k) /\ CacheSet(span_cache, h, n, r, span_cache')
      /\ GlobalSet(global, n, y, global')
  BY <1>3 DEF FromGlobal, CacheSet, GlobalSet
<1> HIDE DEF k
<1>6. r \in Seq(Span)
  BY <1>4, TailFacts
<1>7. Head(k) \in Range(k) /\ Range(r) = Range(k) \ {Head(k)} /\ NoRepeat(r)
  BY <1>4, TailRange
<1>8. s \in Range(k) /\ Range(r) = Range(k) \ {s} /\ NoRepeat(r)
  BY <1>5, <1>7
<1> USE DEF k, g
<1> HIDE DEF y, r
<1>12. /\ Range(span_cache[h][n]) = {} /\ y \in Seq(Seq(Span)) /\ Shifted(global[n], y)
       /\ s \in Range(global[n][1]) /\ r \in Seq(Span) /\ NoRepeat(r)
       /\ Range(r) = Range(global[n][1]) \ {s}
       /\ CacheSet(span_cache, h, n, r, span_cache') /\ GlobalSet(global, n, y, global')
  BY <1>1, <1>2, <1>3, <1>5, <1>6, <1>8
<1>9. FreeLists(span_cache', global')
  BY <1>12, GlobalTake
<1>10. Without(AllListed(span_cache, global), s, AllListed(span_cache', global'))
  BY <1>12, GlobalTake
<1>11. SpanCount[s] = n
  BY <1>12, GlobalTake
<1> QED BY <1>9, <1>10, <1>11

\* A span that is nowhere else from now on.
SpanTaken(T, n, s) ==
  /\ s \in Span /\ SpanCount[s] = n /\ s \notin UsedBy(T)
  /\ FreeLists(span_cache', global')
  /\ AllListed(span_cache', global') = AllListed(span_cache, global) \ {s}
  /\ mapped' = mapped \cup {s}

\* What the lists hold are spans.
LEMMA ListedSpans ==
  ASSUME NEW sc, NEW gl, FreeLists(sc, gl)
  PROVE  AllListed(sc, gl) \subseteq Span
<1>1. ASSUME NEW n \in SpanUnits, NEW s \in Listed(sc, gl, n) PROVE s \in Span
  <2>1. gl[n] \in Seq(Seq(Span)) /\ \A h \in Heap : sc[h][n] \in Seq(Span)
    BY DEF FreeLists, ListTypes, CacheType
  <2>2. CASE \E h \in Heap : s \in Range(sc[h][n])
    <3>1. PICK h \in Heap : s \in Range(sc[h][n])
      BY <2>2
    <3> QED BY <2>1, <3>1, RangeFacts
  <2>3. CASE s \in SpansIn(gl[n])
    <3>1. PICK i \in 1..Len(gl[n]) : s \in Range(gl[n][i])
      BY <2>1, <2>3, SpansInFacts
    <3>2. gl[n][i] \in Seq(Span)
      BY <2>1
    <3> QED BY <3>1, <3>2, RangeFacts
  <2> QED BY <2>2, <2>3 DEF Listed
<1> QED BY <1>1 DEF AllListed

\* Wherever a span comes from, it was not in use and is now in no list.
LEMMA SpanSources ==
  ASSUME NEW T, Spare(T), NEW h \in Heap, NEW n \in SpanUnits, NEW s, workload \in Workload,
         FromCache(h, n, s) \/ FromGlobal(h, n, s) \/ FromSystem(h, n, s)
  PROVE  SpanTaken(T, n, s)
<1>1. /\ FreeLists(span_cache, global)
      /\ mapped = UsedBy(T) \cup AllListed(span_cache, global)
      /\ UsedBy(T) \cap AllListed(span_cache, global) = {}
  BY DEF Spare
<1>2. AllListed(span_cache, global) \subseteq Span
  BY <1>1, ListedSpans
<1>3. CASE FromCache(h, n, s)
  <2>1. /\ FreeLists(span_cache', global)
        /\ AllListed(span_cache', global) = AllListed(span_cache, global) \ {s}
        /\ s \in AllListed(span_cache, global) /\ SpanCount[s] = n
    BY <1>1, <1>3, FromCacheIs DEF Without
  <2>2. UNCHANGED <<global, mapped>>
    BY <1>3 DEF FromCache
  <2> QED BY <1>1, <1>2, <2>1, <2>2 DEF SpanTaken
<1>4. CASE FromGlobal(h, n, s)
  <2>1. /\ FreeLists(span_cache', global')
        /\ AllListed(span_cache', global') = AllListed(span_cache, global) \ {s}
        /\ s \in AllListed(span_cache, global) /\ SpanCount[s] = n
    BY <1>1, <1>4, FromGlobalIs DEF Without
  <2>2. UNCHANGED mapped
    BY <1>4 DEF FromGlobal
  <2> QED BY <1>1, <1>2, <2>1, <2>2 DEF SpanTaken
<1>5. CASE FromSystem(h, n, s)
  <2>1. s \in workload.spans \ mapped /\ SpanCount[s] = n /\ mapped' = mapped \cup {s}
        /\ UNCHANGED <<global, span_cache>>
    BY <1>5 DEF FromSystem, MapSpan
  <2>2. s \in Span
    BY <2>1, WorkloadAssumption
  <2> QED BY <1>1, <2>1, <2>2 DEF SpanTaken
<1> QED BY <1>3, <1>4, <1>5

\* The spans that stay free when one is taken.
LEMMA SpareTaken ==
  ASSUME NEW T, Spare(T), NEW n, NEW s, SpanTaken(T, n, s), NEW T2, UsedBy(T2) = UsedBy(T) \cup {s},
         \A x \in Span \ {s} : span_heap'[x] = span_heap[x]
  PROVE  Spare(T2)'
<1>1. /\ FreeLists(span_cache, global)
      /\ mapped = UsedBy(T) \cup AllListed(span_cache, global)
      /\ UsedBy(T) \cap AllListed(span_cache, global) = {}
      /\ \A x \in AllListed(span_cache, global) : SpanCount[x] # 1 => span_heap[x] # NoHeap
  BY DEF Spare
<1>2. /\ FreeLists(span_cache', global')
      /\ AllListed(span_cache', global') = AllListed(span_cache, global) \ {s}
      /\ mapped' = mapped \cup {s}
  BY DEF SpanTaken
<1>3. AllListed(span_cache, global) \subseteq Span
  BY <1>1, ListedSpans
<1>4. \A x \in AllListed(span_cache', global') : SpanCount[x] # 1 => span_heap'[x] # NoHeap
  BY <1>1, <1>2, <1>3
<1>5. mapped' = UsedBy(T2) \cup AllListed(span_cache', global')
  BY <1>1, <1>2
<1>6. UsedBy(T2) \cap AllListed(span_cache', global') = {}
  BY <1>1, <1>2
<1> QED BY <1>2, <1>4, <1>5, <1>6, SameSets DEF Spare
-----------------------------------------------------------------------------
(* A new span *)

\* The parts of the invariant that every step starts from.
LEMMA PlacedParts ==
  ASSUME NEW T, Placed(T)
  PROVE  /\ T \subseteq Block /\ Spare(T) /\ UsedBy(T) \subseteq Span
         /\ Table(active, Actives) /\ Table(size_cache, Seq(Span)) /\ word \in [Block -> Words]
         /\ data \in [Span -> Books] /\ span_heap \in [Span -> HeapOrNone] /\ size_class \in [Span -> Nat]
         /\ \A h \in Heap, c \in SmallClass :
              ClassOk(SmallOf(T, span_heap, size_class, h, c), active[h][c], size_cache[h][c], data)
<1>1. T \subseteq Block /\ PlaceTypes /\ Spare(T) /\ ClassesOk(T)
  BY DEF Placed
<1>2. UsedBy(T) \subseteq Span
  BY <1>1, UsedFacts
<1> QED BY <1>1, <1>2 DEF PlaceTypes, Table, ClassesOk

\* The types of the state, by its parts.
LEMMA TypesTogether ==
  ASSUME Table(active', Actives), Table(size_cache', Seq(Span)), word' \in [Block -> Words],
         data' \in [Span -> Books], span_heap' \in [Span -> HeapOrNone], size_class' \in [Span -> Nat]
  PROVE  PlaceTypes'
BY SameSets DEF PlaceTypes, Table

\* The first block of a span taken for it is handed out.
LEMMA FirstBlock ==
  ASSUME NEW T, T \subseteq Block, NEW s \in Span, s \notin UsedBy(T)
  PROVE  /\ <<s, 0>> \in Block \ T
         /\ UsedBy(T \cup {<<s, 0>>}) = UsedBy(T) \cup {s}
         /\ SlotsOf(T \cup {<<s, 0>>}, s) = {0}
         /\ SameBut(T, T \cup {<<s, 0>>}, s)
<1> DEFINE b == <<s, 0>>
<1>1. b \in Block /\ SpanOf(b) = s /\ SlotOf(b) = 0
  BY BlockSets, BlockFacts
<1>2. SlotsOf(T, s) = {}
  BY UsedFacts
<1>3. b \notin T
  BY <1>1 DEF UsedBy
<1> HIDE DEF b
<1>4. UsedBy(T \cup {b}) = UsedBy(T) \cup {SpanOf(b)}
  BY <1>1, UsedAdd
<1>5. SlotsOf(T \cup {b}, SpanOf(b)) = SlotsOf(T, SpanOf(b)) \cup {SlotOf(b)}
  BY <1>1, UsedAdd
<1>6. SameBut(T, T \cup {b}, SpanOf(b))
  BY <1>1, UsedAdd
<1>7. SlotsOf(T \cup {b}, s) = {0}
  BY <1>1, <1>2, <1>5
<1> QED BY <1>1, <1>3, <1>4, <1>6, <1>7 DEF b

\* The program writes to one block.
LEMMA WordForgotten ==
  ASSUME word \in [Block -> Words], NEW b \in Block, word' = [word EXCEPT ![b] = Data]
  PROVE  word' \in [Block -> Words] /\ \A x \in Block : x # b => word'[x] = word[x]
BY TypeFacts

\* A new span of small blocks has its first block in use.
LEMMA NewSpanPlaced ==
  ASSUME NEW T, Placed(T), NEW h \in Heap, NEW c \in SmallClass, NEW s, SpanTaken(T, 1, s),
         Owned(h, c, s), UNCHANGED <<size_cache, data>>, HandOut(<<s, 0>>),
         NEW v, v = [span |-> s, free_list |-> 1, first_autolink |-> 1, free_count |-> BlockCount[c] - 1],
         SetAt(active, h, c, v, active'),
         active[h][c].free_count = 0, size_cache[h][c] = <<>>
  PROVE  <<s, 0>> \in Block \ T /\ Placed(T \cup {<<s, 0>>})'
<1> DEFINE b == <<s, 0>>
           T2 == T \cup {b}
           S == SmallOf(T, span_heap, size_class, h, c)
           S2 == SmallOf(T2, span_heap', size_class', h, c)
<1>1. /\ T \subseteq Block /\ Spare(T) /\ UsedBy(T) \subseteq Span
      /\ Table(active, Actives) /\ Table(size_cache, Seq(Span)) /\ word \in [Block -> Words]
      /\ data \in [Span -> Books] /\ span_heap \in [Span -> HeapOrNone] /\ size_class \in [Span -> Nat]
      /\ ClassOk(S, active[h][c], size_cache[h][c], data)
  BY PlacedParts
<1>2. s \in Span /\ SpanCount[s] = 1 /\ s \notin UsedBy(T)
  BY DEF SpanTaken
<1>3. b \in Block \ T /\ UsedBy(T2) = UsedBy(T) \cup {s} /\ SlotsOf(T2, s) = {0} /\ SameBut(T, T2, s)
  BY <1>1, <1>2, FirstBlock
<1>4. BlockCount[c] \in Nat /\ BlockCount[c] >= 2 /\ BlockCount[c] <= MaxBlocks /\ Stale = MaxBlocks
      /\ MaxBlocks \in Nat /\ c \in Nat /\ h \in HeapOrNone
  BY BlockSets, HeapSets, BlockCountAssumption DEF SmallClass
<1>5. v \in Actives
  <2>1. 1 \in 0..Stale /\ BlockCount[c] - 1 \in 0..Stale
    BY <1>4
  <2> QED BY <1>2, <2>1 DEF Actives
<1>6. Table(active', Actives) /\ active'[h][c] = v /\ WritesAt(active, active', h, c)
  <2>1. Table(active', Actives)
    BY <1>1, <1>5, TableWritten
  <2>2. active'[h][c] = v
    BY <1>1, <1>5, TableWritten
  <2>3. WritesAt(active, active', h, c)
    BY <1>1, <1>5, TableWritten
  <2> QED BY <2>1, <2>2, <2>3
<1>7. /\ span_heap' \in [Span -> HeapOrNone] /\ span_heap'[s] = h
      /\ \A x \in Span \ {s} : span_heap'[x] = span_heap[x]
      /\ size_class' \in [Span -> Nat] /\ size_class'[s] = c
      /\ \A x \in Span \ {s} : size_class'[x] = size_class[x]
  BY <1>1, <1>2, <1>4 DEF Owned
<1>8. word' \in [Block -> Words] /\ \A x \in Block : x # b => word'[x] = word[x]
  <2>1. word' = [word EXCEPT ![b] = Data] /\ b \in Block
    BY <1>3 DEF HandOut
  <2> HIDE DEF b
  <2> QED BY <1>1, <2>1, WordForgotten
<1>9. OneSpan(s)
  <2>1. SpanOf(b) = s
    BY DEF SpanOf
  <2> QED BY <1>7, <1>8, <2>1 DEF OneSpan
<1>10. PlaceTypes'
  BY <1>1, <1>6, <1>7, <1>8, TypesTogether
<1>11. Spare(T2)'
  BY <1>1, <1>3, <1>7, SpareTaken
<1>12. BlockData(span_heap[s], s)' =
         [free_list |-> 1, first_autolink |-> 1, free_count |-> BlockCount[c] - 1]
  BY <1>6, <1>7 DEF BlockData, IsActive
<1>13. SpanOk(SlotsOf(T2, s), s, h, c, BlockData(span_heap[s], s)', word')
  <2> DEFINE bd == BlockData(span_heap[s], s)'
  <2>1. bd.free_list = 1 /\ bd.first_autolink = 1 /\ bd.free_count = BlockCount[c] - 1
    BY <1>12
  <2> HIDE DEF bd
  <2>2. FreeListIs({0}, s, c, bd, word', <<>>)
    BY <2>1, NewList
  <2>3. h # NoHeap /\ ~(1 > LargeClassCount)
    BY HeapSets, UnitFacts
  <2> QED BY <1>2, <1>3, <2>2, <2>3 DEF SpanOk, SmallOk, bd
<1>14. ActiveGoes(S, s, active[h][c], active'[h][c])
  <2>1. active[h][c].span \notin S
    BY <1>1 DEF ClassOk
  <2> QED BY <2>1, <1>6 DEF ActiveGoes
<1>15. s \notin Range(size_cache'[h][c]) /\ ListGoes(s, size_cache[h][c], size_cache'[h][c])
  <2>1. size_cache' = size_cache
    OBVIOUS
  <2>2. Range(size_cache[h][c]) = {} /\ size_cache[h][c] \in Seq(Span) /\ NoRepeat(size_cache[h][c])
    BY <1>1, EmptyFacts DEF ClassOk
  <2> QED BY <2>1, <2>2 DEF ListGoes
<1>16. active'[h][c].free_count > 0 /\ active'[h][c].span = s
  BY <1>4, <1>6
<1>17. s \in S2
  BY <1>3, <1>7 DEF SmallOf
<1>18. Headed(T, span_heap, size_class, s, h, c) /\ Headed(T2, span_heap', size_class', s, h, c)
  BY <1>2, <1>7 DEF Headed
<1>19. WritesAt(size_cache, size_cache', h, c)
  BY DEF WritesAt
<1> HIDE DEF T2, b
<1>20. Placed(T2)'
  BY <1>2, <1>3, <1>6, <1>9, <1>10, <1>11, <1>13, <1>14, <1>15, <1>16, <1>17, <1>18, <1>19, PairStep
<1> QED BY <1>3, <1>20 DEF T2, b

\* A span that is one block.
LEMMA OtherTaken ==
  ASSUME NEW T, Placed(T), NEW n, NEW s, SpanTaken(T, n, s), HandOut(<<s, 0>>),
         UNCHANGED <<active, size_cache, data>>,
         span_heap' \in [Span -> HeapOrNone], size_class' \in [Span -> Nat],
         \A x \in Span \ {s} : span_heap'[x] = span_heap[x] /\ size_class'[x] = size_class[x],
         span_heap'[s] = NoHeap <=> n > LargeClassCount,
         span_heap'[s] # NoHeap => size_class'[s] = ClassOf(n)
  PROVE  <<s, 0>> \in Block \ T /\ Placed(T \cup {<<s, 0>>})'
<1> DEFINE b == <<s, 0>>
           T2 == T \cup {b}
<1>1. /\ T \subseteq Block /\ Spare(T)
      /\ Table(active, Actives) /\ Table(size_cache, Seq(Span)) /\ word \in [Block -> Words]
      /\ data \in [Span -> Books]
  BY PlacedParts
<1>2. s \in Span /\ SpanCount[s] = n /\ s \notin UsedBy(T)
  BY DEF SpanTaken
<1>3. b \in Block \ T /\ UsedBy(T2) = UsedBy(T) \cup {s} /\ SlotsOf(T2, s) = {0} /\ SameBut(T, T2, s)
  BY <1>1, <1>2, FirstBlock
<1>4. word' \in [Block -> Words] /\ \A x \in Block : x # b => word'[x] = word[x]
  <2>1. word' = [word EXCEPT ![b] = Data] /\ b \in Block
    BY <1>3 DEF HandOut
  <2> HIDE DEF b
  <2> QED BY <1>1, <2>1, WordForgotten
<1>5. OneSpan(s)
  <2>1. SpanOf(b) = s
    BY DEF SpanOf
  <2> QED BY <1>4, <2>1 DEF OneSpan
<1>6. PlaceTypes'
  BY <1>1, <1>4, TypesTogether
<1>7. Spare(T2)'
  BY <1>1, <1>3, SpareTaken
<1>8. span_heap'[s] # NoHeap => size_class'[s] \notin SmallClass
  <2>1. SpanCount[s] \in Nat \ {0} /\ SizeClassCount \in Nat
    BY <1>2, SpanAssumption, BlockCountAssumption
  <2> QED BY <1>2, <2>1 DEF ClassOf, SmallClass
<1>9. SpanOk(SlotsOf(T2, s), s, span_heap'[s], size_class'[s], BlockData(span_heap[s], s)', word')
  BY <1>2, <1>3, <1>8 DEF SpanOk, OtherOk
<1>10. ClassesFollow(T, T2, s)
  <2>1. ASSUME NEW h \in Heap, NEW c \in SmallClass
        PROVE  /\ s \notin SmallOf(T, span_heap, size_class, h, c)
               /\ s \notin SmallOf(T2, span_heap', size_class', h, c)
    BY <1>2, <1>8, HeapSets DEF SmallOf
  <2> QED BY <2>1 DEF ClassesFollow
<1>11. ActiveMoves(T, s)
  BY DEF ActiveMoves
<1> HIDE DEF T2, b
<1>12. Placed(T2)'
  BY <1>2, <1>3, <1>5, <1>6, <1>7, <1>9, <1>10, <1>11, OneSpanStep
<1> QED BY <1>3, <1>12 DEF T2, b
-----------------------------------------------------------------------------
(* Steps that move no block *)

\* A link is written into a block that is taken.
WordSet(b, w) == word' = [word EXCEPT ![b] = w]

\* A word of a block in use is no part of a free list.
LEMMA WordPlaced ==
  ASSUME NEW T, Placed(T), NEW b \in T, NEW w \in Words, WordSet(b, w),
         UNCHANGED <<active, size_cache, data, span_cache, global, span_heap, size_class, mapped>>
  PROVE  Placed(T)'
<1> DEFINE s == SpanOf(b)
<1>1. /\ T \subseteq Block /\ Spare(T) /\ UsedBy(T) \subseteq Span
      /\ Table(active, Actives) /\ Table(size_cache, Seq(Span)) /\ word \in [Block -> Words]
      /\ data \in [Span -> Books] /\ span_heap \in [Span -> HeapOrNone] /\ size_class \in [Span -> Nat]
      /\ \A h \in Heap, c \in SmallClass :
           ClassOk(SmallOf(T, span_heap, size_class, h, c), active[h][c], size_cache[h][c], data)
  BY PlacedParts
<1>2. s \in UsedBy(T) /\ s \in Span /\ b \in Block
  BY <1>1 DEF UsedBy
<1>3. word' \in [Block -> Words] /\ \A x \in Block : x # b => word'[x] = word[x]
  BY <1>1, <1>2 DEF WordSet
<1>4. OneSpan(s) /\ SameBut(T, T, s)
  BY <1>1, <1>3 DEF OneSpan, SameBut
<1>5. PlaceTypes'
  BY <1>1, <1>3, TypesTogether
<1>6. Spare(T)'
  BY <1>1, SpareKept
<1>7. ActiveMoves(T, s) /\ ClassesFollow(T, T, s)
  BY <1>1 DEF ActiveMoves, ClassesFollow
<1>8. SpanOk(SlotsOf(T, s), s, span_heap'[s], size_class'[s], BlockData(span_heap[s], s)', word')
  <2> DEFINE U == SlotsOf(T, s)
             bd == BlockData(span_heap[s], s)
  <2>1. SpanOk(U, s, span_heap[s], size_class[s], bd, word)
    BY <1>2 DEF Placed, SpansOk
  <2>2. bd' = bd /\ span_heap'[s] = span_heap[s] /\ size_class'[s] = size_class[s]
    BY DEF BlockData, IsActive
  <2>3. SameFree(U, s, word, word')
    <3>1. SlotOf(b) \in U /\ \A i \in Slot : <<s, i>> \in Block /\ SlotOf(<<s, i>>) = i
      BY <1>1, <1>2, UsedDrop, BlockFacts
    <3>2. ASSUME NEW i \in Slot \ U PROVE <<s, i>> # b
      BY <3>1, <3>2
    <3> QED BY <3>1, <3>2, <1>3 DEF SameFree
  <2> HIDE DEF U, bd
  <2>4. CASE span_heap[s] # NoHeap /\ size_class[s] \in SmallClass
    <3>1. SpanCount[s] = 1 /\ \E f : FreeListIs(U, s, size_class[s], bd, word, f)
      BY <2>1, <2>4 DEF SpanOk, SmallOk
    <3>2. PICK f : FreeListIs(U, s, size_class[s], bd, word, f)
      BY <3>1
    <3>3. FreeListIs(U, s, size_class[s], bd, word', f)
      BY <3>2, <2>3, <2>4, ListKept
    <3>4. SpanOk(U, s, span_heap[s], size_class[s], bd, word')
      BY <2>1, <2>4, <3>1, <3>3 DEF SpanOk, SmallOk
    <3> QED BY <3>4, <2>2 DEF U, bd
  <2>5. CASE ~(span_heap[s] # NoHeap /\ size_class[s] \in SmallClass)
    <3>1. SpanOk(U, s, span_heap[s], size_class[s], bd, word')
      BY <2>1, <2>5 DEF SpanOk
    <3> QED BY <3>1, <2>2 DEF U, bd
  <2> QED BY <2>4, <2>5
<1> QED BY <1>2, <1>4, <1>5, <1>6, <1>7, <1>8, OneSpanStep

\* Free spans go from one list to another, or back to the system.
LEMMA ListsPlaced ==
  ASSUME NEW T, Placed(T), UNCHANGED <<active, size_cache, data, word, span_heap, size_class>>,
         FreeLists(span_cache', global'),
         AllListed(span_cache', global') \subseteq AllListed(span_cache, global),
         mapped' = mapped \ (AllListed(span_cache, global) \ AllListed(span_cache', global'))
  PROVE  Placed(T)'
<1>1. /\ mapped = UsedBy(T) \cup AllListed(span_cache, global)
      /\ UsedBy(T) \cap AllListed(span_cache, global) = {}
      /\ \A s \in AllListed(span_cache, global) : SpanCount[s] # 1 => span_heap[s] # NoHeap
  BY DEF Placed, Spare
<1>2. mapped' = UsedBy(T) \cup AllListed(span_cache', global')
  BY <1>1
<1>3. Spare(T)'
  BY <1>1, <1>2, SameSets DEF Spare
<1>4. PlaceTypes'
  BY SameSets DEF Placed, PlaceTypes
<1>5. \A s : BlockData(span_heap[s], s)' = BlockData(span_heap[s], s)
  BY DEF BlockData, IsActive
<1>6. SpansOk(T)' /\ ClassesOk(T)'
  BY <1>5, SameSets DEF Placed, SpansOk, ClassesOk
<1> QED BY <1>3, <1>4, <1>6 DEF Placed
-----------------------------------------------------------------------------
(* Spans put where they are free *)

\* Forgetting the contents of a span touches no other span.
LEMMA ForgetIs ==
  ASSUME NEW T, Placed(T), NEW n, NEW s \in Span, Forget(n, s)
  PROVE  /\ OneSpan(s)
         /\ word' \in [Block -> Words] /\ data' \in [Span -> Books]
         /\ span_heap' \in [Span -> HeapOrNone] /\ size_class' \in [Span -> Nat]
         /\ n # 1 => span_heap' = span_heap
         /\ n = 1 => span_heap'[s] = NoHeap
<1>1. /\ word \in [Block -> Words]
      /\ data \in [Span -> Books] /\ span_heap \in [Span -> HeapOrNone] /\ size_class \in [Span -> Nat]
  BY PlacedParts
<1>2. /\ data' = [data EXCEPT ![s] = NoBlocks]
      /\ word' = [b \in Block |-> IF SpanOf(b) = s THEN Data ELSE word[b]]
      /\ IF n = 1 THEN Owned(NoHeap, 0, s) ELSE UNCHANGED <<span_heap, size_class>>
  BY DEF Forget
<1>3. NoHeap \in HeapOrNone /\ 0 \in Nat
  BY HeapSets
<1>4. data' \in [Span -> Books] /\ \A x \in Span \ {s} : data'[x] = data[x]
  BY <1>1, <1>2, TypeFacts
<1>5. word' \in [Block -> Words] /\ \A b \in Block : SpanOf(b) # s => word'[b] = word[b]
  BY <1>1, <1>2, TypeFacts
<1>6. /\ span_heap' \in [Span -> HeapOrNone] /\ size_class' \in [Span -> Nat]
      /\ \A x \in Span \ {s} : span_heap'[x] = span_heap[x] /\ size_class'[x] = size_class[x]
      /\ n # 1 => span_heap' = span_heap
      /\ n = 1 => span_heap'[s] = NoHeap
  <2>1. CASE n = 1
    <3>1. span_heap' = [span_heap EXCEPT ![s] = NoHeap] /\ size_class' = [size_class EXCEPT ![s] = 0]
      BY <1>2, <2>1 DEF Owned
    <3> QED BY <3>1, <1>1, <1>3, <2>1
  <2>2. CASE n # 1
    BY <2>2, <1>1, <1>2
  <2> QED BY <2>1, <2>2
<1> QED BY <1>4, <1>5, <1>6 DEF OneSpan

\* A span freed joins the lists of free spans.
LEMMA SpareFreed ==
  ASSUME NEW T, Placed(T), NEW h \in Heap, NEW n \in SpanUnits, NEW s \in UsedBy(T), SpanCount[s] = n,
         CacheInsert(h, n, s), UNCHANGED <<global, mapped>>, span_heap[s] # NoHeap,
         NEW T2, UsedBy(T2) = UsedBy(T) \ {s}
  PROVE  Spare(T2)'
<1> DEFINE k == span_cache[h][n]
           l == <<s>> \o k
<1>1. /\ FreeLists(span_cache, global)
      /\ mapped = UsedBy(T) \cup AllListed(span_cache, global)
      /\ UsedBy(T) \cap AllListed(span_cache, global) = {}
      /\ \A x \in AllListed(span_cache, global) : SpanCount[x] # 1 => span_heap[x] # NoHeap
      /\ UsedBy(T) \subseteq Span
  BY PlacedParts DEF Spare
<1>2. k \in Seq(Span) /\ NoRepeat(k) /\ Range(k) \subseteq AllListed(span_cache, global)
  BY <1>1 DEF FreeLists, ListTypes, CacheType, ListsOf, Once, AllListed, Listed
<1>3. CacheSet(span_cache, h, n, l, span_cache') /\ Forget(n, s)
  BY DEF CacheInsert, CacheSet
<1>4. s \in Span /\ s \notin AllListed(span_cache, global)
  BY <1>1
<1>5. l \in Seq(Span) /\ Range(l) = {s} \cup Range(k) /\ NoRepeat(l)
  <2> HIDE DEF k
  <2>1. s \notin Range(k)
    BY <1>2, <1>4
  <2>2. l \in Seq(Span)
    BY <1>2, <1>4, ConsFacts
  <2>3. Range(l) = {s} \cup Range(k) /\ (NoRepeat(k) /\ s \notin Range(k) => NoRepeat(l))
    BY <1>2, <1>4, ConsRange
  <2> QED BY <1>2, <2>1, <2>2, <2>3
<1> HIDE DEF l
<1>6. FreeLists(span_cache', global)
  BY <1>1, <1>3, <1>4, <1>5, CachePut
<1>7. WithToo(AllListed(span_cache, global), s, AllListed(span_cache', global))
  BY <1>1, <1>3, <1>4, <1>5, CachePut
<1>8. AllListed(span_cache', global') = AllListed(span_cache, global) \cup {s}
  BY <1>7 DEF WithToo
<1>9. ASSUME NEW x \in AllListed(span_cache', global'), SpanCount[x] # 1 PROVE span_heap'[x] # NoHeap
  <2>1. x \in Span
    BY <1>1, <1>4, <1>8, ListedSpans
  <2>2. CASE x = s
    BY <1>3, <1>4, <1>9, <2>2, ForgetIs
  <2>3. CASE x # s
    <3>1. span_heap'[x] = span_heap[x]
      BY <1>3, <1>4, <2>1, <2>3, ForgetIs DEF OneSpan
    <3> QED BY <3>1, <2>3, <1>1, <1>8, <1>9
  <2> QED BY <2>2, <2>3
<1>10. mapped' = UsedBy(T2) \cup AllListed(span_cache', global')
  BY <1>1, <1>8
<1>11. UsedBy(T2) \cap AllListed(span_cache', global') = {}
  BY <1>1, <1>8
<1> QED BY <1>6, <1>9, <1>10, <1>11, SameSets DEF Spare
-----------------------------------------------------------------------------
(* Blocks given back *)

\* What stays of the blocks of T2.
OthersAlone(T2) ==
  \A x \in T2 : /\ word'[x] = word[x]
                /\ span_heap'[SpanOf(x)] = span_heap[SpanOf(x)]
                /\ size_class'[SpanOf(x)] = size_class[SpanOf(x)]

\* No active span without free blocks gets any, and none of another heap changes.
ActiveStays(h) ==
  /\ \A c \in SmallClass : active[h][c].free_count = 0 => active'[h][c].free_count = 0
  /\ \A k \in Heap \ {h} : active'[k] = active[k]

\* A block of a span of small blocks in use.
LEMMA SmallSpan ==
  ASSUME NEW T, Placed(T), NEW h \in Heap, NEW b \in T, span_heap[SpanOf(b)] = h,
         size_class[SpanOf(b)] \in SmallClass
  PROVE  LET s == SpanOf(b)
             U == SlotsOf(T, s)
             c == size_class[s]
             bd == BlockData(h, s)
         IN /\ h # NoHeap /\ ~(SpanCount[s] > LargeClassCount) /\ SpanCount[s] = 1
            /\ \E f : FreeListIs(U, s, c, bd, word, f)
            /\ SlotOf(b) \in U /\ s \in UsedBy(T) /\ s \in Span /\ b = <<s, SlotOf(b)>>
            /\ s \in SmallOf(T, span_heap, size_class, h, c)
            /\ bd \in Books
<1> DEFINE s == SpanOf(b)
           c == size_class[s]
<1>1. /\ T \subseteq Block /\ Table(active, Actives) /\ data \in [Span -> Books]
  BY PlacedParts
<1>2. SlotOf(b) \in SlotsOf(T, s) /\ s \in UsedBy(T) /\ s \in Span
  BY <1>1, UsedDrop
<1>3. b = <<s, SlotOf(b)>>
  BY <1>1, BlockFacts
<1>4. SpanOk(SlotsOf(T, s), s, h, c, BlockData(h, s), word)
  BY <1>2 DEF Placed, SpansOk
<1>5. h # NoHeap
  BY HeapSets
<1>6. ~(SpanCount[s] > LargeClassCount) /\ SpanCount[s] = 1
      /\ \E f : FreeListIs(SlotsOf(T, s), s, c, BlockData(h, s), word, f)
  BY <1>4, <1>5 DEF SpanOk, SmallOk
<1>7. BlockData(h, s) \in Books
  <2>1. active[h][c] \in Actives /\ data[s] \in Books
    BY <1>1, <1>2 DEF Table
  <2> QED BY <2>1 DEF BlockData, Actives, Books
<1> QED BY <1>2, <1>3, <1>5, <1>6, <1>7 DEF SmallOf

\* A step about a span that has no block in use leaves those in use.
LEMMA AloneWithout ==
  ASSUME NEW T2, T2 \subseteq Block, NEW s \in Span, OneSpan(s), s \notin UsedBy(T2)
  PROVE  OthersAlone(T2)
<1>1. ASSUME NEW x \in T2 PROVE x \in Block /\ SpanOf(x) \in Span /\ SpanOf(x) # s
  BY BlockFacts DEF UsedBy
<1> QED BY <1>1 DEF OthersAlone, OneSpan

\* One active span written.
LEMMA ActiveWritten ==
  ASSUME NEW h \in Heap, NEW c \in SmallClass, WritesAt(active, active', h, c),
         \A k \in Heap \ {h} : active'[k] = active[k],
         active[h][c].free_count = 0 => active'[h][c].free_count = 0
  PROVE  ActiveStays(h)
BY DEF ActiveStays, WritesAt

\* The last block in use is freed and its span is free.
LEMMA FreeLastPlaced ==
  ASSUME NEW T, Placed(T), NEW h \in Heap, NEW b \in T, NEW s, s = SpanOf(b), span_heap[s] = h,
         NEW c \in SmallClass, size_class[s] = c, FreeLast(h, s, BlockData(h, s)),
         UNCHANGED <<global, mapped>>
  PROVE  Placed(T \ {b})' /\ OthersAlone(T \ {b}) /\ ActiveStays(h)
<1> DEFINE T2 == T \ {b}
           U == SlotsOf(T, s)
           bd == BlockData(h, s)
           S == SmallOf(T, span_heap, size_class, h, c)
           S2 == SmallOf(T2, span_heap', size_class', h, c)
           a == active[h][c]
           l == size_cache[h][c]
<1>1. /\ T \subseteq Block /\ UsedBy(T) \subseteq Span
      /\ Table(active, Actives) /\ Table(size_cache, Seq(Span))
      /\ ClassOk(S, a, l, data)
  BY PlacedParts
<1>2. /\ h # NoHeap /\ SpanCount[s] = 1
      /\ \E f : FreeListIs(U, s, c, bd, word, f)
      /\ SlotOf(b) \in U /\ s \in UsedBy(T) /\ s \in Span
      /\ s \in S
  BY SmallSpan
<1>3. bd.free_count = BlockCount[c] - 1 /\ CacheInsert(h, 1, s) /\ Forget(1, s)
  BY DEF FreeLast, CacheInsert
<1>4. U = {SlotOf(b)}
  BY <1>2, <1>3, LastInUse
<1>5. UsedBy(T2) = UsedBy(T) \ {s} /\ SameBut(T, T2, s)
  BY <1>1, <1>4, UsedDrop
<1>6. /\ OneSpan(s)
      /\ word' \in [Block -> Words] /\ data' \in [Span -> Books]
      /\ span_heap' \in [Span -> HeapOrNone] /\ size_class' \in [Span -> Nat]
  BY <1>2, <1>3, ForgetIs
<1>7. Spare(T2)'
  BY <1>2, <1>3, <1>5, UnitFacts, SpareFreed
<1>8. Headed(T, span_heap, size_class, s, h, c) /\ Headed(T2, span_heap', size_class', s, h, c)
  BY <1>5 DEF Headed
<1>9. s \notin S2 /\ s \notin UsedBy(T2)
  BY <1>5 DEF SmallOf
<1>10. OthersAlone(T2)
  BY <1>1, <1>2, <1>6, <1>9, AloneWithout
<1>11. BlockCount[c] \in Nat /\ BlockCount[c] >= 2
  BY BlockSets
<1>12. CASE IsActive(h, s)
  <2> DEFINE v == [NoActive EXCEPT !.span = s]
  <2>1. a.span = s
    BY <1>12 DEF IsActive
  <2>2. v \in Actives /\ v.span = s /\ v.free_count = 0
    BY <1>2, TypeFacts DEF NoActive, Actives
  <2>3. SetAt(active, h, c, v, active') /\ size_cache' = size_cache
    BY <1>12 DEF FreeLast, SetAt
  <2> HIDE DEF v, a, l, S, S2, T2
  <2>4. Table(active', Actives)
    BY <1>1, <2>2, <2>3, TableWritten
  <2>5. active'[h][c] = v
    BY <1>1, <2>2, <2>3, TableWritten
  <2>6. WritesAt(active, active', h, c)
    BY <1>1, <2>2, <2>3, TableWritten
  <2>7. \A k \in Heap \ {h} : active'[k] = active[k]
    BY <1>1, <2>2, <2>3, TableWritten
  <2>8. PlaceTypes'
    BY <1>1, <1>6, <2>3, <2>4, TypesTogether
  <2>9. ActiveGoes(S, s, a, active'[h][c])
    BY <2>1, <2>2, <2>5 DEF ActiveGoes
  <2>10. s \notin Range(l) /\ l \in Seq(Span) /\ NoRepeat(l)
    BY <1>1, <2>1 DEF ClassOk
  <2>11. ListGoes(s, l, size_cache'[h][c]) /\ s \notin Range(size_cache'[h][c])
    BY <2>3, <2>10 DEF ListGoes, l
  <2>12. ~(active'[h][c].free_count > 0) /\ active'[h][c].span = s
    BY <2>2, <2>5
  <2>13. WritesAt(size_cache, size_cache', h, c)
    BY <2>3 DEF WritesAt
  <2>14. Placed(T2)'
    BY <1>2, <1>5, <1>6, <1>7, <1>8, <1>9, <2>6, <2>8, <2>9, <2>11, <2>12, <2>13, PairStep DEF S, S2, a, l
  <2>15. ActiveStays(h)
    BY <2>2, <2>5, <2>6, <2>7, ActiveWritten
  <2> QED BY <1>10, <2>14, <2>15 DEF T2
<1>13. CASE ~IsActive(h, s)
  <2> DEFINE v == RemoveFirst(l, s)
  <2>1. a.span # s
    BY <1>13 DEF IsActive
  <2>2. SetAt(size_cache, h, c, v, size_cache') /\ active' = active
    BY <1>13 DEF FreeLast, SetAt
  <2>3. data[s].free_count > 0
    <3>1. bd = data[s]
      BY <1>13 DEF BlockData
    <3> QED BY <3>1, <1>3, <1>11
  <2>4. s \in Range(l) /\ l \in Seq(Span) /\ NoRepeat(l)
    BY <1>1, <1>2, <2>1, <2>3 DEF ClassOk
  <2>5. v \in Seq(Span) /\ Range(v) = Range(l) \ {s} /\ NoRepeat(v)
    <3> HIDE DEF l
    <3>1. v \in Seq(Span)
      BY <2>4, RemoveFirstFacts
    <3>2. Range(v) = Range(l) \ {s}
      BY <2>4, RemoveFirstFacts
    <3>3. NoRepeat(v)
      BY <2>4, RemoveFirstFacts
    <3> QED BY <3>1, <3>2, <3>3
  <2> HIDE DEF v, a, l, S, S2, T2
  <2>6. Table(size_cache', Seq(Span))
    BY <1>1, <2>2, <2>5, TableWritten
  <2>7. size_cache'[h][c] = v
    BY <1>1, <2>2, <2>5, TableWritten
  <2>8. WritesAt(size_cache, size_cache', h, c)
    BY <1>1, <2>2, <2>5, TableWritten
  <2>9. PlaceTypes'
    BY <1>1, <1>6, <2>2, <2>6, TypesTogether
  <2>10. ActiveGoes(S, s, a, active'[h][c]) /\ WritesAt(active, active', h, c)
    BY <2>2 DEF ActiveGoes, WritesAt, a
  <2>11. ListGoes(s, l, size_cache'[h][c]) /\ s \notin Range(size_cache'[h][c])
    BY <2>5, <2>7 DEF ListGoes
  <2>12. active'[h][c].free_count > 0 <=> active'[h][c].span \in S2
    <3>1. a.free_count > 0 <=> a.span \in S
      BY <1>1 DEF ClassOk
    <3>2. S \subseteq Span /\ S2 \subseteq Span
      BY <1>1, <1>5 DEF S, S2, SmallOf
    <3>3. \A x \in Span \ {s} : x \in S2 <=> x \in S
      BY <1>2, <1>5, <1>6, OtherSpans DEF S, S2
    <3> QED BY <3>1, <3>2, <3>3, <2>1, <2>2 DEF a
  <2>13. Placed(T2)'
    BY <1>2, <1>5, <1>6, <1>7, <1>8, <1>9, <2>8, <2>9, <2>10, <2>11, <2>12, PairStep DEF S, S2, a, l
  <2>14. ActiveStays(h)
    BY <2>2 DEF ActiveStays
  <2> QED BY <1>10, <2>13, <2>14 DEF T2
<1> QED BY <1>12, <1>13
-----------------------------------------------------------------------------
\* The blocks of span s that stay in use when b, its block i, is freed.
FreedInSpan(T, b, s, c, i, bd2) ==
  /\ SlotsOf(T, s) # {i}
  /\ HasList(SlotsOf(T \ {b}, s), s, c, bd2, word')
  /\ bd2 \in Books /\ bd2.free_count \in Nat \ {0} /\ i \in 0..Stale
  /\ word' \in [Block -> Words]
  /\ \A x \in Block : x # b => word'[x] = word[x]

\* How many blocks of a span are in use.
LEMMA SlotsInUse ==
  ASSUME NEW U, NEW s, NEW c \in SmallClass, NEW bd, NEW w, NEW f, FreeListIs(U, s, c, bd, w, f)
  PROVE  IsFiniteSet(U) /\ Cardinality(U) = BlockCount[c] - bd.free_count
BY FreeCountIs

\* A block freed that is not the last joins the free list of its span.
LEMMA FreeInSpanList ==
  ASSUME NEW T, Placed(T), NEW h \in Heap, NEW b \in T, NEW s, s = SpanOf(b), span_heap[s] = h,
         NEW c \in SmallClass, size_class[s] = c, NEW i, i = SlotOf(b), NEW bd, bd = BlockData(h, s),
         NEW bd2, bd2 = Freed(c, bd, i), bd.free_count # BlockCount[c] - 1,
         WordSet(<<s, i>>, IndexWord(bd.free_list))
  PROVE  FreedInSpan(T, b, s, c, i, bd2)
<1> DEFINE U == SlotsOf(T, s)
           V == SlotsOf(T \ {b}, s)
<1>1. T \subseteq Block /\ word \in [Block -> Words]
  BY PlacedParts
<1>2. /\ \E f : FreeListIs(U, s, c, bd, word, f)
      /\ i \in U /\ s \in Span /\ b = <<s, i>>
      /\ bd \in Books
  BY SmallSpan
<1>3. PICK f : FreeListIs(U, s, c, bd, word, f)
  BY <1>2
<1>4. V = U \ {i} /\ U \subseteq Slot
  BY <1>1, <1>2, UsedDrop, UsedFacts
<1>5. U # {i}
  <2>1. IsFiniteSet(U) /\ Cardinality(U) = BlockCount[c] - bd.free_count
    BY <1>3, SlotsInUse
  <2>2. BlockCount[c] \in Nat /\ bd.free_count \in Nat
    BY <1>2, BlockSets DEF Books
  <2>3. ASSUME U = {i} PROVE FALSE
    <3>1. Cardinality(U) = 1
      BY <2>3, FS_Singleton
    <3> QED BY <3>1, <2>1, <2>2
  <2> QED BY <2>3
<1>6. word' \in [Block -> Words] /\ (\A x \in Block : x # b => word'[x] = word[x])
      /\ word'[<<s, i>>] = IndexWord(bd.free_list)
  <2>1. IndexWord(bd.free_list) \in Words
    BY <1>2, TypeFacts DEF Books
  <2>2. b \in Block
    BY <1>1
  <2> QED BY <1>1, <1>2, <2>1, <2>2 DEF WordSet
<1>7. SameFree(U, s, word, word')
  <2>1. ASSUME NEW j \in Slot \ U PROVE word'[<<s, j>>] = word[<<s, j>>]
    <3>1. <<s, j>> \in Block /\ <<s, j>> # b
      BY <1>2, BlockFacts
    <3> QED BY <3>1, <1>6
  <2> QED BY <2>1 DEF SameFree
<1>8. FreesTo(c, bd, i, bd2)
  BY DEF FreesTo, Freed
<1> HIDE DEF U, V
<1>13. i \in U /\ V = U \ {i} /\ word'[<<s, i>>] = IndexWord(bd.free_list)
  BY <1>2, <1>4, <1>6
<1>9. HasList(V, s, c, bd2, word')
  BY <1>3, <1>7, <1>8, <1>13, FreedList
<1>10. bd2.first_autolink \in 0..BlockCount[c] /\ bd2.free_count \in 1..BlockCount[c]
  <2>1. bd2.first_autolink \in 0..BlockCount[c]
    BY <1>3, <1>7, <1>8, <1>13, FreedList
  <2>2. bd2.free_count \in 1..BlockCount[c]
    BY <1>3, <1>7, <1>8, <1>13, FreedList
  <2> QED BY <2>1, <2>2
<1>11. i \in 0..Stale
  BY <1>2, <1>4, BlockSets
<1>12. bd2 \in Books /\ bd2.free_count \in Nat \ {0}
  <2>1. BlockCount[c] \in Nat /\ BlockCount[c] <= Stale /\ Stale \in Nat
    BY BlockSets
  <2>2. bd2.free_list = i
    BY <1>8 DEF FreesTo
  <2>3. /\ bd2.free_list \in 0..Stale /\ bd2.first_autolink \in 0..Stale
        /\ bd2.free_count \in 0..Stale /\ bd2.free_count \in Nat \ {0}
    BY <1>10, <1>11, <2>1, <2>2
  <2>4. bd2 = [free_list |-> bd2.free_list, first_autolink |-> bd2.first_autolink,
               free_count |-> bd2.free_count]
    BY DEF Freed
  <2> QED BY <2>3, <2>4 DEF Books
<1> QED BY <1>5, <1>6, <1>9, <1>11, <1>12 DEF U, V, FreedInSpan

\* The same for the whole state, with the span listed as partly used.
LEMMA FreeInSpanPlaced ==
  ASSUME NEW T, Placed(T), NEW h \in Heap, NEW b \in T, NEW s, s = SpanOf(b), span_heap[s] = h,
         NEW c \in SmallClass, size_class[s] = c, FreeInSpan(h, s, SlotOf(b), BlockData(h, s)),
         UNCHANGED <<global, mapped>>
  PROVE  Placed(T \ {b})' /\ OthersAlone(T \ {b}) /\ ActiveStays(h)
<1> DEFINE T2 == T \ {b}
           U == SlotsOf(T, s)
           i == SlotOf(b)
           bd == BlockData(h, s)
           bd2 == Freed(c, bd, i)
           S == SmallOf(T, span_heap, size_class, h, c)
           S2 == SmallOf(T2, span_heap', size_class', h, c)
           a == active[h][c]
           l == size_cache[h][c]
<1>1. /\ T \subseteq Block /\ UsedBy(T) \subseteq Span /\ Spare(T)
      /\ Table(active, Actives) /\ Table(size_cache, Seq(Span))
      /\ data \in [Span -> Books] /\ span_heap \in [Span -> HeapOrNone] /\ size_class \in [Span -> Nat]
      /\ ClassOk(S, a, l, data)
  BY PlacedParts
<1>2. /\ h # NoHeap /\ ~(SpanCount[s] > LargeClassCount) /\ SpanCount[s] = 1
      /\ i \in U /\ s \in UsedBy(T) /\ s \in Span /\ b = <<s, i>>
      /\ s \in S /\ bd \in Books
  BY SmallSpan
<1>3. /\ bd.free_count # BlockCount[c] - 1
      /\ word' = [word EXCEPT ![<<s, i>>] = IndexWord(bd.free_list)]
      /\ UNCHANGED <<span_cache, span_heap, size_class>>
      /\ IF IsActive(h, s)
         THEN active' = [active EXCEPT ![h][c] = ActiveSpan(s, bd2)] /\ UNCHANGED data
         ELSE data' = [data EXCEPT ![s] = bd2] /\ UNCHANGED active
      /\ IF bd.free_count = 0
         THEN size_cache' = [size_cache EXCEPT ![h][c] = <<s>> \o @]
         ELSE UNCHANGED size_cache
  BY DEF FreeInSpan
<1>4. /\ U # {i}
      /\ HasList(SlotsOf(T2, s), s, c, bd2, word')
      /\ bd2 \in Books /\ bd2.free_count \in Nat \ {0} /\ i \in 0..Stale
      /\ word' \in [Block -> Words]
      /\ \A x \in Block : x # b => word'[x] = word[x]
  <2>1. bd.free_count # BlockCount[c] - 1 /\ WordSet(<<s, i>>, IndexWord(bd.free_list))
    BY <1>3 DEF WordSet
  <2> HIDE DEF bd, bd2, i
  <2>2. i = SlotOf(b) /\ bd = BlockData(h, s) /\ bd2 = Freed(c, bd, i)
    BY DEF i, bd, bd2
  <2>3. FreedInSpan(T, b, s, c, i, bd2)
    BY <2>1, <2>2, FreeInSpanList
  <2> QED BY <2>3 DEF FreedInSpan
<1> HIDE DEF bd, bd2
<1>5. UsedBy(T2) = UsedBy(T) /\ SameBut(T, T2, s)
  BY <1>1, <1>4, UsedDrop
<1>6. SpanOf(b) = s /\ span_heap' = span_heap /\ size_class' = size_class /\ T2 \subseteq T
  BY <1>3
<1>7. Spare(T2)'
  BY <1>1, <1>3, <1>5, SpareKept
<1>8. Headed(T, span_heap, size_class, s, h, c) /\ Headed(T2, span_heap', size_class', s, h, c)
  BY <1>6 DEF Headed
<1>9. S2 = S /\ s \in UsedBy(T2)
  BY <1>2, <1>5, <1>6 DEF SmallOf
<1>10. OthersAlone(T2)
  BY <1>1, <1>4, <1>6 DEF OthersAlone
<1>11. ASSUME BlockData(span_heap[s], s)' = bd2
       PROVE  SpanOk(SlotsOf(T2, s), s, h, c, BlockData(span_heap[s], s)', word')
  BY <1>2, <1>4, <1>11 DEF SpanOk, SmallOk, HasList
<1>12. CASE IsActive(h, s)
  <2> DEFINE v == ActiveSpan(s, bd2)
  <2>1. a.span = s /\ a.free_count > 0 /\ bd.free_count = a.free_count
    BY <1>1, <1>2, <1>12 DEF IsActive, ClassOk, BlockData, bd
  <2>2. /\ v \in Actives /\ v.span = s /\ v.free_count = bd2.free_count
        /\ v.free_list = bd2.free_list /\ v.first_autolink = bd2.first_autolink
    BY <1>2, <1>4 DEF ActiveSpan, Actives, Books
  <2>3. SetAt(active, h, c, v, active') /\ data' = data
    BY <1>3, <1>12 DEF SetAt
  <2>4. size_cache' = size_cache
    <3>1. bd.free_count # 0
      BY <2>1, <1>2 DEF Books
    <3> QED BY <3>1, <1>3
  <2> HIDE DEF v, a, l, S, S2, T2
  <2>5. Table(active', Actives)
    BY <1>1, <2>2, <2>3, TableWritten
  <2>6. active'[h][c] = v
    BY <1>1, <2>2, <2>3, TableWritten
  <2>7. WritesAt(active, active', h, c)
    BY <1>1, <2>2, <2>3, TableWritten
  <2>8. \A k \in Heap \ {h} : active'[k] = active[k]
    BY <1>1, <2>2, <2>3, TableWritten
  <2>9. PlaceTypes'
    BY <1>1, <1>4, <1>6, <2>3, <2>4, <2>5, TypesTogether
  <2>10. ActiveGoes(S, s, a, active'[h][c])
    BY <2>1, <2>2, <2>6 DEF ActiveGoes
  <2>11. s \notin Range(l) /\ l \in Seq(Span) /\ NoRepeat(l)
    BY <1>1, <2>1 DEF ClassOk
  <2>12. ListGoes(s, l, size_cache'[h][c]) /\ s \notin Range(size_cache'[h][c])
    BY <2>4, <2>11 DEF ListGoes, l
  <2>13. active'[h][c].free_count > 0 /\ active'[h][c].span = s /\ s \in S2
    BY <1>2, <1>4, <1>9, <2>2, <2>6
  <2>14. WritesAt(size_cache, size_cache', h, c)
    BY <2>4 DEF WritesAt
  <2>15. OneSpan(s)
    BY <1>4, <1>6, <2>3 DEF OneSpan
  <2>16. BlockData(span_heap[s], s)' = bd2
    <3>1. BlockData(span_heap[s], s)' = [free_list |-> v.free_list, first_autolink |-> v.first_autolink,
            free_count |-> v.free_count]
      BY <1>6, <2>2, <2>6 DEF BlockData, IsActive
    <3> QED BY <3>1, <2>2, <1>4 DEF Books
  <2>17. SpanOk(SlotsOf(T2, s), s, h, c, BlockData(span_heap[s], s)', word')
    BY <1>11, <2>16
  <2>18. Placed(T2)'
    BY <1>2, <1>5, <1>7, <1>8, <1>9, <2>7, <2>9, <2>10, <2>12, <2>13, <2>14, <2>15, <2>17, PairStep
    DEF S, S2, a, l
  <2>19. a.free_count # 0
    BY <2>1, <1>2 DEF Books
  <2>20. ActiveStays(h)
    BY <2>7, <2>8, <2>19, ActiveWritten DEF a
  <2> QED BY <1>10, <2>18, <2>20 DEF T2
<1>13. CASE ~IsActive(h, s)
  <2>1. a.span # s /\ bd = data[s]
    BY <1>13 DEF IsActive, BlockData, bd
  <2>2. data' = [data EXCEPT ![s] = bd2] /\ active' = active
    BY <1>3, <1>13
  <2>3. data' \in [Span -> Books] /\ data'[s] = bd2 /\ \A x \in Span \ {s} : data'[x] = data[x]
    BY <1>1, <1>2, <1>4, <2>2
  <2>4. Range(l) = {x \in S : x # a.span /\ data[x].free_count > 0} /\ l \in Seq(Span) /\ NoRepeat(l)
    BY <1>1 DEF ClassOk
  <2>5. bd.free_count \in Nat
    BY <1>2 DEF Books
  <2>6. /\ Table(size_cache', Seq(Span)) /\ WritesAt(size_cache, size_cache', h, c)
        /\ ListGoes(s, l, size_cache'[h][c]) /\ s \in Range(size_cache'[h][c])
    <3>1. CASE bd.free_count = 0
      <4> DEFINE v == <<s>> \o l
      <4>1. SetAt(size_cache, h, c, v, size_cache')
        BY <1>3, <3>1 DEF SetAt
      <4>2. s \notin Range(l)
        BY <2>1, <2>4, <3>1
      <4>3. v \in Seq(Span) /\ Range(v) = {s} \cup Range(l) /\ NoRepeat(v)
        <5> HIDE DEF l
        <5>1. v \in Seq(Span)
          BY <1>2, <2>4, ConsFacts
        <5>2. Range(v) = {s} \cup Range(l)
          BY <1>2, <2>4, ConsRange
        <5>3. NoRepeat(l) /\ s \notin Range(l) => NoRepeat(v)
          BY <1>2, <2>4, ConsRange
        <5> QED BY <5>1, <5>2, <5>3, <2>4, <4>2
      <4> HIDE DEF v, l
      <4>4. Table(size_cache', Seq(Span))
        BY <1>1, <4>1, <4>3, TableWritten
      <4>5. size_cache'[h][c] = v
        BY <1>1, <4>1, <4>3, TableWritten
      <4>6. WritesAt(size_cache, size_cache', h, c)
        BY <1>1, <4>1, <4>3, TableWritten
      <4>7. ListGoes(s, l, v) /\ s \in Range(v)
        BY <4>3 DEF ListGoes
      <4> QED BY <4>4, <4>5, <4>6, <4>7
    <3>2. CASE bd.free_count # 0
      <4>1. size_cache' = size_cache
        BY <1>3, <3>2
      <4>2. s \in Range(l)
        BY <1>2, <2>1, <2>4, <2>5, <3>2
      <4>3. ListGoes(s, l, l)
        BY <2>4 DEF ListGoes
      <4> HIDE DEF l
      <4>4. size_cache'[h][c] = l
        BY <4>1 DEF l
      <4> QED BY <1>1, <4>1, <4>2, <4>3, <4>4, TableKept
    <3> QED BY <3>1, <3>2
  <2> HIDE DEF a, l, S, S2, T2
  <2>7. PlaceTypes'
    BY <1>1, <1>4, <1>6, <2>2, <2>3, <2>6, TypesTogether
  <2>8. ActiveGoes(S, s, a, active'[h][c]) /\ WritesAt(active, active', h, c)
    BY <2>2 DEF ActiveGoes, WritesAt, a
  <2>9. active'[h][c].free_count > 0 <=> active'[h][c].span \in S2
    BY <1>1, <1>9, <2>2 DEF ClassOk, a
  <2>10. s # active'[h][c].span /\ data'[s].free_count > 0
    BY <1>4, <2>1, <2>2, <2>3 DEF a
  <2>11. OneSpan(s)
    BY <1>4, <1>6, <2>3 DEF OneSpan
  <2>12. BlockData(span_heap[s], s)' = bd2
    <3>1. ~IsActive(h, s)'
      BY <1>6, <2>10 DEF IsActive
    <3>2. span_heap'[s] = h
      BY <1>6
    <3> QED BY <3>1, <3>2, <2>3 DEF BlockData
  <2>13. SpanOk(SlotsOf(T2, s), s, h, c, BlockData(span_heap[s], s)', word')
    BY <1>11, <2>12
  <2>14. Placed(T2)'
    BY <1>2, <1>5, <1>7, <1>8, <1>9, <2>6, <2>7, <2>8, <2>9, <2>10, <2>11, <2>13, PairStep
    DEF S, S2, a, l
  <2>15. ActiveStays(h)
    BY <2>2 DEF ActiveStays
  <2> QED BY <1>10, <2>14, <2>15 DEF T2
<1> QED BY <1>12, <1>13

\* The block of a large span is freed, and the span is free.
LEMMA FreeLargePlaced ==
  ASSUME NEW T, Placed(T), NEW h \in Heap, NEW b \in T, NEW s, s = SpanOf(b), span_heap[s] = h,
         size_class[s] \notin SmallClass, FreeLarge(h, s), UNCHANGED <<global, mapped>>
  PROVE  Placed(T \ {b})' /\ OthersAlone(T \ {b}) /\ ActiveStays(h)
<1> DEFINE T2 == T \ {b}
           n == SpanCount[s]
<1>1. /\ T \subseteq Block /\ UsedBy(T) \subseteq Span
      /\ Table(active, Actives) /\ Table(size_cache, Seq(Span))
  BY PlacedParts
<1>2. s \in UsedBy(T) /\ s \in Span /\ SlotOf(b) \in SlotsOf(T, s)
  BY <1>1, UsedDrop
<1>3. h # NoHeap
  BY HeapSets
<1>4. ~(n > LargeClassCount) /\ SlotsOf(T, s) = {0} /\ size_class[s] = ClassOf(n)
  BY <1>2, <1>3 DEF Placed, SpansOk, SpanOk, OtherOk
<1>5. n \in SpanUnits /\ Spans(size_class[s]) = n
  <2>1. n \in Nat \ {0} /\ SizeClassCount \in Nat /\ LargeClassCount \in Nat
    BY <1>2, SpanAssumption, BlockCountAssumption
  <2> QED BY <2>1, <1>4 DEF SpanUnits, Spans, ClassOf
<1>6. CacheInsert(h, n, s) /\ Forget(n, s) /\ UNCHANGED <<active, size_cache>>
  BY <1>5 DEF FreeLarge, CacheInsert
<1>7. SlotsOf(T, s) = {SlotOf(b)}
  BY <1>2, <1>4
<1>8. UsedBy(T2) = UsedBy(T) \ {s} /\ SameBut(T, T2, s)
  BY <1>1, <1>7, UsedDrop
<1>9. /\ OneSpan(s)
      /\ word' \in [Block -> Words] /\ data' \in [Span -> Books]
      /\ span_heap' \in [Span -> HeapOrNone] /\ size_class' \in [Span -> Nat]
  BY <1>2, <1>6, ForgetIs
<1>10. PlaceTypes'
  BY <1>1, <1>6, <1>9, TypesTogether
<1>11. Spare(T2)'
  BY <1>2, <1>3, <1>5, <1>6, <1>8, SpareFreed
<1>12. s \notin UsedBy(T2)
  BY <1>8
<1>13. ActiveMoves(T, s) /\ ClassesFollow(T, T2, s)
  BY <1>6, <1>12 DEF ActiveMoves, ClassesFollow, SmallOf
<1>14. Placed(T2)'
  BY <1>2, <1>8, <1>9, <1>10, <1>11, <1>12, <1>13, OneSpanStep
<1>15. OthersAlone(T2)
  BY <1>1, <1>2, <1>9, <1>12, AloneWithout
<1>16. ActiveStays(h)
  BY <1>6 DEF ActiveStays
<1> QED BY <1>14, <1>15, <1>16

\* A block given back to the heap its span names.
LEMMA FreeToHeapPlaced ==
  ASSUME NEW T, Placed(T), NEW h \in Heap, NEW b \in T, span_heap[SpanOf(b)] = h, FreeToHeap(h, b)
  PROVE  Placed(T \ {b})' /\ OthersAlone(T \ {b}) /\ ActiveStays(h)
<1> DEFINE s == SpanOf(b)
           c == size_class[s]
<1>1. UNCHANGED <<global, mapped>>
  BY DEF FreeToHeap
<1>2. CASE c \in SmallClass
  <2>1. FreeLast(h, s, BlockData(h, s)) \/ FreeInSpan(h, s, SlotOf(b), BlockData(h, s))
    BY <1>2 DEF FreeToHeap
  <2> QED BY <1>1, <1>2, <2>1, FreeLastPlaced, FreeInSpanPlaced
<1>3. CASE c \notin SmallClass
  <2>1. FreeLarge(h, s)
    BY <1>3 DEF FreeToHeap
  <2> QED BY <1>1, <1>3, <2>1, FreeLargePlaced
<1> QED BY <1>2, <1>3

\* A block larger than any class given back to the system.
LEMMA OversizedPlaced ==
  ASSUME NEW T, Placed(T), NEW b \in T, span_heap[SpanOf(b)] = NoHeap,
         mapped' = mapped \ {SpanOf(b)},
         UNCHANGED <<active, size_cache, data, word, span_cache, global, span_heap, size_class>>
  PROVE  Placed(T \ {b})' /\ OthersAlone(T \ {b})
<1> DEFINE T2 == T \ {b}
           s == SpanOf(b)
<1>1. /\ T \subseteq Block /\ UsedBy(T) \subseteq Span
      /\ Table(active, Actives) /\ Table(size_cache, Seq(Span))
      /\ word \in [Block -> Words] /\ data \in [Span -> Books]
      /\ span_heap \in [Span -> HeapOrNone] /\ size_class \in [Span -> Nat]
  BY PlacedParts
<1>2. s \in UsedBy(T) /\ s \in Span /\ SlotOf(b) \in SlotsOf(T, s)
  BY <1>1, UsedDrop
<1>3. SlotsOf(T, s) = {0}
  BY <1>2 DEF Placed, SpansOk, SpanOk, OtherOk
<1>4. SlotsOf(T, s) = {SlotOf(b)}
  BY <1>2, <1>3
<1>5. UsedBy(T2) = UsedBy(T) \ {s} /\ SameBut(T, T2, s)
  BY <1>1, <1>4, UsedDrop
<1>6. OneSpan(s)
  BY DEF OneSpan
<1>7. PlaceTypes'
  BY <1>1, TypesTogether
<1>8. Spare(T2)'
  <2>1. /\ FreeLists(span_cache, global)
        /\ mapped = UsedBy(T) \cup AllListed(span_cache, global)
        /\ UsedBy(T) \cap AllListed(span_cache, global) = {}
        /\ \A x \in AllListed(span_cache, global) : SpanCount[x] # 1 => span_heap[x] # NoHeap
    BY DEF Placed, Spare
  <2>2. mapped' = UsedBy(T2) \cup AllListed(span_cache, global)
    BY <1>2, <1>5, <2>1
  <2>3. UsedBy(T2) \cap AllListed(span_cache, global) = {}
    BY <1>5, <2>1
  <2> QED BY <2>1, <2>2, <2>3, SameSets DEF Spare
<1>9. s \notin UsedBy(T2)
  BY <1>5
<1>10. ActiveMoves(T, s)
  BY DEF ActiveMoves
<1>11. ClassesFollow(T, T2, s)
  <2>1. ASSUME NEW h \in Heap, NEW c \in SmallClass
        PROVE  /\ s \notin SmallOf(T, span_heap, size_class, h, c)
               /\ s \notin SmallOf(T2, span_heap', size_class', h, c)
    BY HeapSets DEF SmallOf
  <2> QED BY <2>1 DEF ClassesFollow
<1>12. Placed(T2)'
  BY <1>2, <1>5, <1>6, <1>7, <1>8, <1>9, <1>10, <1>11, OneSpanStep
<1>13. OthersAlone(T2)
  BY DEF OthersAlone
<1> QED BY <1>12, <1>13
-----------------------------------------------------------------------------
(* The steps, each with the blocks it hands out or takes back.               *)

LiveMoves ==
  \/ live' = live
  \/ \E b \in Block \ live : live' = live \cup {b}
  \/ \E b \in live : live' = live \ {b}

\* A step leaves the blocks T2 taken, the program's and those waiting (W), and
\* touches no block that was and is taken.
PoolTo(W, T2) ==
  /\ T2 = live' \cup W
  /\ Placed(T2)'
  /\ live' \cap W = {}
  /\ OthersAlone(W \cup (live \cap live'))
  /\ LiveMoves

\* Only heap h's active blocks change.
ActiveBy(h) == \A k \in Heap \ {h} : active'[k] = active[k]

\* What leaves the blocks X leaves fewer.
LEMMA AloneSubset ==
  ASSUME NEW X, OthersAlone(X), NEW Y, Y \subseteq X
  PROVE  OthersAlone(Y)
BY DEF OthersAlone

\* A step that hands out block b.
LEMMA PoolGives ==
  ASSUME NEW T, NEW W, T = live \cup W, W \cap live = {}, NEW b \in Block \ T, live' = live \cup {b},
         NEW T2, T2 = T \cup {b}, Placed(T2)', OthersAlone(T)
  PROVE  PoolTo(W, T2)
<1>1. OthersAlone(W \cup (live \cap live'))
  BY AloneSubset
<1>2. LiveMoves
  BY DEF LiveMoves
<1> QED BY <1>1, <1>2 DEF PoolTo

\* A step that takes block b back.
LEMMA PoolTakes ==
  ASSUME NEW T, NEW W, T = live \cup W, W \cap live = {}, NEW b \in live, live' = live \ {b},
         NEW T2, T2 = T \ {b}, Placed(T2)', OthersAlone(T2)
  PROVE  PoolTo(W, T2)
<1>1. OthersAlone(W \cup (live \cap live'))
  BY AloneSubset
<1>2. LiveMoves
  BY DEF LiveMoves
<1> QED BY <1>1, <1>2 DEF PoolTo

\* A step that moves no block.
LEMMA PoolStays ==
  ASSUME NEW T, NEW W, T = live \cup W, W \cap live = {}, live' = live, Placed(T)', OthersAlone(T)
  PROVE  PoolTo(W, T)
<1>1. OthersAlone(W \cup (live \cap live'))
  BY AloneSubset
<1>2. LiveMoves
  BY DEF LiveMoves
<1> QED BY <1>1, <1>2 DEF PoolTo

\* Handing out block b leaves the words of the others.
LEMMA WordsAlone ==
  ASSUME NEW T, Placed(T), NEW b \in Block \ T, word' = [word EXCEPT ![b] = Data],
         UNCHANGED <<span_heap, size_class>>
  PROVE  OthersAlone(T)
<1>1. word \in [Block -> Words] /\ T \subseteq Block
  BY PlacedParts
<1>2. \A x \in Block : x # b => word'[x] = word[x]
  BY <1>1, WordForgotten
<1> QED BY <1>1, <1>2 DEF OthersAlone

\* Allocation from the active span, as it changes the state.
LEMMA UseActiveBy ==
  ASSUME Table(active, Actives), NEW h \in Heap, NEW c \in SmallClass, NEW a, UseActive(h, c, a)
  PROVE  ActiveBy(h) /\ live' = live \cup {<<a.span, a.free_list>>}
                     /\ word' = [word EXCEPT ![<<a.span, a.free_list>>] = Data]
<1>1. \E v : active' = [active EXCEPT ![h][c] = v]
  BY DEF UseActive
<1>2. ActiveBy(h)
  BY <1>1 DEF ActiveBy, Table
<1> QED BY <1>2 DEF UseActive, HandOut

\* The block allocation takes from span s was free.
LEMMA UseActivePool ==
  ASSUME NEW T, Placed(T), NEW W, T = live \cup W, W \cap live = {},
         NEW h \in Heap, NEW c \in SmallClass,
         NEW s \in SmallOf(T, span_heap, size_class, h, c), NEW a \in Actives, a.span = s,
         a.free_count > 0, SameBooks(a, BlockData(h, s)), UseActive(h, c, a), UNCHANGED spanVars,
         Table(size_cache', Seq(Span)), WritesAt(size_cache, size_cache', h, c),
         ListGoes(s, size_cache[h][c], size_cache'[h][c]), s \notin Range(size_cache'[h][c]),
         active[h][c].span = s \/ active[h][c].span \notin SmallOf(T, span_heap, size_class, h, c)
  PROVE  (\E T2 : PoolTo(W, T2)) /\ ActiveBy(h)
<1> DEFINE b == <<s, a.free_list>>
<1>1. b \in Block \ T
  BY UseActivePlaced
<1>2. Placed(T \cup {b})'
  BY UseActivePlaced
<1>3. Table(active, Actives)
  BY PlacedParts
<1>4. /\ ActiveBy(h) /\ live' = live \cup {<<a.span, a.free_list>>}
      /\ word' = [word EXCEPT ![<<a.span, a.free_list>>] = Data]
  BY <1>3, UseActiveBy
<1>5. live' = live \cup {b} /\ word' = [word EXCEPT ![b] = Data]
  BY <1>4
<1> HIDE DEF b
<1>6. OthersAlone(T)
  <2>1. UNCHANGED <<span_heap, size_class>>
    BY DEF spanVars
  <2> QED BY <1>1, <1>5, <2>1, WordsAlone
<1>7. PoolTo(W, T \cup {b})
  BY <1>1, <1>2, <1>5, <1>6, PoolGives
<1> QED BY <1>4, <1>7

\* The same from the span that is active already.
LEMMA AllocActivePool ==
  ASSUME NEW T, Placed(T), NEW W, T = live \cup W, W \cap live = {},
         NEW h \in Heap, NEW c \in SmallClass, NEW a, a = active[h][c], a.free_count > 0,
         UseActive(h, c, a), UNCHANGED <<size_cache, spanVars>>
  PROVE  (\E T2 : PoolTo(W, T2)) /\ ActiveBy(h)
<1>1. /\ T \subseteq Block /\ Table(active, Actives) /\ Table(size_cache, Seq(Span))
      /\ ClassOk(SmallOf(T, span_heap, size_class, h, c), a, size_cache[h][c], data)
  BY PlacedParts
<1>2. PICK s : s = a.span
  OBVIOUS
<1>3. /\ s \in SmallOf(T, span_heap, size_class, h, c)
      /\ s \notin Range(size_cache[h][c]) /\ NoRepeat(size_cache[h][c])
  BY <1>1, <1>2 DEF ClassOk
<1>4. a \in Actives /\ size_cache[h][c] \in Seq(Span)
  BY <1>1 DEF Table
<1>5. SameBooks(a, BlockData(h, s))
  <2>1. size_class[s] = c
    BY <1>3 DEF SmallOf
  <2> QED BY <1>2, <2>1 DEF SameBooks, BlockData, IsActive
<1>6. size_cache' = size_cache /\ UNCHANGED spanVars
  OBVIOUS
<1>7. Table(size_cache', Seq(Span)) /\ WritesAt(size_cache, size_cache', h, c)
  BY <1>1, <1>6, TableKept
<1>8. ListGoes(s, size_cache[h][c], size_cache'[h][c]) /\ s \notin Range(size_cache'[h][c])
  BY <1>3, <1>4, <1>6 DEF ListGoes
<1>9. active[h][c].span = s /\ a.span = s
  BY <1>2
<1> QED BY <1>3, <1>4, <1>5, <1>6, <1>7, <1>8, <1>9, UseActivePool

\* The first partly used span becomes active.
LEMMA PromotePool ==
  ASSUME NEW T, Placed(T), NEW W, T = live \cup W, W \cap live = {},
         NEW h \in Heap, NEW c \in SmallClass, active[h][c].free_count = 0,
         size_cache[h][c] # <<>>, NEW s, s = Head(size_cache[h][c]),
         NEW a, a = ActiveSpan(s, data[s]), UseActive(h, c, a),
         NEW l, l = Tail(size_cache[h][c]), SetAt(size_cache, h, c, l, size_cache'),
         UNCHANGED spanVars
  PROVE  (\E T2 : PoolTo(W, T2)) /\ ActiveBy(h)
<1> DEFINE S == SmallOf(T, span_heap, size_class, h, c)
           k == size_cache[h][c]
<1>1. /\ Table(active, Actives) /\ Table(size_cache, Seq(Span)) /\ data \in [Span -> Books]
      /\ ClassOk(S, active[h][c], k, data)
  BY PlacedParts
<1>2. k \in Seq(Span) /\ NoRepeat(k) /\ active[h][c].span \notin S
      /\ \A x \in Range(k) : x \in S /\ x # active[h][c].span /\ data[x].free_count > 0
  <2> HIDE DEF S, k
  <2>1. Range(k) = {x \in S : x # active[h][c].span /\ data[x].free_count > 0}
    BY <1>1 DEF ClassOk
  <2>2. \A x \in Range(k) : x \in S /\ x # active[h][c].span /\ data[x].free_count > 0
    BY <2>1
  <2>3. k \in Seq(Span) /\ NoRepeat(k) /\ active[h][c].span \notin S
    BY <1>1 DEF ClassOk
  <2> QED BY <2>2, <2>3
<1>3. s \in Range(k) /\ Range(l) = Range(k) \ {s} /\ NoRepeat(l) /\ l \in Seq(Span)
  BY <1>2, TailRange, TailFacts
<1>4. s \in Span
  BY <1>2, <1>3, RangeFacts
<1>5. a \in Actives /\ a.span = s /\ SameBooks(a, data[s])
  <2>1. data[s] \in Books
    BY <1>1, <1>4
  <2> QED BY <1>4, <2>1 DEF Books, Actives, ActiveSpan, SameBooks
<1>6. a.free_count > 0
  BY <1>2, <1>3, <1>5 DEF SameBooks
<1>7. SameBooks(a, BlockData(h, s))
  <2>1. size_class[s] = c
    BY <1>2, <1>3 DEF SmallOf
  <2>2. BlockData(h, s) = data[s]
    BY <1>2, <1>3, <2>1 DEF BlockData, IsActive
  <2> QED BY <1>5, <2>2
<1> HIDE DEF S, k
<1>8. size_cache'[h][c] = l
  <2>1. h \in DOMAIN size_cache /\ c \in DOMAIN size_cache[h]
    BY <1>1 DEF Table
  <2> QED BY <2>1 DEF SetAt
<1>9. Table(size_cache', Seq(Span))
  BY <1>1, <1>3, TableWritten
<1>10. WritesAt(size_cache, size_cache', h, c)
  BY <1>1, <1>3, TableWritten
<1>11. ListGoes(s, size_cache[h][c], size_cache'[h][c]) /\ s \notin Range(size_cache'[h][c])
  BY <1>3, <1>8 DEF ListGoes, k
<1>12. s \in SmallOf(T, span_heap, size_class, h, c)
  BY <1>2, <1>3 DEF S
<1>13. active[h][c].span \notin SmallOf(T, span_heap, size_class, h, c)
  BY <1>2 DEF S
<1> QED BY <1>5, <1>6, <1>7, <1>9, <1>10, <1>11, <1>12, <1>13, UseActivePool

\* What a step that only writes span s0 leaves of blocks elsewhere.
LEMMA FirstAlone ==
  ASSUME NEW T, Placed(T), NEW s \in Span, s \notin UsedBy(T), HandOut(<<s, 0>>),
         \A x \in Span \ {s} : span_heap'[x] = span_heap[x] /\ size_class'[x] = size_class[x]
  PROVE  OthersAlone(T)
<1> DEFINE b == <<s, 0>>
<1>1. T \subseteq Block /\ word \in [Block -> Words]
  BY PlacedParts
<1>2. b \in Block \ T
  BY <1>1, FirstBlock
<1>3. word' = [word EXCEPT ![b] = Data]
  BY DEF HandOut
<1> HIDE DEF b
<1>4. \A x \in Block : x # b => word'[x] = word[x]
  BY <1>1, <1>2, <1>3, WordForgotten
<1>5. \A x \in T : x # b /\ x \in Block /\ SpanOf(x) \in Span \ {s}
  BY <1>1, <1>2, BlockFacts DEF UsedBy
<1> QED BY <1>4, <1>5 DEF OthersAlone

\* A free span becomes active, its first block handed out.
LEMMA NewSpanPool ==
  ASSUME NEW T, Placed(T), NEW W, T = live \cup W, W \cap live = {}, workload \in Workload,
         NEW h \in Heap, NEW c \in SmallClass, NEW s,
         FromCache(h, 1, s) \/ FromGlobal(h, 1, s) \/ FromSystem(h, 1, s),
         Owned(h, c, s), UNCHANGED <<size_cache, data>>, HandOut(<<s, 0>>),
         NEW v, v = [span |-> s, free_list |-> 1, first_autolink |-> 1, free_count |-> BlockCount[c] - 1],
         SetAt(active, h, c, v, active'),
         active[h][c].free_count = 0, size_cache[h][c] = <<>>
  PROVE  (\E T2 : PoolTo(W, T2)) /\ ActiveBy(h)
<1>1. Spare(T) /\ Table(active, Actives) /\ span_heap \in [Span -> HeapOrNone]
      /\ size_class \in [Span -> Nat]
  BY PlacedParts
<1>2. SpanTaken(T, 1, s)
  BY <1>1, UnitFacts, SpanSources
<1>3. <<s, 0>> \in Block \ T
  <2>1. T \subseteq Block /\ s \in Span /\ s \notin UsedBy(T)
    BY <1>2, PlacedParts DEF SpanTaken
  <2> QED BY <2>1, FirstBlock
<1>4. Placed(T \cup {<<s, 0>>})'
  BY <1>2, NewSpanPlaced
<1>5. s \in Span /\ s \notin UsedBy(T)
  BY <1>2 DEF SpanTaken
<1>6. \A x \in Span \ {s} : span_heap'[x] = span_heap[x] /\ size_class'[x] = size_class[x]
  BY <1>1 DEF Owned
<1>7. OthersAlone(T)
  BY <1>5, <1>6, FirstAlone
<1>8. live' = live \cup {<<s, 0>>}
  BY DEF HandOut
<1>9. PoolTo(W, T \cup {<<s, 0>>})
  BY <1>3, <1>4, <1>7, <1>8, PoolGives
<1>10. ActiveBy(h)
  BY <1>1 DEF ActiveBy, SetAt, Table
<1> QED BY <1>9, <1>10

\* A free span becomes a large block, or a new one an oversized block.
LEMMA OtherPool ==
  ASSUME NEW T, Placed(T), NEW W, T = live \cup W, W \cap live = {},
         NEW n, NEW s, SpanTaken(T, n, s), HandOut(<<s, 0>>),
         UNCHANGED <<active, size_cache, data>>,
         span_heap' \in [Span -> HeapOrNone], size_class' \in [Span -> Nat],
         \A x \in Span \ {s} : span_heap'[x] = span_heap[x] /\ size_class'[x] = size_class[x],
         span_heap'[s] = NoHeap <=> n > LargeClassCount,
         span_heap'[s] # NoHeap => size_class'[s] = ClassOf(n)
  PROVE  (\E T2 : PoolTo(W, T2)) /\ \A h \in Heap : ActiveBy(h)
<1>1. <<s, 0>> \in Block \ T
  BY OtherTaken
<1>2. Placed(T \cup {<<s, 0>>})'
  BY OtherTaken
<1>3. s \in Span /\ s \notin UsedBy(T)
  BY DEF SpanTaken
<1>4. OthersAlone(T)
  BY <1>3, FirstAlone
<1>5. live' = live \cup {<<s, 0>>}
  BY DEF HandOut
<1>6. PoolTo(W, T \cup {<<s, 0>>})
  BY <1>1, <1>2, <1>4, <1>5, PoolGives
<1> QED BY <1>6 DEF ActiveBy
-----------------------------------------------------------------------------
\* The least number of a set is in it.
LEMMA SmallestIn ==
  ASSUME NEW S, S \subseteq Nat, S # {}
  PROVE  Smallest(S) \in S
<1>1. \E x \in S : \A y \in S : x <= y
  BY LeastElement
<1> QED BY <1>1 DEF Smallest

\* A span from a heap's cache becomes a large block of the cache's size.
LEMMA LargeCachedPool ==
  ASSUME NEW T, Placed(T), NEW W, T = live \cup W, W \cap live = {}, workload \in Workload,
         NEW h \in Heap, NEW m \in SpanUnits, NEW s, FromCache(h, m, s),
         size_class' = [size_class EXCEPT ![s] = ClassOf(m)],
         span_heap' = IF m = 1 THEN [span_heap EXCEPT ![s] = h] ELSE span_heap,
         HandOut(<<s, 0>>), UNCHANGED <<active, size_cache, data>>
  PROVE  (\E T2 : PoolTo(W, T2)) /\ \A k \in Heap : ActiveBy(k)
<1>1. Spare(T) /\ span_heap \in [Span -> HeapOrNone] /\ size_class \in [Span -> Nat]
  BY PlacedParts
<1>2. SpanTaken(T, m, s)
  BY <1>1, SpanSources
<1>3. s \in Span /\ SpanCount[s] = m
  BY <1>2 DEF SpanTaken
<1>4. s \in AllListed(span_cache, global)
  <2>1. FreeLists(span_cache, global)
    BY <1>1 DEF Spare
  <2>2. Without(AllListed(span_cache, global), s, AllListed(span_cache', global))
    BY <2>1, FromCacheIs
  <2> QED BY <2>2 DEF Without
<1>5. h \in HeapOrNone /\ h # NoHeap /\ SizeClassCount \in Nat /\ m \in Nat /\ m >= 1
      /\ m <= LargeClassCount /\ LargeClassCount \in Nat
  BY HeapSets, UnitFacts, BlockCountAssumption DEF SpanUnits
<1>6. ClassOf(m) \in Nat
  BY <1>5 DEF ClassOf
<1>7. span_heap' \in [Span -> HeapOrNone] /\ size_class' \in [Span -> Nat]
      /\ \A x \in Span \ {s} : span_heap'[x] = span_heap[x] /\ size_class'[x] = size_class[x]
  <2>1. size_class' \in [Span -> Nat] /\ \A x \in Span \ {s} : size_class'[x] = size_class[x]
    BY <1>1, <1>6
  <2>2. CASE m = 1
    BY <2>1, <2>2, <1>1, <1>5
  <2>3. CASE m # 1
    BY <2>1, <2>3, <1>1
  <2> QED BY <2>2, <2>3
<1>8. span_heap'[s] # NoHeap
  <2>1. CASE m = 1
    BY <2>1, <1>1, <1>3, <1>5
  <2>2. CASE m # 1
    BY <2>2, <1>1, <1>3, <1>4 DEF Spare
  <2> QED BY <2>1, <2>2
<1>9. size_class'[s] = ClassOf(m)
  BY <1>1, <1>3
<1>10. span_heap'[s] = NoHeap <=> m > LargeClassCount
  BY <1>5, <1>8
<1> QED BY <1>2, <1>7, <1>9, <1>10, OtherPool

\* A span from the global cache or the system becomes a large block.
LEMMA LargeNewPool ==
  ASSUME NEW T, Placed(T), NEW W, T = live \cup W, W \cap live = {}, workload \in Workload,
         NEW h \in Heap, NEW n \in SpanUnits, NEW c, c = ClassOf(n), NEW s,
         FromGlobal(h, n, s) \/ FromSystem(h, n, s), Owned(h, c, s),
         HandOut(<<s, 0>>), UNCHANGED <<active, size_cache, data>>
  PROVE  (\E T2 : PoolTo(W, T2)) /\ \A k \in Heap : ActiveBy(k)
<1>1. Spare(T) /\ span_heap \in [Span -> HeapOrNone] /\ size_class \in [Span -> Nat]
  BY PlacedParts
<1>2. SpanTaken(T, n, s)
  BY <1>1, SpanSources
<1>3. s \in Span
  BY <1>2 DEF SpanTaken
<1>5. h \in HeapOrNone /\ h # NoHeap /\ SizeClassCount \in Nat /\ n \in Nat /\ n >= 1
      /\ n <= LargeClassCount /\ LargeClassCount \in Nat
  BY HeapSets, UnitFacts, BlockCountAssumption DEF SpanUnits
<1>6. c \in Nat
  BY <1>5 DEF ClassOf
<1>7. span_heap' \in [Span -> HeapOrNone] /\ size_class' \in [Span -> Nat]
      /\ \A x \in Span \ {s} : span_heap'[x] = span_heap[x] /\ size_class'[x] = size_class[x]
  BY <1>1, <1>5, <1>6 DEF Owned
<1>8. span_heap'[s] = h /\ size_class'[s] = c
  BY <1>1, <1>3 DEF Owned
<1>9. span_heap'[s] # NoHeap => size_class'[s] = ClassOf(n)
  BY <1>8
<1>10. span_heap'[s] = NoHeap <=> n > LargeClassCount
  BY <1>5, <1>8
<1> QED BY <1>2, <1>7, <1>9, <1>10, OtherPool

\* A block mapped for itself.
LEMMA OversizedPool ==
  ASSUME NEW T, Placed(T), NEW W, T = live \cup W, W \cap live = {}, workload \in Workload,
         NEW n, n > LargeClassCount, NEW s, MapSpan(n, s),
         span_heap' = [span_heap EXCEPT ![s] = NoHeap],
         HandOut(<<s, 0>>), UNCHANGED <<active, size_cache, data, size_class>>
  PROVE  (\E T2 : PoolTo(W, T2)) /\ \A k \in Heap : ActiveBy(k)
<1>1. Spare(T) /\ span_heap \in [Span -> HeapOrNone] /\ size_class \in [Span -> Nat]
  BY PlacedParts
<1>2. s \in Span /\ s \notin mapped /\ SpanCount[s] = n /\ UNCHANGED <<global, span_cache>>
      /\ mapped' = mapped \cup {s}
  BY WorkloadAssumption DEF MapSpan
<1>3. SpanTaken(T, n, s)
  <2>1. mapped = UsedBy(T) \cup AllListed(span_cache, global) /\ FreeLists(span_cache, global)
    BY <1>1 DEF Spare
  <2>2. FreeLists(span_cache', global') /\ AllListed(span_cache', global') = AllListed(span_cache, global)
    BY <1>2, <2>1
  <2> QED BY <1>2, <2>1, <2>2 DEF SpanTaken
<1>4. span_heap' \in [Span -> HeapOrNone] /\ size_class' \in [Span -> Nat]
      /\ \A x \in Span \ {s} : span_heap'[x] = span_heap[x] /\ size_class'[x] = size_class[x]
  <2>1. NoHeap \in HeapOrNone
    BY HeapSets
  <2> QED BY <1>1, <2>1
<1>5. span_heap'[s] = NoHeap
  BY <1>1, <1>2
<1>6. span_heap'[s] = NoHeap <=> n > LargeClassCount
  BY <1>5
<1>7. span_heap'[s] # NoHeap => size_class'[s] = ClassOf(n)
  BY <1>5
<1> QED BY <1>3, <1>4, <1>6, <1>7, OtherPool
-----------------------------------------------------------------------------
\* A free to the own heap takes a block of the program back.
LEMMA FreePool ==
  ASSUME NEW T, Placed(T), NEW W, T = live \cup W, W \cap live = {},
         NEW h \in Heap, NEW b \in live, span_heap[SpanOf(b)] = h, FreeToHeap(h, b),
         live' = live \ {b}
  PROVE  (\E T2 : PoolTo(W, T2)) /\ ActiveBy(h)
<1>1. b \in T
  OBVIOUS
<1>2. Placed(T \ {b})'
  BY <1>1, FreeToHeapPlaced
<1>3. OthersAlone(T \ {b}) /\ ActiveStays(h)
  BY <1>1, FreeToHeapPlaced
<1>4. PoolTo(W, T \ {b})
  BY <1>2, <1>3, PoolTakes
<1> QED BY <1>3, <1>4 DEF ActiveStays, ActiveBy

\* An oversized block goes back to the system.
LEMMA FreeOversizedPool ==
  ASSUME NEW T, Placed(T), NEW W, T = live \cup W, W \cap live = {},
         NEW b \in live, span_heap[SpanOf(b)] = NoHeap, mapped' = mapped \ {SpanOf(b)},
         UNCHANGED <<active, size_cache, data, word, span_cache, global, span_heap, size_class>>,
         live' = live \ {b}
  PROVE  (\E T2 : PoolTo(W, T2)) /\ \A k \in Heap : ActiveBy(k)
<1>1. b \in T
  OBVIOUS
<1>2. Placed(T \ {b})'
  BY <1>1, OversizedPlaced
<1>3. OthersAlone(T \ {b})
  BY <1>1, OversizedPlaced
<1>4. PoolTo(W, T \ {b})
  BY <1>2, <1>3, PoolTakes
<1> QED BY <1>4 DEF ActiveBy

\* Free spans move from list to list, or are unmapped.
LEMMA ListsPool ==
  ASSUME NEW T, Placed(T), NEW W, T = live \cup W, W \cap live = {}, live' = live,
         UNCHANGED <<active, size_cache, data, word, span_heap, size_class>>,
         FreeLists(span_cache', global'),
         AllListed(span_cache', global') \subseteq AllListed(span_cache, global),
         mapped' = mapped \ (AllListed(span_cache, global) \ AllListed(span_cache', global'))
  PROVE  (\E T2 : PoolTo(W, T2)) /\ \A k \in Heap : ActiveBy(k)
<1>1. Placed(T)'
  BY ListsPlaced
<1>2. OthersAlone(T)
  BY DEF OthersAlone
<1>3. PoolTo(W, T)
  BY <1>1, <1>2, PoolStays
<1> QED BY <1>3 DEF ActiveBy

\* A step that leaves the heaps and spans alone.
LEMMA SamePool ==
  ASSUME NEW T, Placed(T), NEW W, T = live \cup W, W \cap live = {}, UNCHANGED live,
         UNCHANGED <<ownVars, spanVars>>
  PROVE  (\E T2 : PoolTo(W, T2)) /\ \A k \in Heap : ActiveBy(k)
<1>1. FreeLists(span_cache, global)
  BY PlacedParts DEF Spare
<1>2. UNCHANGED <<active, size_cache, data, word, span_cache, global, span_heap, size_class, mapped>>
  BY DEF ownVars, spanVars
<1>3. FreeLists(span_cache', global')
  BY <1>1, <1>2
<1>4. AllListed(span_cache', global') = AllListed(span_cache, global)
  BY <1>2
<1>5. mapped' = mapped \ (AllListed(span_cache, global) \ AllListed(span_cache', global'))
  BY <1>2, <1>4
<1>6. live' = live
  OBVIOUS
<1> QED BY <1>2, <1>3, <1>4, <1>5, <1>6, ListsPool

SameListed(sc, gl, sd, gm) == AllListed(sd, gm) = AllListed(sc, gl)

\* Part of a cache moved to the global cache, with the free spans the same.
LEMMA GlobalPutKeeps ==
  ASSUME NEW sc, NEW gl, FreeLists(sc, gl), NEW h \in Heap, NEW n \in SpanUnits,
         NEW y \in Seq(Seq(Span)), Shifted(y, gl[n]), NEW z \in Seq(Span),
         y[1] # <<>>, NoRepeat(y[1]), NoRepeat(z), Range(y[1]) \cap Range(z) = {},
         Range(y[1]) \cup Range(z) = Range(sc[h][n]),
         NEW sd, CacheSet(sc, h, n, z, sd), NEW gm, GlobalSet(gl, n, y, gm)
  PROVE  SameListed(sc, gl, sd, gm)
<1>1. AllListed(sd, gm) = AllListed(sc, gl)
  BY GlobalPut
<1> QED BY <1>1 DEF SameListed

\* A cache released to the global cache.
LEMMA ReleasePool ==
  ASSUME NEW T, Placed(T), NEW W, T = live \cup W, W \cap live = {}, UNCHANGED live,
         NEW h \in Heap, NEW n, n = Smallest(NonEmpty(h)), NonEmpty(h) # {},
         NEW l, l = span_cache[h][n],
         NEW k, k = IF Len(l) > MaxRelease THEN MaxRelease ELSE Len(l),
         GlobalInsert(n, SubSeq(l, 1, k)),
         span_cache' = [span_cache EXCEPT ![h][n] = SubSeq(l, k + 1, Len(l))],
         UNCHANGED <<ownVars, span_heap, size_class, mapped>>
  PROVE  (\E T2 : PoolTo(W, T2)) /\ \A j \in Heap : ActiveBy(j)
<1> DEFINE a == SubSeq(l, 1, k)
           z == SubSeq(l, k + 1, Len(l))
           y == <<a>> \o global[n]
<1>1. FreeLists(span_cache, global)
  BY PlacedParts DEF Spare
<1>2. n \in NonEmpty(h) /\ n \in SpanUnits /\ l # <<>>
  <2>1. NonEmpty(h) \subseteq Nat
    BY UnitFacts DEF NonEmpty, SpanUnits
  <2>2. n \in NonEmpty(h)
    BY <2>1, SmallestIn
  <2> QED BY <2>2 DEF NonEmpty, SpanUnits
<1>3. l \in Seq(Span) /\ global[n] \in Seq(Seq(Span)) /\ NoRepeat(l)
  <2>1. ListTypes(span_cache, global) /\ ListsOf(span_cache, global, n)
    BY <1>1, <1>2 DEF FreeLists
  <2> QED BY <1>2, <2>1 DEF ListTypes, CacheType, ListsOf, Once
<1>4. Len(l) \in Nat /\ Len(l) >= 1 /\ MaxRelease \in Nat /\ MaxRelease >= 1
  BY <1>2, <1>3, SpanAssumption
<1>5. k \in 1..Len(l) /\ k \in 0..Len(l)
  BY <1>4
<1>6. a \in Seq(Span) /\ Len(a) = k /\ z \in Seq(Span)
  <2>1. \A s \in Seq(Span) : \A m \in 0..Len(s) :
          SubSeq(s, 1, m) \in Seq(Span) /\ Len(SubSeq(s, 1, m)) = m /\ SubSeq(s, m + 1, Len(s)) \in Seq(Span)
    BY SplitFacts
  <2> QED BY <1>3, <1>5, <2>1
<1>7. NoRepeat(a) /\ NoRepeat(z) /\ Range(a) \cap Range(z) = {} /\ Range(a) \cup Range(z) = Range(l)
  BY <1>3, <1>5, SplitRange
<1>8. a # <<>>
  BY <1>5, <1>6
<1> HIDE DEF a, z
<1>9. y \in Seq(Seq(Span)) /\ y[1] = a /\ Shifted(y, global[n])
  <2> DEFINE g == global[n]
  <2>1. a \in Seq(Span) /\ g \in Seq(Seq(Span))
    BY <1>3, <1>6
  <2> HIDE DEF g
  <2>2. /\ <<a>> \o g \in Seq(Seq(Span)) /\ Len(g) \in Nat
        /\ Len(<<a>> \o g) = Len(g) + 1 /\ (<<a>> \o g)[1] = a
        /\ \A i \in 2..(Len(g) + 1) : (<<a>> \o g)[i] = g[i - 1]
    BY <2>1, ConsFacts
  <2>3. ASSUME NEW i \in 1..Len(g) PROVE (<<a>> \o g)[i + 1] = g[i]
    BY <2>2
  <2>4. Shifted(<<a>> \o g, g)
    BY <2>2, <2>3 DEF Shifted
  <2> QED BY <2>2, <2>4 DEF g
<1>10. GlobalSet(global, n, y, global') /\ CacheSet(span_cache, h, n, z, span_cache')
  <2>1. GlobalSet(global, n, y, global')
    BY DEF GlobalInsert, GlobalSet, a
  <2>2. CacheSet(span_cache, h, n, z, span_cache')
    BY DEF CacheSet, z
  <2> QED BY <2>1, <2>2
<1> HIDE DEF y
<1>11. /\ y[1] # <<>> /\ NoRepeat(y[1]) /\ Range(y[1]) \cap Range(z) = {}
       /\ Range(y[1]) \cup Range(z) = Range(span_cache[h][n])
  BY <1>7, <1>8, <1>9
<1>12. FreeLists(span_cache', global')
  BY <1>1, <1>2, <1>6, <1>7, <1>9, <1>10, <1>11, GlobalPut
<1>13. AllListed(span_cache', global') = AllListed(span_cache, global)
  <2>1. SameListed(span_cache, global, span_cache', global')
    BY <1>1, <1>2, <1>6, <1>7, <1>9, <1>10, <1>11, GlobalPutKeeps
  <2> QED BY <2>1 DEF SameListed
<1>14. UNCHANGED <<active, size_cache, data, word, span_heap, size_class, mapped>> /\ live' = live
  BY DEF ownVars
<1>15. mapped' = mapped \ (AllListed(span_cache, global) \ AllListed(span_cache', global'))
  BY <1>13, <1>14
<1> QED BY <1>12, <1>13, <1>14, <1>15, ListsPool

\* A heap's caches are unmapped.
LEMMA UnmapPool ==
  ASSUME NEW T, Placed(T), NEW W, T = live \cup W, W \cap live = {}, UNCHANGED live,
         NEW h \in Heap, mapped' = mapped \ SpansIn(span_cache[h]),
         NEW e, e = [n \in SpanUnits |-> <<>>], span_cache' = [span_cache EXCEPT ![h] = e],
         UNCHANGED <<ownVars, global, span_heap, size_class>>
  PROVE  (\E T2 : PoolTo(W, T2)) /\ \A j \in Heap : ActiveBy(j)
<1>1. FreeLists(span_cache, global)
  BY PlacedParts DEF Spare
<1>2. FreeLists(span_cache', global)
  BY <1>1, CacheEmptied
<1>3. AllListed(span_cache', global) = AllListed(span_cache, global) \ SpansIn(span_cache[h])
  BY <1>1, CacheEmptied
<1>4. SpansIn(span_cache[h]) \subseteq AllListed(span_cache, global)
  <2>1. DOMAIN span_cache[h] = SpanUnits
    BY <1>1 DEF FreeLists, ListTypes, CacheType
  <2> QED BY <2>1 DEF SpansIn, AllListed, Listed
<1>5. UNCHANGED <<active, size_cache, data, word, global, span_heap, size_class>> /\ live' = live
  BY DEF ownVars
<1>6. FreeLists(span_cache', global')
      /\ AllListed(span_cache', global') = AllListed(span_cache, global) \ SpansIn(span_cache[h])
  BY <1>2, <1>3, <1>5
<1>7. mapped' = mapped \ (AllListed(span_cache, global) \ AllListed(span_cache', global'))
  BY <1>4, <1>6
<1>8. AllListed(span_cache', global') \subseteq AllListed(span_cache, global)
  BY <1>6
<1> QED BY <1>5, <1>6, <1>7, <1>8, ListsPool

\* The global caches are unmapped.
LEMMA UnmapGlobalPool ==
  ASSUME NEW T, Placed(T), NEW W, T = live \cup W, W \cap live = {}, UNCHANGED live,
         mapped' = mapped \ UNION {SpansIn(global[n]) : n \in SpanUnits},
         global' = [n \in SpanUnits |-> <<>>],
         UNCHANGED <<ownVars, span_cache, span_heap, size_class>>
  PROVE  (\E T2 : PoolTo(W, T2)) /\ \A j \in Heap : ActiveBy(j)
<1> DEFINE G == UNION {SpansIn(global[n]) : n \in SpanUnits}
<1>1. FreeLists(span_cache, global)
  BY PlacedParts DEF Spare
<1>2. FreeLists(span_cache, global')
  BY <1>1, GlobalEmptied
<1>3. AllListed(span_cache, global') = AllListed(span_cache, global) \ G
  BY <1>1, GlobalEmptied
<1>4. G \subseteq AllListed(span_cache, global)
  BY DEF AllListed, Listed
<1>5. UNCHANGED <<active, size_cache, data, word, span_cache, span_heap, size_class>> /\ live' = live
  BY DEF ownVars
<1>6. mapped' = mapped \ G
  OBVIOUS
<1> HIDE DEF G
<1>7. FreeLists(span_cache', global')
      /\ AllListed(span_cache', global') = AllListed(span_cache, global) \ G
  BY <1>2, <1>3, <1>5
<1>8. mapped' = mapped \ (AllListed(span_cache, global) \ AllListed(span_cache', global'))
  BY <1>4, <1>6, <1>7
<1>9. AllListed(span_cache', global') \subseteq AllListed(span_cache, global)
  BY <1>7
<1> QED BY <1>5, <1>7, <1>8, <1>9, ListsPool
-----------------------------------------------------------------------------
(* Deferred frees.  A heap or a thread holds a list of blocks, linked        *)
(* through their first words: what is queued on the heap, what the thread is *)
(* queueing or working off.                                                  *)

Holder == ({"heap"} \X Heap) \cup ({"thread"} \X Thread)
OfHeap(h) == <<"heap", h>>
OfThread(t) == <<"thread", t>>

\* The i-th block of a list, and a word b that leads to the list.
BlockAt(l, i) == IF i \in 1..Len(l) THEN l[i] ELSE Null
Leads(b, l) == b = BlockAt(l, 1) /\ \A i \in 1..Len(l) : word[l[i]] = BlockAt(l, i + 1)
Belongs(l, h) == \A b \in Range(l) : span_heap[SpanOf(b)] = h

Apart(L) ==
  /\ L \in [Holder -> Seq(Block)]
  /\ \A x \in Holder : NoRepeat(L[x])
  /\ \A x, y \in Holder : x # y => NoShare(L[x], L[y])
Waiting(L) == UNION {Range(L[x]) : x \in Holder}

QueueOk(h, l) == Leads(defer[h], l) /\ Belongs(l, h)
HandOk(t, l) ==
  /\ at[t] = "defer" => p[t] \in Block /\ l = <<p[t]>> /\ span_heap[SpanOf(p[t])] # NoHeap
  /\ at[t] = "drain" => l # <<>> /\ Leads(p[t], l) /\ Belongs(l, HeapOf(t))
  /\ at[t] \notin {"defer", "drain"} => l = <<>>
  /\ at[t] = "take" => p[t] \in Block

Deferral(L) ==
  /\ Apart(L)
  /\ \A h \in Heap : QueueOk(h, L[OfHeap(h)])
  /\ \A t \in Thread : HandOk(t, L[OfThread(t)])

OthersStay(t) ==
  \A u \in Thread \ {t} : /\ at'[u] = at[u] /\ p'[u] = p[u]
                          /\ at[u] = "drain" => HeapOf(u)' = HeapOf(u)

\* Heaps and threads are different holders.
LEMMA Holders ==
  /\ \A h \in Heap : OfHeap(h) \in Holder
  /\ \A t \in Thread : OfThread(t) \in Holder
  /\ \A h \in Heap, t \in Thread : OfHeap(h) # OfThread(t)
  /\ \A h, k \in Heap : OfHeap(h) = OfHeap(k) => h = k
  /\ \A t, u \in Thread : OfThread(t) = OfThread(u) => t = u
BY DEF Holder, OfHeap, OfThread

\* The list of a holder.
LEMMA ListFacts ==
  ASSUME NEW L, Apart(L), NEW x \in Holder
  PROVE  /\ L[x] \in Seq(Block) /\ NoRepeat(L[x])
         /\ Range(L[x]) \subseteq Waiting(L) /\ Range(L[x]) \subseteq Block
<1>1. L[x] \in Seq(Block)
  BY DEF Apart
<1>2. Range(L[x]) \subseteq Block
  BY <1>1, RangeFacts
<1> QED BY <1>1, <1>2 DEF Apart, Waiting

\* The list of one block.
LEMMA OneBlock ==
  ASSUME NEW b \in Block
  PROVE  <<b>> \in Seq(Block) /\ Len(<<b>>) = 1 /\ <<b>>[1] = b /\ Range(<<b>>) = {b} /\ NoRepeat(<<b>>)
<1>1. <<b>> \in Seq(Block) /\ Len(<<b>>) = 1 /\ <<b>>[1] = b
  OBVIOUS
<1>2. Range(<<b>>) = {<<b>>[i] : i \in 1..1}
  BY <1>1, RangeFacts
<1>3. \A i \in 1..1 : i = 1
  OBVIOUS
<1>4. Range(<<b>>) = {b}
  BY <1>1, <1>2, <1>3
<1>5. NoRepeat(<<b>>)
  BY <1>1, <1>3 DEF NoRepeat
<1> QED BY <1>1, <1>4, <1>5

\* A list whose blocks and their headers no one writes.
LEMMA LeadsKept ==
  ASSUME NEW l \in Seq(Block), NEW b, Leads(b, l), NEW X, Range(l) \subseteq X, OthersAlone(X)
  PROVE  Leads(b, l)'
<1>1. \A i \in 1..Len(l) : l[i] \in X
  BY RangeFacts
<1>2. \A i \in 1..Len(l) : word'[l[i]] = word[l[i]]
  BY <1>1 DEF OthersAlone
<1> QED BY <1>2 DEF Leads, BlockAt

\* Blocks left alone stay blocks of their heap.
LEMMA BelongsKept ==
  ASSUME NEW l \in Seq(Block), NEW h, Belongs(l, h), NEW X, Range(l) \subseteq X, OthersAlone(X)
  PROVE  Belongs(l, h)'
BY DEF Belongs, OthersAlone

\* The list of a heap that no step touches.
LEMMA QueueKept ==
  ASSUME NEW h \in Heap, NEW l \in Seq(Block), QueueOk(h, l), defer'[h] = defer[h],
         NEW X, Range(l) \subseteq X, OthersAlone(X)
  PROVE  QueueOk(h, l)'
<1>1. PICK b : b = defer[h]
  OBVIOUS
<1>2. Leads(b, l)' /\ Belongs(l, h)'
  <2>1. Leads(b, l) /\ Belongs(l, h)
    BY <1>1 DEF QueueOk
  <2>2. Leads(b, l)'
    BY <2>1, LeadsKept
  <2>3. Belongs(l, h)'
    BY <2>1, BelongsKept
  <2> QED BY <2>2, <2>3
<1>3. defer'[h] = b
  BY <1>1
<1> QED BY <1>2, <1>3 DEF QueueOk, Leads

\* The list at hand of a thread that takes no step.
LEMMA HandKept ==
  ASSUME NEW t \in Thread, NEW l \in Seq(Block), HandOk(t, l), at'[t] = at[t], p'[t] = p[t],
         at[t] = "drain" => HeapOf(t)' = HeapOf(t), NEW X, Range(l) \subseteq X, OthersAlone(X)
  PROVE  HandOk(t, l)'
<1>1. PICK b : b = p[t]
  OBVIOUS
<1>2. PICK h : h = HeapOf(t)
  OBVIOUS
<1>3. p'[t] = b
  BY <1>1
<1>4. CASE at[t] = "defer"
  <2>1. b \in Block /\ l = <<b>> /\ span_heap[SpanOf(b)] # NoHeap
    BY <1>1, <1>4 DEF HandOk
  <2>2. b \in Range(l)
    <3>1. Range(<<b>>) = {b}
      BY <2>1, OneBlock
    <3> QED BY <2>1, <3>1
  <2>3. span_heap'[SpanOf(b)] # NoHeap
    BY <2>1, <2>2 DEF OthersAlone
  <2> QED BY <1>3, <1>4, <2>1, <2>3 DEF HandOk
<1>5. CASE at[t] = "drain"
  <2>1. l # <<>> /\ Leads(b, l) /\ Belongs(l, h)
    BY <1>1, <1>2, <1>5 DEF HandOk
  <2>2. Leads(b, l)'
    BY <2>1, LeadsKept
  <2>3. Belongs(l, h)'
    BY <2>1, BelongsKept
  <2>4. HeapOf(t)' = h
    BY <1>2, <1>5
  <2>5. Leads(p[t], l)'
    BY <1>3, <2>2 DEF Leads
  <2>6. Belongs(l, HeapOf(t))'
    BY <2>3, <2>4 DEF Belongs
  <2> QED BY <1>5, <2>1, <2>5, <2>6 DEF HandOk
<1>6. CASE at[t] \notin {"defer", "drain"}
  BY <1>6 DEF HandOk
<1> QED BY <1>4, <1>5, <1>6

\* Thread t's step: the lists of heaps H and its own are as they should be
\* after it, the others stay.
LEMMA DeferralMoves ==
  ASSUME NEW L, Deferral(L), NEW t \in Thread, NEW H, NEW L2, Apart(L2),
         \A h \in Heap \ H : L2[OfHeap(h)] = L[OfHeap(h)] /\ defer'[h] = defer[h],
         \A u \in Thread \ {t} : L2[OfThread(u)] = L[OfThread(u)],
         OthersStay(t), NEW X, OthersAlone(X),
         \A h \in Heap \ H : Range(L[OfHeap(h)]) \subseteq X,
         \A u \in Thread \ {t} : Range(L[OfThread(u)]) \subseteq X,
         \A h \in Heap \cap H : QueueOk(h, L2[OfHeap(h)])',
         HandOk(t, L2[OfThread(t)])'
  PROVE  Deferral(L2)'
<1>1. Apart(L)
  BY DEF Deferral
<1>2. ASSUME NEW h \in Heap \ H PROVE QueueOk(h, L2[OfHeap(h)])'
  <2>1. PICK l : l = L[OfHeap(h)]
    OBVIOUS
  <2>2. l \in Seq(Block) /\ QueueOk(h, l) /\ Range(l) \subseteq X /\ L2[OfHeap(h)] = l
    BY <1>1, <2>1, Holders, ListFacts DEF Deferral
  <2>3. QueueOk(h, l)'
    BY <2>2, QueueKept
  <2> QED BY <2>2, <2>3
<1>3. ASSUME NEW u \in Thread \ {t} PROVE HandOk(u, L2[OfThread(u)])'
  <2>1. PICK l : l = L[OfThread(u)]
    OBVIOUS
  <2>2. l \in Seq(Block) /\ HandOk(u, l) /\ Range(l) \subseteq X /\ L2[OfThread(u)] = l
    BY <1>1, <2>1, Holders, ListFacts DEF Deferral
  <2>3. at'[u] = at[u] /\ p'[u] = p[u] /\ (at[u] = "drain" => HeapOf(u)' = HeapOf(u))
    BY DEF OthersStay
  <2>4. HandOk(u, l)'
    BY <2>2, <2>3, HandKept
  <2> QED BY <2>2, <2>4
<1>4. Apart(L2)'
  BY DEF Apart
<1> QED BY <1>2, <1>3, <1>4 DEF Deferral
-----------------------------------------------------------------------------
\* A step that moves no deferred free.
LEMMA DeferralKept ==
  ASSUME NEW L, Deferral(L), NEW t \in Thread, OthersStay(t), defer' = defer,
         OthersAlone(Waiting(L)), at[t] \notin {"defer", "drain"}, at'[t] \notin {"defer", "drain"},
         at'[t] = "take" => p'[t] \in Block
  PROVE  Deferral(L)'
<1>1. Apart(L) /\ L[OfThread(t)] = <<>>
  BY DEF Deferral, HandOk
<1>2. HandOk(t, L[OfThread(t)])'
  BY <1>1 DEF HandOk
<1>3. PICK H : H = {}
  OBVIOUS
<1>4. \A h \in Heap \ H : Range(L[OfHeap(h)]) \subseteq Waiting(L)
  BY <1>1, Holders, ListFacts
<1>5. \A u \in Thread \ {t} : Range(L[OfThread(u)]) \subseteq Waiting(L)
  BY <1>1, Holders, ListFacts
<1>6. \A h \in Heap \cap H : QueueOk(h, L[OfHeap(h)])'
  BY <1>3
<1>7. \A h \in Heap \ H : L[OfHeap(h)] = L[OfHeap(h)] /\ defer'[h] = defer[h]
  OBVIOUS
<1> QED BY <1>1, <1>2, <1>4, <1>5, <1>6, <1>7, DeferralMoves

\* The lists with one, or two, of them changed.
Put(L, x, l) == [z \in Holder |-> IF z = x THEN l ELSE L[z]]
PutBoth(L, x, k, y, l) == [z \in Holder |-> IF z = x THEN k ELSE IF z = y THEN l ELSE L[z]]

\* One holder has another list.
LEMMA PutLists ==
  ASSUME NEW L, Apart(L), NEW x \in Holder, NEW l \in Seq(Block), NoRepeat(l),
         Range(l) \cap (Waiting(L) \ Range(L[x])) = {}
  PROVE  /\ Apart(Put(L, x, l))
         /\ Put(L, x, l)[x] = l /\ \A z \in Holder \ {x} : Put(L, x, l)[z] = L[z]
         /\ Waiting(Put(L, x, l)) = (Waiting(L) \ Range(L[x])) \cup Range(l)
<1> DEFINE M == Put(L, x, l)
<1>1. M \in [Holder -> Seq(Block)] /\ M[x] = l /\ \A z \in Holder \ {x} : M[z] = L[z]
  BY DEF Apart, Put
<1> HIDE DEF M
<1>2. \A z \in Holder \ {x} : NoShare(L[z], L[x]) /\ NoShare(L[z], l) /\ NoShare(l, L[z])
  <2>1. ASSUME NEW z \in Holder \ {x} PROVE NoShare(L[z], L[x])
    BY DEF Apart
  <2>2. \A z \in Holder : Range(L[z]) \subseteq Waiting(L)
    BY DEF Waiting
  <2> QED BY <2>1, <2>2 DEF NoShare
<1>3. ASSUME NEW y \in Holder, NEW z \in Holder, y # z PROVE NoShare(M[y], M[z])
  <2>1. CASE y = x
    BY <2>1, <1>1, <1>2, <1>3
  <2>2. CASE z = x
    BY <2>2, <1>1, <1>2, <1>3
  <2>3. CASE y # x /\ z # x
    BY <2>3, <1>1, <1>3 DEF Apart
  <2> QED BY <2>1, <2>2, <2>3
<1>4. Apart(M)
  <2>1. \A z \in Holder : NoRepeat(M[z])
    BY <1>1 DEF Apart
  <2> QED BY <1>1, <1>3, <2>1 DEF Apart
<1>5. ASSUME NEW b PROVE b \in Waiting(M) <=> b \in (Waiting(L) \ Range(L[x])) \cup Range(l)
  <2>1. b \in Waiting(M) <=> \E z \in Holder : b \in Range(M[z])
    BY DEF Waiting
  <2>2. b \in Waiting(L) <=> \E z \in Holder : b \in Range(L[z])
    BY DEF Waiting
  <2>3. \A z \in Holder \ {x} : ~(b \in Range(L[z]) /\ b \in Range(L[x]))
    BY <1>2 DEF NoShare
  <2> QED BY <1>1, <2>1, <2>2, <2>3
<1> QED BY <1>1, <1>4, <1>5 DEF M

\* Two holders have other lists.
LEMMA PutBothLists ==
  ASSUME NEW L, Apart(L), NEW x \in Holder, NEW y \in Holder, x # y,
         NEW k \in Seq(Block), NEW l \in Seq(Block), NoRepeat(k), NoRepeat(l), NoShare(k, l),
         Range(k) \cup Range(l) = Range(L[x]) \cup Range(L[y])
  PROVE  /\ Apart(PutBoth(L, x, k, y, l))
         /\ PutBoth(L, x, k, y, l)[x] = k /\ PutBoth(L, x, k, y, l)[y] = l
         /\ \A z \in Holder \ {x, y} : PutBoth(L, x, k, y, l)[z] = L[z]
         /\ Waiting(PutBoth(L, x, k, y, l)) = Waiting(L)
<1> DEFINE M == PutBoth(L, x, k, y, l)
<1>1. /\ M \in [Holder -> Seq(Block)] /\ M[x] = k /\ M[y] = l
      /\ \A z \in Holder \ {x, y} : M[z] = L[z]
  BY DEF Apart, PutBoth
<1> HIDE DEF M
<1>2. \A z \in Holder \ {x, y} : /\ NoShare(L[z], k) /\ NoShare(k, L[z])
                                /\ NoShare(L[z], l) /\ NoShare(l, L[z])
  <2>1. \A z \in Holder \ {x, y} : NoShare(L[z], L[x]) /\ NoShare(L[z], L[y])
    BY DEF Apart
  <2> QED BY <2>1 DEF NoShare
<1>3. NoShare(l, k)
  BY DEF NoShare
<1>4. ASSUME NEW u \in Holder, NEW z \in Holder, u # z PROVE NoShare(M[u], M[z])
  <2>1. CASE u \in {x, y} /\ z \in {x, y}
    BY <2>1, <1>1, <1>3, <1>4
  <2>2. CASE u \in {x, y} /\ z \notin {x, y}
    BY <2>2, <1>1, <1>2
  <2>3. CASE u \notin {x, y} /\ z \in {x, y}
    BY <2>3, <1>1, <1>2
  <2>4. CASE u \notin {x, y} /\ z \notin {x, y}
    BY <2>4, <1>1, <1>4 DEF Apart
  <2> QED BY <2>1, <2>2, <2>3, <2>4
<1>5. Apart(M)
  <2>1. \A z \in Holder : NoRepeat(M[z])
    BY <1>1 DEF Apart
  <2> QED BY <1>1, <1>4, <2>1 DEF Apart
<1>6. ASSUME NEW b PROVE b \in Waiting(M) <=> b \in Waiting(L)
  <2>1. b \in Waiting(M) <=> \E z \in Holder : b \in Range(M[z])
    BY DEF Waiting
  <2>2. b \in Waiting(L) <=> \E z \in Holder : b \in Range(L[z])
    BY DEF Waiting
  <2>3. (b \in Range(M[x]) \/ b \in Range(M[y])) <=> (b \in Range(L[x]) \/ b \in Range(L[y]))
    BY <1>1
  <2>4. \A z \in Holder \ {x, y} : b \in Range(M[z]) <=> b \in Range(L[z])
    BY <1>1
  <2> QED BY <2>1, <2>2, <2>3, <2>4
<1> QED BY <1>1, <1>5, <1>6 DEF M

Exchanged(L, x, k, y, l, M) ==
  /\ Apart(M) /\ M[x] = k /\ M[y] = l
  /\ \A z \in Holder \ {x, y} : M[z] = L[z]
  /\ Waiting(M) = Waiting(L)

\* So blocks can go from the list of one holder to that of another.
LEMMA ListsExchanged ==
  ASSUME NEW L, Apart(L), NEW x \in Holder, NEW y \in Holder, x # y,
         NEW k \in Seq(Block), NEW l \in Seq(Block), NoRepeat(k), NoRepeat(l), NoShare(k, l),
         Range(k) \cup Range(l) = Range(L[x]) \cup Range(L[y])
  PROVE  \E M : Exchanged(L, x, k, y, l, M)
<1> DEFINE M == PutBoth(L, x, k, y, l)
<1>1. /\ Apart(M) /\ M[x] = k /\ M[y] = l
      /\ \A z \in Holder \ {x, y} : M[z] = L[z]
      /\ Waiting(M) = Waiting(L)
  BY PutBothLists
<1> HIDE DEF M
<1>2. Exchanged(L, x, k, y, l, M)
  BY <1>1 DEF Exchanged
<1> QED BY <1>2
-----------------------------------------------------------------------------
(* The steps that move deferred frees.                                       *)

Placement(L, T) ==
  /\ Deferral(L)
  /\ T = live \cup Waiting(L)
  /\ Waiting(L) \cap live = {}
  /\ Placed(T)

MovedTo(L, T) == Placement(L, T)' /\ OthersAlone(live \cap live') /\ LiveMoves

\* The first block of a list and what it leads to.
LEMMA LeadsFacts ==
  ASSUME NEW l \in Seq(Block), NEW b, Leads(b, l)
  PROVE  /\ b \in Block \cup {Null}
         /\ b = Null <=> l = <<>>
         /\ l # <<>> => /\ b \in Range(l) /\ b = l[1] /\ Leads(word[b], Tail(l))
<1>1. Len(l) \in Nat /\ \A i \in 1..Len(l) : l[i] \in Block
  OBVIOUS
<1>2. l = <<>> <=> Len(l) = 0
  OBVIOUS
<1>3. Null \notin Block
  BY TypeFacts
<1>4. b = BlockAt(l, 1)
  BY DEF Leads
<1>5. CASE l = <<>>
  <2>1. b = Null
    BY <1>2, <1>4, <1>5 DEF BlockAt
  <2> QED BY <1>5, <2>1
<1>6. CASE l # <<>>
  <2>1. 1 \in 1..Len(l)
    BY <1>1, <1>2, <1>6
  <2>2. b = l[1] /\ b \in Block /\ b \in Range(l)
    BY <1>1, <1>4, <2>1, RangeFacts DEF BlockAt
  <2>3. Tail(l) \in Seq(Block) /\ Len(Tail(l)) = Len(l) - 1
        /\ \A i \in 1..(Len(l) - 1) : Tail(l)[i] = l[i + 1]
    BY <1>6, TailFacts
  <2>4. ASSUME NEW i \in Nat \ {0} PROVE BlockAt(Tail(l), i) = BlockAt(l, i + 1)
    BY <1>1, <2>3 DEF BlockAt
  <2>5. word[l[1]] = BlockAt(l, 1 + 1)
    BY <2>1 DEF Leads
  <2>6. word[b] = BlockAt(Tail(l), 1)
    BY <2>2, <2>4, <2>5
  <2>7. ASSUME NEW i \in 1..Len(Tail(l)) PROVE word[Tail(l)[i]] = BlockAt(Tail(l), i + 1)
    <3>1. i \in Nat \ {0} /\ i + 1 \in Nat \ {0} /\ i + 1 \in 1..Len(l) /\ Tail(l)[i] = l[i + 1]
      BY <1>1, <2>3
    <3>2. word[l[i + 1]] = BlockAt(l, (i + 1) + 1)
      BY <3>1 DEF Leads
    <3> QED BY <2>4, <3>1, <3>2
  <2>8. Leads(word[b], Tail(l))
    BY <2>6, <2>7 DEF Leads
  <2> QED BY <1>3, <1>6, <2>2, <2>8
<1> QED BY <1>5, <1>6

\* A block in front of a list.
LEMMA LeadsCons ==
  ASSUME NEW l \in Seq(Block), NEW b \in Block, Leads(word[b], l)
  PROVE  Leads(b, <<b>> \o l)
<1> DEFINE m == <<b>> \o l
<1>1. m \in Seq(Block) /\ Len(l) \in Nat /\ Len(m) = Len(l) + 1 /\ m[1] = b
      /\ \A i \in 2..(Len(l) + 1) : m[i] = l[i - 1]
  BY ConsFacts
<1> HIDE DEF m
<1>2. ASSUME NEW i \in Nat \ {0} PROVE BlockAt(m, i + 1) = BlockAt(l, i)
  BY <1>1 DEF BlockAt
<1>3. b = BlockAt(m, 1)
  BY <1>1 DEF BlockAt
<1>4. ASSUME NEW i \in 1..Len(m) PROVE word[m[i]] = BlockAt(m, i + 1)
  <2>1. CASE i = 1
    BY <2>1, <1>1, <1>2, SMTT(30) DEF Leads
  <2>2. CASE i # 1
    <3>1. i - 1 \in 1..Len(l) /\ m[i] = l[i - 1] /\ i \in Nat \ {0}
      BY <2>2, <1>1
    <3>2. word[l[i - 1]] = BlockAt(l, (i - 1) + 1)
      BY <3>1 DEF Leads
    <3> QED BY <1>2, <3>1, <3>2
  <2> QED BY <2>1, <2>2
<1> QED BY <1>3, <1>4 DEF Leads, m

\* No block leads to the empty list.
LEMMA NothingLed ==
  ASSUME NEW b, b = Null
  PROVE  Leads(b, <<>>) /\ \A h : Belongs(<<>>, h)
BY EmptyFacts DEF Leads, Belongs, BlockAt

\* A word written in block b leaves the other blocks.
LEMMA WordAlone ==
  ASSUME NEW T, Placed(T), NEW b \in Block, NEW w, WordSet(b, w), UNCHANGED <<span_heap, size_class>>
  PROVE  OthersAlone(T \ {b})
<1>1. word \in [Block -> Words] /\ T \subseteq Block
  BY PlacedParts
<1>2. \A x \in Block \ {b} : word'[x] = word[x]
  BY <1>1 DEF WordSet
<1> QED BY <1>1, <1>2 DEF OthersAlone

\* A block of another heap is freed: it is in the hands of the thread.
LEMMA FreeDeferredMoves ==
  ASSUME NEW L, NEW T, Placement(L, T), NEW t \in Thread, OthersStay(t), at[t] = "idle",
         NEW b \in live, NEW w \in Block \cup {Null}, WordSet(b, w), span_heap[SpanOf(b)] # NoHeap,
         at'[t] = "defer", p'[t] = b, live' = live \ {b}, UNCHANGED <<defer, active, size_cache, data,
         span_cache, global, span_heap, size_class, mapped>>
  PROVE  \E L2, T2 : MovedTo(L2, T2)
<1> DEFINE x == OfThread(t)
           L2 == Put(L, x, <<b>>)
<1>1. Deferral(L) /\ Apart(L) /\ T = live \cup Waiting(L) /\ Waiting(L) \cap live = {} /\ Placed(T)
      /\ x \in Holder
  BY Holders DEF Placement, Deferral
<1>2. b \in T /\ b \in Block /\ w \in Words /\ b \notin Waiting(L)
  <2>1. T \subseteq Block
    BY <1>1, PlacedParts
  <2> QED BY <1>1, <2>1 DEF Words
<1>3. Placed(T)'
  BY <1>1, <1>2, WordPlaced
<1>4. OthersAlone(T \ {b})
  BY <1>1, <1>2, WordAlone
<1>5. L[x] = <<>>
  BY <1>1 DEF Deferral, HandOk
<1>6. <<b>> \in Seq(Block) /\ NoRepeat(<<b>>) /\ Range(<<b>>) = {b} /\ Range(L[x]) = {}
  BY <1>2, <1>5, OneBlock, EmptyFacts
<1>7. /\ Apart(L2) /\ L2[x] = <<b>> /\ \A z \in Holder \ {x} : L2[z] = L[z]
      /\ Waiting(L2) = Waiting(L) \cup {b}
  <2> DEFINE l == <<b>>
  <2>1. l \in Seq(Block) /\ NoRepeat(l) /\ Range(l) = {b} /\ Range(L[x]) = {}
    BY <1>6
  <2> HIDE DEF l, x
  <2>2. Range(l) \cap (Waiting(L) \ Range(L[x])) = {}
    BY <1>2, <2>1
  <2>3. Apart(Put(L, x, l))
    BY <1>1, <2>1, <2>2, PutLists
  <2>4. Put(L, x, l)[x] = l /\ \A z \in Holder \ {x} : Put(L, x, l)[z] = L[z]
    BY <1>1, <2>1, <2>2, PutLists
  <2>5. Waiting(Put(L, x, l)) = (Waiting(L) \ Range(L[x])) \cup Range(l)
    BY <1>1, <2>1, <2>2, PutLists
  <2> QED BY <2>1, <2>3, <2>4, <2>5 DEF l
<1> HIDE DEF L2
<1>8. Deferral(L2)'
  <2>1. PICK H : H = {}
    OBVIOUS
  <2>2. \A h \in Heap \ H : L2[OfHeap(h)] = L[OfHeap(h)] /\ defer'[h] = defer[h]
    BY <1>7, Holders
  <2>3. \A u \in Thread \ {t} : L2[OfThread(u)] = L[OfThread(u)]
    BY <1>7, Holders
  <2>4. OthersAlone(Waiting(L))
    BY <1>1, <1>2, <1>4, AloneSubset
  <2>5. \A h \in Heap \ H : Range(L[OfHeap(h)]) \subseteq Waiting(L)
    BY <1>1, Holders, ListFacts
  <2>6. \A u \in Thread \ {t} : Range(L[OfThread(u)]) \subseteq Waiting(L)
    BY <1>1, Holders, ListFacts
  <2>7. \A h \in Heap \cap H : QueueOk(h, L2[OfHeap(h)])'
    BY <2>1
  <2>8. HandOk(t, L2[OfThread(t)])'
    BY <1>2, <1>7 DEF HandOk
  <2> QED BY <1>1, <1>7, <2>2, <2>3, <2>4, <2>5, <2>6, <2>7, <2>8, DeferralMoves
<1>9. T = live' \cup Waiting(L2) /\ Waiting(L2) \cap live' = {}
  BY <1>1, <1>2, <1>7
<1>10. Placement(L2, T)'
  BY <1>3, <1>8, <1>9 DEF Placement, Waiting
<1>11. OthersAlone(live \cap live')
  BY <1>1, <1>4, AloneSubset
<1>12. LiveMoves
  BY DEF LiveMoves
<1> QED BY <1>10, <1>11, <1>12 DEF MovedTo

\* The thread links it again in front of what it read.
LEMMA DeferRetriesMoves ==
  ASSUME NEW L, NEW T, Placement(L, T), NEW t \in Thread, OthersStay(t), at[t] = "defer",
         NEW b, b = p[t], NEW w \in Block \cup {Null}, WordSet(b, w),
         at'[t] = "defer", p'[t] = b, live' = live, UNCHANGED <<defer, active, size_cache, data,
         span_cache, global, span_heap, size_class, mapped>>
  PROVE  \E L2, T2 : MovedTo(L2, T2)
<1> DEFINE x == OfThread(t)
<1>1. Deferral(L) /\ Apart(L) /\ T = live \cup Waiting(L) /\ Waiting(L) \cap live = {} /\ Placed(T)
      /\ x \in Holder
  BY Holders DEF Placement, Deferral
<1>2. b \in Block /\ L[x] = <<b>> /\ span_heap[SpanOf(b)] # NoHeap
  BY <1>1 DEF Deferral, HandOk
<1>3. b \in T /\ w \in Words /\ b \in Waiting(L) /\ Range(L[x]) = {b}
  <2>1. Range(L[x]) = {b}
    BY <1>2, OneBlock
  <2> QED BY <1>1, <2>1, ListFacts DEF Words
<1>4. Placed(T)'
  BY <1>1, <1>3, WordPlaced
<1>5. OthersAlone(T \ {b})
  BY <1>1, <1>2, WordAlone
<1>6. \A z \in Holder \ {x} : Range(L[z]) \subseteq T \ {b}
  <2>1. ASSUME NEW z \in Holder \ {x} PROVE NoShare(L[z], L[x])
    BY <1>1 DEF Apart
  <2>2. \A z \in Holder : Range(L[z]) \subseteq Waiting(L)
    BY <1>1, ListFacts
  <2> QED BY <1>1, <1>3, <2>1, <2>2 DEF NoShare
<1>7. Deferral(L)'
  <2>1. PICK H : H = {}
    OBVIOUS
  <2>2. \A h \in Heap \ H : L[OfHeap(h)] = L[OfHeap(h)] /\ defer'[h] = defer[h]
    OBVIOUS
  <2>3. \A u \in Thread \ {t} : L[OfThread(u)] = L[OfThread(u)]
    OBVIOUS
  <2>5. \A h \in Heap \ H : Range(L[OfHeap(h)]) \subseteq T \ {b}
    BY <1>6, Holders
  <2>6. \A u \in Thread \ {t} : Range(L[OfThread(u)]) \subseteq T \ {b}
    BY <1>6, Holders
  <2>7. \A h \in Heap \cap H : QueueOk(h, L[OfHeap(h)])'
    BY <2>1
  <2>8. HandOk(t, L[OfThread(t)])'
    BY <1>2 DEF HandOk
  <2> QED BY <1>1, <1>5, <2>2, <2>3, <2>5, <2>6, <2>7, <2>8, DeferralMoves
<1>8. Placement(L, T)'
  BY <1>1, <1>4, <1>7 DEF Placement, Waiting
<1>9. OthersAlone(live \cap live')
  BY <1>1, <1>3, <1>5, AloneSubset
<1>10. LiveMoves
  BY DEF LiveMoves
<1> QED BY <1>8, <1>9, <1>10 DEF MovedTo

\* The swap puts it in front of what the heap has.
LEMMA DeferSwapsMoves ==
  ASSUME NEW L, NEW T, Placement(L, T), NEW t \in Thread, OthersStay(t), at[t] = "defer",
         NEW b, b = p[t], NEW h \in Heap, span_heap[SpanOf(b)] = h, defer[h] = word[b],
         defer'[h] = b, \A k \in Heap \ {h} : defer'[k] = defer[k],
         at'[t] = "idle", live' = live, UNCHANGED <<word, active, size_cache, data,
         span_cache, global, span_heap, size_class, mapped>>
  PROVE  \E L2, T2 : MovedTo(L2, T2)
<1> DEFINE x == OfThread(t)
           y == OfHeap(h)
           l == L[y]
           m == <<b>> \o l
<1>0. PICK e : e = <<>>
  OBVIOUS
<1>1. Deferral(L) /\ Apart(L) /\ T = live \cup Waiting(L) /\ Waiting(L) \cap live = {} /\ Placed(T)
      /\ x \in Holder /\ y \in Holder /\ x # y /\ y # x
  BY Holders DEF Placement, Deferral
<1>2. b \in Block /\ L[x] = <<b>> /\ Range(L[x]) = {b}
  BY <1>1, OneBlock DEF Deferral, HandOk
<1>3. l \in Seq(Block) /\ NoRepeat(l) /\ b \notin Range(l) /\ QueueOk(h, l)
  <2>1. NoShare(L[x], L[y])
    BY <1>1 DEF Apart
  <2> QED BY <1>1, <1>2, <2>1, ListFacts DEF NoShare, Deferral
<1> HIDE DEF l
<1>4. m \in Seq(Block) /\ Range(m) = {b} \cup Range(l) /\ NoRepeat(m)
  BY <1>2, <1>3, ConsFacts, ConsRange
<1> HIDE DEF m, x, y
<1>5. e \in Seq(Block) /\ NoRepeat(e) /\ NoShare(e, m)
      /\ Range(e) \cup Range(m) = Range(L[x]) \cup Range(L[y])
  <2>1. Range(e) = {} /\ NoRepeat(e) /\ e \in Seq(Block)
    BY <1>0, EmptyFacts
  <2> QED BY <1>2, <1>4, <2>1 DEF NoShare, l
<1>6. PICK L2 : Exchanged(L, x, e, y, m, L2)
  BY <1>1, <1>4, <1>5, ListsExchanged
<1>7. Apart(L2) /\ L2[x] = <<>> /\ L2[y] = m /\ \A z \in Holder \ {x, y} : L2[z] = L[z]
  BY <1>0, <1>6 DEF Exchanged
<1>8. Waiting(L2) = Waiting(L)
  BY <1>6 DEF Exchanged
<1>9. Placed(T)' /\ OthersAlone(T)
  <2>1. UNCHANGED <<ownVars, spanVars>>
    BY DEF ownVars, spanVars
  <2>2. FreeLists(span_cache, global)
    BY <1>1, PlacedParts DEF Spare
  <2>3. FreeLists(span_cache', global') /\ AllListed(span_cache', global') = AllListed(span_cache, global)
    BY <2>2
  <2>4. mapped' = mapped \ (AllListed(span_cache, global) \ AllListed(span_cache', global'))
    BY <2>3
  <2>5. AllListed(span_cache', global') \subseteq AllListed(span_cache, global)
    BY <2>3
  <2>6. Placed(T)'
    BY <1>1, <2>3, <2>4, <2>5, ListsPlaced
  <2> QED BY <2>6 DEF OthersAlone
<1>10. QueueOk(h, m)'
  <2>1. Leads(b, m)
    BY <1>2, <1>3, LeadsCons DEF QueueOk, m
  <2>2. Leads(b, m)'
    BY <2>1 DEF Leads, BlockAt
  <2>3. Belongs(m, h)'
    BY <1>3, <1>4 DEF QueueOk, Belongs
  <2>4. Leads(defer[h], m)'
    BY <2>2 DEF Leads
  <2> QED BY <2>3, <2>4 DEF QueueOk
<1>11. Deferral(L2)'
  <2>1. PICK H : H = {h}
    OBVIOUS
  <2>2. \A k \in Heap \ H : L2[OfHeap(k)] = L[OfHeap(k)] /\ defer'[k] = defer[k]
    BY <1>7, <2>1, Holders DEF x, y
  <2>3. \A u \in Thread \ {t} : L2[OfThread(u)] = L[OfThread(u)]
    BY <1>7, Holders DEF x, y
  <2>4. \A k \in Heap \ H : Range(L[OfHeap(k)]) \subseteq T
    BY <1>1, Holders, ListFacts
  <2>5. \A u \in Thread \ {t} : Range(L[OfThread(u)]) \subseteq T
    BY <1>1, Holders, ListFacts
  <2>6. \A k \in Heap \cap H : QueueOk(k, L2[OfHeap(k)])'
    BY <1>7, <1>10, <2>1 DEF y
  <2>7. HandOk(t, L2[OfThread(t)])'
    BY <1>7 DEF HandOk, x
  <2> QED BY <1>1, <1>7, <1>9, <2>2, <2>3, <2>4, <2>5, <2>6, <2>7, DeferralMoves
<1>12. Placement(L2, T)'
  BY <1>1, <1>8, <1>9, <1>11 DEF Placement, Waiting
<1>13. OthersAlone(live \cap live') /\ LiveMoves
  BY <1>1, <1>9, AloneSubset DEF LiveMoves
<1> QED BY <1>12, <1>13 DEF MovedTo

\* A thread takes all that waits for its heap.
LEMMA TakeDeferredMoves ==
  ASSUME NEW L, NEW T, Placement(L, T), NEW t \in Thread, OthersStay(t), at[t] = "take",
         NEW h \in Heap, HeapOf(t) = h, HeapOf(t)' = h, defer[h] = p[t],
         defer'[h] = Null, \A k \in Heap \ {h} : defer'[k] = defer[k],
         at'[t] = "drain", p'[t] = p[t], live' = live, UNCHANGED <<word, active, size_cache, data,
         span_cache, global, span_heap, size_class, mapped>>
  PROVE  \E L2, T2 : MovedTo(L2, T2)
<1> DEFINE x == OfThread(t)
           y == OfHeap(h)
           l == L[y]
<1>0. PICK e : e = <<>>
  OBVIOUS
<1>1. Deferral(L) /\ Apart(L) /\ T = live \cup Waiting(L) /\ Waiting(L) \cap live = {} /\ Placed(T)
      /\ x \in Holder /\ y \in Holder /\ x # y /\ y # x
  BY Holders DEF Placement, Deferral
<1>2. p[t] \in Block /\ L[x] = <<>> /\ Range(L[x]) = {}
  BY <1>1, EmptyFacts DEF Deferral, HandOk
<1>3. l \in Seq(Block) /\ NoRepeat(l) /\ QueueOk(h, l)
  BY <1>1, ListFacts DEF Deferral
<1> HIDE DEF x, y, l
<1>4. e \in Seq(Block) /\ NoRepeat(e) /\ NoShare(l, e)
      /\ Range(l) \cup Range(e) = Range(L[x]) \cup Range(L[y])
  <2>1. Range(e) = {} /\ NoRepeat(e) /\ e \in Seq(Block)
    BY <1>0, EmptyFacts
  <2> QED BY <1>2, <2>1 DEF NoShare, l
<1>5. PICK L2 : Exchanged(L, x, l, y, e, L2)
  BY <1>1, <1>3, <1>4, ListsExchanged
<1>6. Apart(L2) /\ L2[x] = l /\ L2[y] = <<>> /\ \A z \in Holder \ {x, y} : L2[z] = L[z]
  BY <1>0, <1>5 DEF Exchanged
<1>7. Waiting(L2) = Waiting(L)
  BY <1>5 DEF Exchanged
<1>8. Placed(T)' /\ OthersAlone(T)
  <2>1. UNCHANGED <<ownVars, spanVars>>
    BY DEF ownVars, spanVars
  <2>2. FreeLists(span_cache, global)
    BY <1>1, PlacedParts DEF Spare
  <2>3. FreeLists(span_cache', global') /\ AllListed(span_cache', global') = AllListed(span_cache, global)
    BY <2>2
  <2>4. mapped' = mapped \ (AllListed(span_cache, global) \ AllListed(span_cache', global'))
    BY <2>3
  <2>5. AllListed(span_cache', global') \subseteq AllListed(span_cache, global)
    BY <2>3
  <2>6. Placed(T)'
    BY <1>1, <2>3, <2>4, <2>5, ListsPlaced
  <2> QED BY <2>6 DEF OthersAlone
<1>9. HandOk(t, l)'
  <2>1. PICK b : b = p[t]
    OBVIOUS
  <2>2. Leads(b, l) /\ b \in Block
    BY <1>2, <1>3, <2>1 DEF QueueOk
  <2>3. l # <<>>
    BY <1>3, <2>2, LeadsFacts, TypeFacts
  <2>4. Leads(b, l)'
    BY <2>2 DEF Leads, BlockAt
  <2>5. Leads(p[t], l)'
    BY <2>1, <2>4 DEF Leads
  <2>6. Belongs(l, HeapOf(t))'
    BY <1>3 DEF QueueOk, Belongs
  <2> QED BY <2>3, <2>5, <2>6 DEF HandOk
<1>10. QueueOk(h, <<>>)'
  <2>1. Len(<<>>) = 0 /\ Range(<<>>) = {}
    BY EmptyFacts
  <2>2. Null = BlockAt(<<>>, 1)
    BY <2>1 DEF BlockAt
  <2>3. Belongs(<<>>, h)'
    BY <2>1 DEF Belongs
  <2>4. Leads(defer[h], <<>>)'
    BY <2>1, <2>2 DEF Leads
  <2> QED BY <2>3, <2>4 DEF QueueOk
<1>11. Deferral(L2)'
  <2>1. PICK H : H = {h}
    OBVIOUS
  <2>2. \A k \in Heap \ H : L2[OfHeap(k)] = L[OfHeap(k)] /\ defer'[k] = defer[k]
    BY <1>6, <2>1, Holders DEF x, y
  <2>3. \A u \in Thread \ {t} : L2[OfThread(u)] = L[OfThread(u)]
    BY <1>6, Holders DEF x, y
  <2>4. \A k \in Heap \ H : Range(L[OfHeap(k)]) \subseteq T
    BY <1>1, Holders, ListFacts
  <2>5. \A u \in Thread \ {t} : Range(L[OfThread(u)]) \subseteq T
    BY <1>1, Holders, ListFacts
  <2>6. \A k \in Heap \cap H : QueueOk(k, L2[OfHeap(k)])'
    BY <1>6, <1>10, <2>1 DEF y
  <2>7. HandOk(t, L2[OfThread(t)])'
    BY <1>6, <1>9 DEF x
  <2> QED BY <1>1, <1>6, <1>8, <2>2, <2>3, <2>4, <2>5, <2>6, <2>7, DeferralMoves
<1>12. Placement(L2, T)'
  BY <1>1, <1>7, <1>8, <1>11 DEF Placement, Waiting
<1>13. OthersAlone(live \cap live') /\ LiveMoves
  BY <1>1, <1>8, AloneSubset DEF LiveMoves
<1> QED BY <1>12, <1>13 DEF MovedTo

\* A thread frees the first block of those it took.
LEMMA DrainMoves ==
  ASSUME NEW L, NEW T, Placement(L, T), NEW t \in Thread, OthersStay(t), at[t] = "drain",
         NEW h \in Heap, HeapOf(t) = h, HeapOf(t)' = h, NEW b, b = p[t], FreeToHeap(h, b),
         UNCHANGED defer, NEW w, w = word[b], p'[t] = w,
         w # Null => at'[t] = "drain", w = Null => at'[t] \notin {"take", "drain", "defer"},
         live' = live
  PROVE  ActiveStays(h) /\ \E L2, T2 : MovedTo(L2, T2)
<1> DEFINE x == OfThread(t)
           l == L[x]
           m == Tail(l)
           L2 == Put(L, x, m)
           T2 == T \ {b}
<1>1. Deferral(L) /\ Apart(L) /\ T = live \cup Waiting(L) /\ Waiting(L) \cap live = {} /\ Placed(T)
      /\ x \in Holder
  BY Holders DEF Placement, Deferral
<1>2. l \in Seq(Block) /\ NoRepeat(l) /\ l # <<>> /\ Leads(b, l) /\ Belongs(l, h)
      /\ Range(l) \subseteq Waiting(L)
  BY <1>1, ListFacts DEF Deferral, HandOk
<1> HIDE DEF l
<1>3. b \in Range(l) /\ b = l[1] /\ Leads(w, m)
  BY <1>2, LeadsFacts
<1>4. Head(l) = l[1] /\ Range(m) = Range(l) \ {Head(l)} /\ NoRepeat(m) /\ m \in Seq(Block)
  BY <1>2, TailRange, TailFacts
<1> HIDE DEF m, x
<1>5. b \in T /\ span_heap[SpanOf(b)] = h
  BY <1>1, <1>2, <1>3 DEF Belongs
<1>6. Placed(T2)'
  BY <1>1, <1>5, FreeToHeapPlaced
<1>7. OthersAlone(T2) /\ ActiveStays(h)
  BY <1>1, <1>5, FreeToHeapPlaced
<1>8. Range(L[x]) = Range(l) /\ Range(m) = Range(l) \ {b}
  BY <1>3, <1>4 DEF l
<1>9. Range(m) \cap (Waiting(L) \ Range(L[x])) = {}
  BY <1>8
<1>10. Apart(L2)
  BY <1>1, <1>4, <1>9, PutLists
<1>11. L2[x] = m /\ \A z \in Holder \ {x} : L2[z] = L[z]
  BY <1>1, <1>4, <1>9, PutLists
<1>12. Waiting(L2) = (Waiting(L) \ Range(L[x])) \cup Range(m)
  BY <1>1, <1>4, <1>9, PutLists
<1>13. Waiting(L2) = Waiting(L) \ {b}
  BY <1>2, <1>3, <1>8, <1>12
<1> HIDE DEF L2
<1>14. HandOk(t, m)'
  <2>1. Range(m) \subseteq T2
    BY <1>1, <1>2, <1>8
  <2>2. Belongs(m, h)
    BY <1>2, <1>8 DEF Belongs
  <2> HIDE DEF T2
  <2>3. Leads(w, m)'
    BY <1>3, <1>4, <1>7, <2>1, LeadsKept
  <2>4. Belongs(m, h)'
    BY <1>4, <1>7, <2>1, <2>2, BelongsKept
  <2>5. w = Null <=> m = <<>>
    BY <1>3, <1>4, LeadsFacts
  <2>6. Leads(p[t], m)' /\ Belongs(m, HeapOf(t))'
    BY <2>3, <2>4 DEF Leads, Belongs
  <2> QED BY <2>5, <2>6 DEF HandOk
<1>15. Deferral(L2)'
  <2>1. PICK H : H = {}
    OBVIOUS
  <2>2. \A k \in Heap \ H : L2[OfHeap(k)] = L[OfHeap(k)] /\ defer'[k] = defer[k]
    BY <1>11, Holders DEF x
  <2>3. \A u \in Thread \ {t} : L2[OfThread(u)] = L[OfThread(u)]
    BY <1>11, Holders DEF x
  <2>4. \A z \in Holder \ {x} : Range(L[z]) \subseteq T2
    <3>1. ASSUME NEW z \in Holder \ {x} PROVE NoShare(L[z], L[x])
      BY <1>1 DEF Apart
    <3>2. \A z \in Holder : Range(L[z]) \subseteq Waiting(L)
      BY <1>1, ListFacts
    <3> QED BY <1>1, <1>3, <1>8, <3>1, <3>2 DEF NoShare
  <2>5. \A k \in Heap \ H : Range(L[OfHeap(k)]) \subseteq T2
    BY <2>4, Holders DEF x
  <2>6. \A u \in Thread \ {t} : Range(L[OfThread(u)]) \subseteq T2
    BY <2>4, Holders DEF x
  <2>7. \A k \in Heap \cap H : QueueOk(k, L2[OfHeap(k)])'
    BY <2>1
  <2>8. HandOk(t, L2[OfThread(t)])'
    BY <1>11, <1>14 DEF x
  <2> HIDE DEF T2
  <2> QED BY <1>1, <1>7, <1>10, <2>2, <2>3, <2>5, <2>6, <2>7, <2>8, DeferralMoves
<1>16. T2 = live' \cup Waiting(L2) /\ Waiting(L2) \cap live' = {}
  BY <1>1, <1>2, <1>3, <1>13
<1>17. OthersAlone(live \cap live') /\ LiveMoves
  <2>1. live \cap live' \subseteq T2
    BY <1>1, <1>2, <1>3
  <2> QED BY <1>7, <2>1, AloneSubset DEF LiveMoves
<1>18. PICK T3 : T3 = T2
  OBVIOUS
<1>19. Placement(L2, T3)'
  BY <1>6, <1>15, <1>16, <1>18 DEF Placement, Waiting
<1> QED BY <1>7, <1>17, <1>19 DEF MovedTo
-----------------------------------------------------------------------------
(* What the calls rely on between their steps.                               *)

CallTypes ==
  /\ workload \in Workload
  /\ p \in [Thread -> Block \cup {Null}]
  /\ ask \in [Thread -> Nat]
  /\ defer \in [Heap -> Block \cup {Null}]

\* A thread that looks for a small block has none left in the active span.
Refills(t) ==
  ask[t] \in SmallClass /\ (at[t] = "refill" \/ (at[t] \in {"take", "drain"} /\ why[t] = "alloc"))
HasHeap(t) ==
  at[t] \in {"take", "drain", "refill", "release"} /\ why[t] # "close" => thread_heap[t] # NoHeap
Exhausted(t) == Refills(t) => active[thread_heap[t]][ask[t]].free_count = 0
ClosesAlone(t) ==
  why[t] = "close" => /\ \A u \in Thread \ {t} : at[u] = "idle" /\ why[u] # "close"
                      /\ \A u \in Thread : thread_heap[u] = NoHeap
                      /\ live = {}
                      /\ at[t] \in {"take", "drain", "unmap"} => HeapsLeft

Calls ==
  /\ HeapTypes /\ CallTypes
  /\ \A t \in Thread : HasHeap(t) /\ Exhausted(t) /\ ClosesAlone(t)

Upd(f, t, v, g) == g = [f EXCEPT ![t] = v] \/ (g = f /\ v = f[t])

\* Thread t goes to l for the reason r, with class a, block q and heap x.
Local(t, l, r, a, q, x) ==
  /\ Upd(at, t, l, at') /\ Upd(why, t, r, why') /\ Upd(ask, t, a, ask') /\ Upd(p, t, q, p')
  /\ Upd(thread_heap, t, x, thread_heap')
  /\ UNCHANGED workload

Alone(t) == \A u \in Thread \ {t} : why[u] # "close"

OwnStep(t) ==
  \A u \in Thread \ {t} :
    /\ at'[u] = at[u] /\ why'[u] = why[u] /\ ask'[u] = ask[u] /\ p'[u] = p[u]
    /\ thread_heap'[u] = thread_heap[u]

\* What a thread has for itself after its step.
LEMMA LocalFacts ==
  ASSUME Phases, Calls, NEW t \in Thread, NEW l, NEW r, NEW a, NEW q, NEW x, Local(t, l, r, a, q, x)
  PROVE  /\ OwnStep(t)
         /\ at'[t] = l /\ why'[t] = r /\ ask'[t] = a /\ p'[t] = q /\ thread_heap'[t] = x
         /\ a \in Nat => ask' \in [Thread -> Nat]
         /\ q \in Block \cup {Null} => p' \in [Thread -> Block \cup {Null}]
<1>1. at \in [Thread -> Label] /\ why \in [Thread -> Reason]
  BY DEF Phases, Reason
<1>2. ask \in [Thread -> Nat] /\ p \in [Thread -> Block \cup {Null}] /\ thread_heap \in [Thread -> HeapOrNone]
  BY DEF Calls, CallTypes, HeapTypes
<1>3. at'[t] = l /\ \A u \in Thread \ {t} : at'[u] = at[u]
  BY <1>1 DEF Local, Upd
<1>4. why'[t] = r /\ \A u \in Thread \ {t} : why'[u] = why[u]
  BY <1>1 DEF Local, Upd
<1>5. ask'[t] = a /\ (\A u \in Thread \ {t} : ask'[u] = ask[u]) /\ (a \in Nat => ask' \in [Thread -> Nat])
  BY <1>2 DEF Local, Upd
<1>6. p'[t] = q /\ (\A u \in Thread \ {t} : p'[u] = p[u])
      /\ (q \in Block \cup {Null} => p' \in [Thread -> Block \cup {Null}])
  BY <1>2 DEF Local, Upd
<1>7. thread_heap'[t] = x /\ \A u \in Thread \ {t} : thread_heap'[u] = thread_heap[u]
  BY <1>2 DEF Local, Upd
<1> QED BY <1>3, <1>4, <1>5, <1>6, <1>7 DEF OwnStep

\* A step of t leaves the hands of the others.
LEMMA OthersStayOn ==
  ASSUME NEW t \in Thread, Alone(t), OwnStep(t)
  PROVE  OthersStay(t)
<1>1. ASSUME NEW u \in Thread \ {t} PROVE HeapOf(u)' = HeapOf(u)
  <2>1. why[u] # "close" /\ why'[u] = why[u] /\ thread_heap'[u] = thread_heap[u]
    BY DEF Alone, OwnStep
  <2>2. HeapOf(u) = thread_heap[u]
    BY <2>1 DEF HeapOf
  <2>3. HeapOf(u)' = thread_heap'[u]
    BY <2>1 DEF HeapOf
  <2> QED BY <2>1, <2>2, <2>3
<1> QED BY <1>1 DEF OthersStay, OwnStep

\* The heap at hand.
LEMMA ToCloseIn ==
  ASSUME HeapTypes, HeapsLeft
  PROVE  ToClose \in Heap /\ \E b \in Bucket : ToClose = heaps[b]
<1> DEFINE S == {b \in Bucket : heaps[b] # NoHeap}
<1>1. S \subseteq Nat /\ S # {}
  <2>1. Bucket \subseteq Nat
    BY HeapAssumption DEF Bucket, Life!Bucket
  <2> QED BY <2>1 DEF HeapsLeft, Bucket
<1>2. PICK b \in S : \A d \in S : b <= d
  BY <1>1, LeastElement
<1>3. b \in Bucket /\ heaps[b] \in Heap
  BY HeapSets DEF HeapTypes, HeapOrNone, Life!HeapOrNone, Heap
<1>4. \A d \in 0..(b - 1) : heaps[d] = NoHeap
  <2>1. ASSUME NEW d \in 0..(b - 1) PROVE d \in Bucket /\ ~(b <= d)
    BY <1>3, HeapAssumption DEF Bucket, Life!Bucket
  <2> QED BY <1>2, <2>1
<1>5. \E h \in Heap : \E e \in Life!Bucket : h = heaps[e] /\ \A d \in 0..(e - 1) : heaps[d] = NoHeap
  BY <1>3, <1>4 DEF Bucket
<1> QED BY <1>5 DEF ToClose, Bucket

\* The heap to close depends on the table of heaps alone.
LEMMA ToCloseStays == UNCHANGED heaps => ToClose' = ToClose
BY Zenon DEF ToClose, Life!Bucket, Heap, NoHeap, Life!Heap, Life!NoHeap

\* A thread that works off deferred frees has a heap to free them to.
LEMMA HandHeap ==
  ASSUME Calls, Phases, NEW t \in Thread, at[t] \in {"take", "drain", "refill", "release"}
  PROVE  HeapOf(t) \in Heap
<1>1. CASE why[t] = "close"
  <2>1. at[t] \in {"take", "drain"}
    BY <1>1, IdleFacts
  <2>2. HeapsLeft
    BY <1>1, <2>1 DEF Calls, ClosesAlone
  <2> QED BY <1>1, <2>2, ToCloseIn DEF HeapOf, Calls
<1>2. CASE why[t] # "close"
  <2>1. thread_heap[t] # NoHeap /\ thread_heap[t] \in HeapOrNone
    BY <1>2 DEF Calls, HasHeap, HeapTypes
  <2> QED BY <1>2, <2>1 DEF HeapOf, HeapOrNone, Life!HeapOrNone, Heap, NoHeap
<1> QED BY <1>1, <1>2

\* A step of t keeps what the calls of all threads rely on; that of other threads
\* because no two threads have one heap.
LEMMA CallsKept ==
  ASSUME Phases, Calls, Life!OneOwner, NEW t \in Thread, Alone(t),
         NEW l, NEW r, NEW a \in Nat, NEW q \in Block \cup {Null}, NEW x, Local(t, l, r, a, q, x),
         defer' \in [Heap -> Block \cup {Null}], HeapTypes',
         \A k \in Heap : k # HeapOf(t) => active'[k] = active[k],
         HasHeap(t)', Exhausted(t)', ClosesAlone(t)'
  PROVE  Calls'
<1>1. /\ OwnStep(t) /\ ask' \in [Thread -> Nat] /\ p' \in [Thread -> Block \cup {Null}]
      /\ workload' \in Workload
  BY LocalFacts DEF Local, Calls, CallTypes
<1>2. CallTypes'
  BY <1>1 DEF CallTypes
<1>3. ASSUME NEW u \in Thread \ {t} PROVE HasHeap(u)' /\ Exhausted(u)' /\ ClosesAlone(u)'
  <2>1. /\ at'[u] = at[u] /\ why'[u] = why[u] /\ ask'[u] = ask[u] /\ thread_heap'[u] = thread_heap[u]
        /\ why[u] # "close"
    BY <1>1 DEF OwnStep, Alone
  <2>2. HasHeap(u) /\ Exhausted(u)
    BY DEF Calls
  <2>3. HasHeap(u)' /\ ClosesAlone(u)'
    BY <2>1, <2>2 DEF HasHeap, ClosesAlone
  <2>4. ASSUME Refills(u) PROVE active'[thread_heap[u]] = active[thread_heap[u]]
    <3>1. thread_heap[u] # NoHeap /\ at[u] # "idle"
      BY <2>1, <2>2, <2>4 DEF Refills, HasHeap
    <3>2. thread_heap[u] \in Heap
      BY <3>1, HeapSets DEF Calls, HeapTypes, HeapOrNone, Life!HeapOrNone, Heap, NoHeap
    <3>3. why[t] # "close"
      BY <3>1 DEF Calls, ClosesAlone
    <3>4. thread_heap[u] # thread_heap[t]
      BY <3>1 DEF Life!OneOwner, NoHeap
    <3> QED BY <3>2, <3>3, <3>4 DEF HeapOf
  <2>5. Refills(u)' <=> Refills(u)
    BY <2>1 DEF Refills
  <2>6. Exhausted(u)'
    BY <2>1, <2>2, <2>4, <2>5 DEF Exhausted
  <2> QED BY <2>3, <2>6
<1> QED BY <1>2, <1>3 DEF Calls

\* A step about the pool alone keeps the lists of deferred frees.
LEMMA QuietMoves ==
  ASSUME Phases, Calls, NEW t \in Thread, Alone(t), NEW L, NEW T, Placement(L, T),
         NEW l, NEW r, NEW a, NEW q, NEW x, Local(t, l, r, a, q, x), UNCHANGED defer,
         at[t] \notin {"defer", "drain"}, l \notin {"defer", "drain"}, l = "take" => q \in Block,
         NEW T2, PoolTo(Waiting(L), T2)
  PROVE  \E L2, T3 : MovedTo(L2, T3)
<1>1. OwnStep(t) /\ at'[t] = l /\ p'[t] = q
  BY LocalFacts
<1>2. OthersStay(t)
  BY <1>1, OthersStayOn
<1>3. OthersAlone(Waiting(L)) /\ OthersAlone(live \cap live')
  BY AloneSubset DEF PoolTo
<1>4. Deferral(L)'
  BY <1>1, <1>2, <1>3, DeferralKept DEF Placement
<1>5. T2 = live' \cup Waiting(L) /\ Waiting(L) \cap live' = {} /\ Placed(T2)' /\ LiveMoves
  BY DEF PoolTo
<1>6. Placement(L, T2)'
  BY <1>4, <1>5 DEF Placement, Waiting
<1> QED BY <1>3, <1>5, <1>6 DEF MovedTo

\* What every step of thread t keeps.
Result(t) ==
  /\ \E l, r, a, q, x : Local(t, l, r, a, q, x) /\ a \in Nat /\ q \in Block \cup {Null}
  /\ defer' \in [Heap -> Block \cup {Null}]
  /\ \A k \in Heap : k # HeapOf(t) => active'[k] = active[k]
  /\ HasHeap(t)' /\ Exhausted(t)' /\ ClosesAlone(t)'
  /\ \E L, T : MovedTo(L, T)

\* Before a step of thread t.
Before(t, L, T) == Phases /\ Calls /\ Alone(t) /\ Placement(L, T)

OthersIdle(t) == \A u \in Thread \ {t} : at[u] = "idle" /\ why[u] # "close"
NoOwners == \A u \in Thread : thread_heap[u] = NoHeap

\* A step by the values that it leaves.
LEMMA MovesResult ==
  ASSUME NEW t \in Thread, NEW L, NEW T, Before(t, L, T),
         NEW l, NEW r, NEW a \in Nat, NEW q \in Block \cup {Null}, NEW x, Local(t, l, r, a, q, x),
         defer' \in [Heap -> Block \cup {Null}],
         ActiveBy(HeapOf(t)), \E L2, T2 : MovedTo(L2, T2),
         l \in {"take", "drain", "refill", "release"} /\ r # "close" => x # NoHeap,
         a \in SmallClass /\ (l = "refill" \/ (l \in {"take", "drain"} /\ r = "alloc")) =>
           active'[x][a].free_count = 0,
         r = "close" => OthersIdle(t) /\ NoOwners /\ x = NoHeap /\ live' = {},
         r = "close" /\ l \in {"take", "drain", "unmap"} => HeapsLeft'
  PROVE  Result(t)
<1>1. Phases /\ Calls
  BY DEF Before
<1>2. /\ OwnStep(t) /\ at'[t] = l /\ why'[t] = r /\ ask'[t] = a /\ p'[t] = q /\ thread_heap'[t] = x
  BY <1>1, LocalFacts
<1>3. \A k \in Heap : k # HeapOf(t) => active'[k] = active[k]
  BY DEF ActiveBy
<1>4. HasHeap(t)'
  BY <1>2 DEF HasHeap, NoHeap, Life!NoHeap
<1>5. Exhausted(t)'
  BY <1>2 DEF Exhausted, Refills
<1>6. ClosesAlone(t)'
  <2>1. CASE r # "close"
    BY <1>2, <2>1 DEF ClosesAlone
  <2>2. CASE r = "close"
    <3>1. \A u \in Thread \ {t} : at'[u] = "idle" /\ why'[u] # "close"
      BY <1>2, <2>2 DEF OwnStep, OthersIdle
    <3>2. \A u \in Thread : thread_heap'[u] = NoHeap
      BY <1>2, <2>2 DEF OwnStep, NoOwners
    <3>3. live' = {} /\ (l \in {"take", "drain", "unmap"} => HeapsLeft')
      BY <2>2
    <3> QED BY <1>2, <3>1, <3>2, <3>3 DEF ClosesAlone
  <2> QED BY <2>1, <2>2
<1>7. \E l2, r2, a2, q2, x2 : Local(t, l2, r2, a2, q2, x2) /\ a2 \in Nat /\ q2 \in Block \cup {Null}
  OBVIOUS
<1> QED BY <1>3, <1>4, <1>5, <1>6, <1>7 DEF Result

\* A step that leaves the lists of deferred frees alone.
LEMMA QuietResult ==
  ASSUME NEW t \in Thread, NEW L, NEW T, Before(t, L, T),
         NEW l, NEW r, NEW a \in Nat, NEW q \in Block \cup {Null}, NEW x, Local(t, l, r, a, q, x),
         UNCHANGED defer,
         at[t] \notin {"defer", "drain"}, l \notin {"defer", "drain"}, l = "take" => q \in Block,
         (\E T2 : PoolTo(Waiting(L), T2)) /\ ActiveBy(HeapOf(t)),
         l \in {"take", "refill", "release"} /\ r # "close" => x # NoHeap,
         a \in SmallClass /\ (l = "refill" \/ (l = "take" /\ r = "alloc")) =>
           active'[x][a].free_count = 0,
         r = "close" => OthersIdle(t) /\ NoOwners /\ x = NoHeap /\ live' = {},
         r = "close" /\ l \in {"take", "unmap"} => HeapsLeft'
  PROVE  Result(t)
<1>1. Phases /\ Calls /\ Alone(t) /\ Placement(L, T)
  BY DEF Before
<1>2. \E L2, T2 : MovedTo(L2, T2)
  BY <1>1, QuietMoves
<1>3. defer' \in [Heap -> Block \cup {Null}]
  BY <1>1 DEF Calls, CallTypes
<1>4. ActiveBy(HeapOf(t))
  OBVIOUS
<1> QED BY <1>2, <1>3, <1>4, MovesResult
-----------------------------------------------------------------------------
(* Every step of a thread *)

\* What a thread that starts a call is, and what it has.
LEMMA ReadyFacts ==
  ASSUME Phases, Calls, NEW t \in Thread, Ready(t)
  PROVE  /\ at[t] = "idle" /\ why[t] # "close" /\ HeapOf(t) = thread_heap[t]
         /\ thread_heap[t] \in Heap /\ \A u \in Thread : why[u] # "close"
<1>1. at[t] = "idle" /\ thread_heap[t] # NoHeap /\ \A u \in Thread : why[u] # "close"
  BY DEF Ready, Closing
<1>2. thread_heap[t] \in HeapOrNone
  BY DEF Calls, HeapTypes
<1>3. thread_heap[t] \in Heap
  BY <1>1, <1>2, HeapSets
<1> QED BY <1>1, <1>3 DEF HeapOf

\* A call in one step.
LEMMA IdleResult ==
  ASSUME NEW t \in Thread, NEW L, NEW T, Before(t, L, T), Ready(t),
         UNCHANGED <<lifeVars, at, defer, workload, callVars>>,
         (\E T2 : PoolTo(Waiting(L), T2)) /\ ActiveBy(thread_heap[t])
  PROVE  Result(t)
<1>1. Phases /\ Calls
  BY DEF Before
<1>2. at[t] = "idle" /\ why[t] # "close" /\ HeapOf(t) = thread_heap[t]
  BY <1>1, ReadyFacts
<1>3. Local(t, at[t], why[t], ask[t], p[t], thread_heap[t]) /\ UNCHANGED defer
  BY DEF Local, Upd, lifeVars, callVars
<1>4. ask[t] \in Nat /\ p[t] \in Block \cup {Null}
  BY <1>1 DEF Calls, CallTypes
<1>5. (\E T2 : PoolTo(Waiting(L), T2)) /\ ActiveBy(HeapOf(t))
  BY <1>2
<1> QED BY <1>2, <1>3, <1>4, <1>5, QuietResult

\* The end of a call that had run out of blocks.
LEMMA ReturnsResult ==
  ASSUME NEW t \in Thread, NEW L, NEW T, Before(t, L, T), at[t] = "refill", Returns(t),
         (\E T2 : PoolTo(Waiting(L), T2)) /\ ActiveBy(thread_heap[t])
  PROVE  Result(t)
<1>1. Phases /\ Calls
  BY DEF Before
<1>2. why[t] # "close"
  BY <1>1, IdleFacts
<1>3. Local(t, "idle", "none", 0, p[t], thread_heap[t]) /\ UNCHANGED defer
  BY DEF Local, Upd, lifeVars, Returns, Goto, Life!Goto
<1>4. p[t] \in Block \cup {Null}
  BY <1>1 DEF Calls, CallTypes
<1>5. (\E T2 : PoolTo(Waiting(L), T2)) /\ ActiveBy(HeapOf(t))
  BY <1>2 DEF HeapOf
<1> QED BY <1>3, <1>4, <1>5, QuietResult

\* What holds before a step, by its parts.
LEMMA BeforeFacts ==
  ASSUME NEW t \in Thread, NEW L, NEW T, Before(t, L, T)
  PROVE  /\ Phases /\ Calls /\ Placed(T) /\ T = live \cup Waiting(L) /\ Waiting(L) \cap live = {}
         /\ workload \in Workload /\ ask[t] \in Nat /\ p[t] \in Block \cup {Null}
         /\ defer \in [Heap -> Block \cup {Null}]
BY DEF Before, Calls, CallTypes, Placement

\* A small block from the active span.
LEMMA AllocActiveResult ==
  ASSUME NEW t \in Thread, NEW L, NEW T, Before(t, L, T), NEW c, AllocActive(t, c)
  PROVE  Result(t)
<1>1. /\ Phases /\ Calls /\ Placed(T) /\ T = live \cup Waiting(L) /\ Waiting(L) \cap live = {}
  BY BeforeFacts
<1>2. Ready(t) /\ c \in SmallClass
  BY DEF AllocActive
<1>3. PICK h : h = thread_heap[t]
  OBVIOUS
<1>4. PICK a : a = active[h][c]
  OBVIOUS
<1>5. h \in Heap
  BY <1>1, <1>2, <1>3, ReadyFacts
<1>6. /\ a.free_count > 0 /\ UseActive(h, c, a)
      /\ UNCHANGED <<size_cache, spanVars>>
      /\ UNCHANGED <<lifeVars, at, defer, workload, callVars>>
  BY <1>3, <1>4 DEF AllocActive
<1>7. PICK W : W = Waiting(L)
  OBVIOUS
<1>8. (\E T2 : PoolTo(W, T2)) /\ ActiveBy(h)
  <2>1. T = live \cup W /\ W \cap live = {}
    BY <1>1, <1>7
  <2> QED BY <1>1, <1>2, <1>4, <1>5, <1>6, <2>1, AllocActivePool
<1> QED BY <1>2, <1>3, <1>6, <1>7, <1>8, IdleResult

\* A small block from a partly used span.
LEMMA PromoteResult ==
  ASSUME NEW t \in Thread, NEW L, NEW T, Before(t, L, T), Promote(t)
  PROVE  Result(t)
<1>1. /\ Phases /\ Calls /\ Placed(T) /\ T = live \cup Waiting(L) /\ Waiting(L) \cap live = {}
  BY BeforeFacts
<1>2. PICK h : h = thread_heap[t]
  OBVIOUS
<1>3. PICK c : c = ask[t]
  OBVIOUS
<1>4. at[t] = "refill" /\ c \in SmallClass /\ size_cache[h][c] # <<>>
  BY <1>2, <1>3 DEF Promote
<1>5. why[t] # "close"
  BY <1>1, <1>4, IdleFacts
<1>6. h \in Heap
  BY <1>1, <1>2, <1>4, <1>5, HandHeap DEF HeapOf
<1>7. active[h][c].free_count = 0
  BY <1>1, <1>2, <1>3, <1>4 DEF Calls, Exhausted, Refills
<1>8. PICK s : s = Head(size_cache[h][c])
  OBVIOUS
<1>9. PICK a : a = ActiveSpan(s, data[s])
  OBVIOUS
<1>10. PICK l : l = Tail(size_cache[h][c])
  OBVIOUS
<1>11. UseActive(h, c, a) /\ UNCHANGED spanVars /\ Returns(t)
  BY <1>2, <1>3, <1>8, <1>9 DEF Promote
<1>12. SetAt(size_cache, h, c, l, size_cache')
  BY <1>2, <1>3, <1>10 DEF Promote, SetAt
<1>13. PICK W : W = Waiting(L)
  OBVIOUS
<1>14. (\E T2 : PoolTo(W, T2)) /\ ActiveBy(h)
  <2>1. T = live \cup W /\ W \cap live = {}
    BY <1>1, <1>13
  <2> QED BY <1>1, <1>4, <1>6, <1>7, <1>8, <1>9, <1>10, <1>11, <1>12, <2>1, PromotePool
<1> QED BY <1>2, <1>4, <1>11, <1>13, <1>14, ReturnsResult

\* A small block from a new span.
LEMMA NewSpanResult ==
  ASSUME NEW t \in Thread, NEW L, NEW T, Before(t, L, T), NewSpan(t)
  PROVE  Result(t)
<1>1. /\ Phases /\ Calls /\ Placed(T) /\ T = live \cup Waiting(L) /\ Waiting(L) \cap live = {}
      /\ workload \in Workload
  BY BeforeFacts
<1>2. PICK h : h = thread_heap[t]
  OBVIOUS
<1>3. PICK c : c = ask[t]
  OBVIOUS
<1>4. at[t] = "refill" /\ c \in SmallClass /\ size_cache[h][c] = <<>> /\ Returns(t)
      /\ UNCHANGED <<size_cache, data>>
  BY <1>2, <1>3 DEF NewSpan
<1>5. why[t] # "close"
  BY <1>1, <1>4, IdleFacts
<1>6. h \in Heap
  BY <1>1, <1>2, <1>4, <1>5, HandHeap DEF HeapOf
<1>7. active[h][c].free_count = 0
  BY <1>1, <1>2, <1>3, <1>4 DEF Calls, Exhausted, Refills
<1>8. PICK s \in Span :
        /\ FromCache(h, 1, s) \/ FromGlobal(h, 1, s) \/ FromSystem(h, 1, s)
        /\ Owned(h, c, s)
        /\ SetAt(active, h, c, [span |-> s, free_list |-> 1, first_autolink |-> 1,
                                free_count |-> BlockCount[c] - 1], active')
        /\ HandOut(<<s, 0>>)
  BY <1>2, <1>3 DEF NewSpan, SetAt
<1>9. PICK v : v = [span |-> s, free_list |-> 1, first_autolink |-> 1, free_count |-> BlockCount[c] - 1]
  OBVIOUS
<1>10. SetAt(active, h, c, v, active')
  BY <1>8, <1>9
<1>13. PICK W : W = Waiting(L)
  OBVIOUS
<1>14. (\E T2 : PoolTo(W, T2)) /\ ActiveBy(h)
  <2>1. T = live \cup W /\ W \cap live = {}
    BY <1>1, <1>13
  <2> QED BY <1>1, <1>4, <1>6, <1>7, <1>8, <1>9, <1>10, <2>1, NewSpanPool
<1> QED BY <1>2, <1>4, <1>13, <1>14, ReturnsResult

\* A large block from the cache of the heap.
LEMMA LargeFromCachePool ==
  ASSUME NEW t \in Thread, NEW L, NEW T, Before(t, L, T), thread_heap[t] \in Heap,
         NEW c, LargeFromCache(t, c)
  PROVE  (\E T2 : PoolTo(Waiting(L), T2)) /\ ActiveBy(thread_heap[t])
<1>1. /\ Phases /\ Calls /\ Placed(T) /\ T = live \cup Waiting(L) /\ Waiting(L) \cap live = {}
      /\ workload \in Workload
  BY BeforeFacts
<1>2. PICK h : h = thread_heap[t]
  OBVIOUS
<1>3. PICK S : S = LargeFits(h, Spans(c))
  OBVIOUS
<1>4. PICK m : m = Smallest(S)
  OBVIOUS
<1>5. S # {}
  BY <1>2, <1>3 DEF LargeFromCache
<1>6. S \subseteq SpanUnits
  BY <1>3 DEF LargeFits, SpanUnits
<1>7. m \in SpanUnits
  <2>1. S \subseteq Nat
    BY <1>6, UnitFacts
  <2> QED BY <1>4, <1>5, <1>6, <2>1, SmallestIn
<1>8. PICK s \in Span :
        /\ FromCache(h, m, s)
        /\ size_class' = [size_class EXCEPT ![s] = ClassOf(m)]
        /\ span_heap' = IF m = 1 THEN [span_heap EXCEPT ![s] = h] ELSE span_heap
        /\ HandOut(<<s, 0>>)
  BY <1>2, <1>3, <1>4 DEF LargeFromCache, LargeClass
<1>9. UNCHANGED <<active, size_cache, data>>
  BY DEF LargeFromCache
<1>10. PICK W : W = Waiting(L)
  OBVIOUS
<1>11. T = live \cup W /\ W \cap live = {} /\ h \in Heap
  BY <1>1, <1>2, <1>10
<1>12. (\E T2 : PoolTo(W, T2)) /\ \A k \in Heap : ActiveBy(k)
  BY <1>1, <1>7, <1>8, <1>9, <1>11, LargeCachedPool
<1> QED BY <1>2, <1>10, <1>11, <1>12

\* The same, before the deferred frees are looked at.
LEMMA AllocLargeCachedResult ==
  ASSUME NEW t \in Thread, NEW L, NEW T, Before(t, L, T), NEW c, AllocLargeCached(t, c)
  PROVE  Result(t)
<1>1. Ready(t) /\ LargeFromCache(t, c) /\ UNCHANGED <<lifeVars, at, defer, workload, callVars>>
  BY DEF AllocLargeCached
<1>2. thread_heap[t] \in Heap
  BY <1>1, BeforeFacts, ReadyFacts
<1> QED BY <1>1, <1>2, LargeFromCachePool, IdleResult

\* A thread that refills or releases has a heap.
LEMMA RefillHeap ==
  ASSUME NEW t \in Thread, NEW L, NEW T, Before(t, L, T), at[t] \in {"refill", "release"}
  PROVE  thread_heap[t] \in Heap /\ why[t] # "close" /\ HeapOf(t) = thread_heap[t]
<1>1. Phases /\ Calls
  BY BeforeFacts
<1>2. why[t] # "close"
  BY <1>1, IdleFacts
<1> QED BY <1>1, <1>2, HandHeap DEF HeapOf

\* The same, after the deferred frees are worked off.
LEMMA LargeAgainResult ==
  ASSUME NEW t \in Thread, NEW L, NEW T, Before(t, L, T), LargeAgain(t)
  PROVE  Result(t)
<1>1. at[t] = "refill" /\ LargeFromCache(t, ask[t]) /\ Returns(t)
  BY DEF LargeAgain
<1>2. thread_heap[t] \in Heap
  BY <1>1, RefillHeap
<1> QED BY <1>1, <1>2, LargeFromCachePool, ReturnsResult

\* A large class and the number of its units.
LEMMA LargeSpans ==
  ASSUME NEW c, IsLarge(c)
  PROVE  Spans(c) \in SpanUnits /\ c = ClassOf(Spans(c)) /\ c \notin SmallClass
BY BlockCountAssumption, SpanAssumption DEF IsLarge, Spans, ClassOf, SpanUnits, SmallClass

\* A large block from a new span.
LEMMA LargeNewResult ==
  ASSUME NEW t \in Thread, NEW L, NEW T, Before(t, L, T), LargeNew(t)
  PROVE  Result(t)
<1>1. /\ Phases /\ Calls /\ Placed(T) /\ T = live \cup Waiting(L) /\ Waiting(L) \cap live = {}
      /\ workload \in Workload
  BY BeforeFacts
<1>2. PICK h : h = thread_heap[t]
  OBVIOUS
<1>3. PICK c : c = ask[t]
  OBVIOUS
<1>4. PICK n : n = Spans(c)
  OBVIOUS
<1>5. at[t] = "refill" /\ IsLarge(c) /\ Returns(t) /\ UNCHANGED <<active, size_cache, data>>
  BY <1>3 DEF LargeNew
<1>6. n \in SpanUnits /\ c = ClassOf(n)
  BY <1>4, <1>5, LargeSpans
<1>7. h \in Heap
  BY <1>2, <1>5, RefillHeap
<1>8. PICK s \in Span :
        /\ FromGlobal(h, n, s) \/ FromSystem(h, n, s)
        /\ Owned(h, c, s)
        /\ HandOut(<<s, 0>>)
  BY <1>2, <1>3, <1>4 DEF LargeNew
<1>9. PICK W : W = Waiting(L)
  OBVIOUS
<1>10. T = live \cup W /\ W \cap live = {}
  BY <1>1, <1>9
<1>11. (\E T2 : PoolTo(W, T2)) /\ \A k \in Heap : ActiveBy(k)
  BY <1>1, <1>5, <1>6, <1>7, <1>8, <1>10, LargeNewPool
<1> QED BY <1>2, <1>5, <1>7, <1>9, <1>11, ReturnsResult

\* An oversized block.
LEMMA AllocOversizedResult ==
  ASSUME NEW t \in Thread, NEW L, NEW T, Before(t, L, T), NEW c, AllocOversized(t, c)
  PROVE  Result(t)
<1>1. /\ Phases /\ Calls /\ Placed(T) /\ T = live \cup Waiting(L) /\ Waiting(L) \cap live = {}
      /\ workload \in Workload
  BY BeforeFacts
<1>2. PICK n : n = Spans(c)
  OBVIOUS
<1>3. /\ Ready(t) /\ n > LargeClassCount /\ UNCHANGED <<active, size_cache, data, size_class>>
      /\ UNCHANGED <<lifeVars, at, defer, workload, callVars>>
  BY <1>2 DEF AllocOversized
<1>4. PICK s \in Span : /\ MapSpan(n, s)
                        /\ span_heap' = [span_heap EXCEPT ![s] = NoHeap]
                        /\ HandOut(<<s, 0>>)
  BY <1>2 DEF AllocOversized
<1>5. PICK W : W = Waiting(L)
  OBVIOUS
<1>6. T = live \cup W /\ W \cap live = {}
  BY <1>1, <1>5
<1>7. (\E T2 : PoolTo(W, T2)) /\ \A k \in Heap : ActiveBy(k)
  BY <1>1, <1>3, <1>4, <1>6, OversizedPool
<1>8. thread_heap[t] \in Heap
  BY <1>1, <1>3, ReadyFacts
<1> QED BY <1>3, <1>5, <1>7, <1>8, IdleResult

\* A free to the own heap.
LEMMA FreeResult ==
  ASSUME NEW t \in Thread, NEW L, NEW T, Before(t, L, T), NEW b \in live, Free(t, b)
  PROVE  Result(t)
<1>1. /\ Phases /\ Calls /\ Placed(T) /\ T = live \cup Waiting(L) /\ Waiting(L) \cap live = {}
  BY BeforeFacts
<1>2. PICK h : h = thread_heap[t]
  OBVIOUS
<1>3. /\ Ready(t) /\ UNCHANGED <<lifeVars, at, defer, workload, callVars>>
      /\ span_heap[SpanOf(b)] = h /\ FreeToHeap(h, b) /\ live' = live \ {b}
  BY <1>2 DEF Free
<1>4. h \in Heap
  BY <1>1, <1>2, <1>3, ReadyFacts
<1>5. PICK W : W = Waiting(L)
  OBVIOUS
<1>6. T = live \cup W /\ W \cap live = {}
  BY <1>1, <1>5
<1>7. (\E T2 : PoolTo(W, T2)) /\ ActiveBy(h)
  BY <1>1, <1>3, <1>4, <1>6, FreePool
<1> QED BY <1>2, <1>3, <1>5, <1>7, IdleResult

\* A free of an oversized block.
LEMMA FreeOversizedResult ==
  ASSUME NEW t \in Thread, NEW L, NEW T, Before(t, L, T), NEW b \in live, FreeOversized(t, b)
  PROVE  Result(t)
<1>1. /\ Phases /\ Calls /\ Placed(T) /\ T = live \cup Waiting(L) /\ Waiting(L) \cap live = {}
  BY BeforeFacts
<1>2. /\ Ready(t) /\ UNCHANGED <<lifeVars, at, defer, workload, callVars>>
      /\ span_heap[SpanOf(b)] = NoHeap /\ mapped' = mapped \ {SpanOf(b)}
      /\ UNCHANGED <<active, size_cache, data, word, span_cache, global, span_heap, size_class>>
      /\ live' = live \ {b}
  BY DEF FreeOversized, ownVars
<1>3. PICK W : W = Waiting(L)
  OBVIOUS
<1>4. T = live \cup W /\ W \cap live = {}
  BY <1>1, <1>3
<1>5. (\E T2 : PoolTo(W, T2)) /\ \A k \in Heap : ActiveBy(k)
  BY <1>1, <1>2, <1>4, FreeOversizedPool
<1>6. thread_heap[t] \in Heap
  BY <1>1, <1>2, ReadyFacts
<1> QED BY <1>2, <1>3, <1>5, <1>6, IdleResult

\* A step that leaves blocks, spans and their lists alone.
LEMMA StillPool ==
  ASSUME NEW t \in Thread, NEW L, NEW T, Before(t, L, T), UNCHANGED live,
         UNCHANGED <<ownVars, spanVars>>
  PROVE  (\E T2 : PoolTo(Waiting(L), T2)) /\ ActiveBy(HeapOf(t))
<1>1. /\ Placed(T) /\ T = live \cup Waiting(L) /\ Waiting(L) \cap live = {}
  BY BeforeFacts
<1>2. PICK W : W = Waiting(L)
  OBVIOUS
<1>3. T = live \cup W /\ W \cap live = {}
  BY <1>1, <1>2
<1>4. \E T2 : PoolTo(W, T2)
  BY <1>1, <1>3, SamePool
<1>5. ActiveBy(HeapOf(t))
  BY DEF ActiveBy, ownVars
<1> QED BY <1>2, <1>4, <1>5

\* Where a thread goes on when no deferred free is left.
LEMMA CallerIs ==
  /\ Caller("alloc") = "refill" /\ Caller("collect") = "idle"
  /\ Caller("end") = "release" /\ Caller("close") = "unmap"
BY DEF Caller

\* The deferred frees of the thread's own heap.
LEMMA LoadDeferredResult ==
  ASSUME NEW t \in Thread, NEW L, NEW T, Before(t, L, T), Ready(t),
         NEW r \in {"alloc", "collect", "end"}, LoadDeferred(t, thread_heap[t], r),
         NEW a \in Nat, Upd(ask, t, a, ask'),
         a \in SmallClass /\ r = "alloc" => active[thread_heap[t]][a].free_count = 0
  PROVE  Result(t)
<1>1. /\ Phases /\ Calls /\ defer \in [Heap -> Block \cup {Null}]
  BY BeforeFacts
<1>2. /\ at[t] = "idle" /\ why[t] # "close" /\ HeapOf(t) = thread_heap[t]
      /\ thread_heap[t] \in Heap
  BY <1>1, ReadyFacts
<1>3. PICK q : q = defer[thread_heap[t]]
  OBVIOUS
<1>4. q \in Block \cup {Null}
  BY <1>1, <1>2, <1>3
<1>5. PICK l : l = IF q = Null THEN Caller(r) ELSE "take"
  OBVIOUS
<1>6. /\ UNCHANGED <<lifeVars, ownVars, spanVars, defer, live, workload>>
      /\ p' = [p EXCEPT ![t] = q] /\ why' = [why EXCEPT ![t] = r] /\ at' = [at EXCEPT ![t] = l]
  BY <1>3, <1>5 DEF LoadDeferred, Goto, Life!Goto
<1>7. Local(t, l, r, a, q, thread_heap[t])
  BY <1>6 DEF Local, Upd, lifeVars
<1>8. (\E T2 : PoolTo(Waiting(L), T2)) /\ ActiveBy(HeapOf(t))
  BY <1>6, StillPool
<1>9. l \in {"refill", "idle", "release", "take"} /\ (l = "refill" => r = "alloc")
      /\ (l = "take" => q \in Block)
  BY <1>4, <1>5, CallerIs
<1>10. active' = active
  BY <1>6 DEF ownVars
<1>11. thread_heap[t] # NoHeap
  BY <1>2, HeapSets
<1>12. UNCHANGED defer
  BY <1>6
<1> QED BY <1>2, <1>4, <1>7, <1>8, <1>9, <1>10, <1>11, <1>12, QuietResult

\* The calls that look at the deferred frees of the own heap.
LEMMA LoadingResult ==
  ASSUME NEW t \in Thread, NEW L, NEW T, Before(t, L, T),
         \/ \E c \in Nat : AllocSmall(t, c) \/ AllocLarge(t, c)
         \/ Collect(t) \/ ThreadFinalize(t)
  PROVE  Result(t)
<1>1. ask[t] \in Nat
  BY BeforeFacts
<1>2. ASSUME NEW c \in Nat, AllocSmall(t, c) \/ AllocLarge(t, c)
      PROVE  Result(t)
  <2>1. Ready(t) /\ LoadDeferred(t, thread_heap[t], "alloc") /\ Upd(ask, t, c, ask')
    BY <1>2 DEF AllocSmall, AllocLarge, Upd
  <2>2. c \in SmallClass => active[thread_heap[t]][c].free_count = 0
    BY <1>2, LargeSpans DEF AllocSmall, AllocLarge
  <2> QED BY <2>1, <2>2, LoadDeferredResult
<1>3. CASE Collect(t)
  <2>1. Ready(t) /\ LoadDeferred(t, thread_heap[t], "collect") /\ Upd(ask, t, ask[t], ask')
    BY <1>3 DEF Collect, Upd
  <2> QED BY <1>1, <2>1, LoadDeferredResult
<1>4. CASE ThreadFinalize(t)
  <2>1. Ready(t) /\ LoadDeferred(t, thread_heap[t], "end") /\ Upd(ask, t, ask[t], ask')
    BY <1>4 DEF ThreadFinalize, Upd
  <2> QED BY <1>1, <2>1, LoadDeferredResult
<1> QED BY <1>2, <1>3, <1>4

\* The deferred frees of the next heap rpmalloc_finalize closes.
LEMMA LoadToCloseResult ==
  ASSUME NEW t \in Thread, NEW L, NEW T, Before(t, L, T), LoadDeferred(t, ToClose, "close"),
         UNCHANGED ask, HeapsLeft, OthersIdle(t), NoOwners, live = {}, at[t] \in {"idle", "closing"}
  PROVE  Result(t)
<1>1. /\ Phases /\ Calls /\ defer \in [Heap -> Block \cup {Null}] /\ ask[t] \in Nat
  BY BeforeFacts
<1>2. ToClose \in Heap
  BY <1>1, ToCloseIn DEF Calls
<1>3. PICK q : q = defer[ToClose]
  OBVIOUS
<1>4. q \in Block \cup {Null}
  BY <1>1, <1>2, <1>3
<1>5. PICK l : l = IF q = Null THEN Caller("close") ELSE "take"
  OBVIOUS
<1>6. /\ UNCHANGED <<lifeVars, ownVars, spanVars, defer, live, workload>>
      /\ p' = [p EXCEPT ![t] = q] /\ why' = [why EXCEPT ![t] = "close"] /\ at' = [at EXCEPT ![t] = l]
  BY <1>3, <1>5 DEF LoadDeferred, Goto, Life!Goto
<1>7. Local(t, l, "close", ask[t], q, thread_heap[t])
  BY <1>6 DEF Local, Upd, lifeVars
<1>8. (\E T2 : PoolTo(Waiting(L), T2)) /\ ActiveBy(HeapOf(t))
  BY <1>6, StillPool
<1>9. l \in {"unmap", "take"} /\ (l = "take" => q \in Block)
  BY <1>4, <1>5, CallerIs
<1>10. thread_heap[t] = NoHeap
  BY DEF NoOwners
<1>11. HeapsLeft'
  BY <1>6 DEF HeapsLeft, lifeVars, Life!Bucket
<1>12. UNCHANGED defer /\ live' = {}
  BY <1>6
<1> QED BY <1>1, <1>4, <1>7, <1>8, <1>9, <1>10, <1>11, <1>12, QuietResult

\* A thread that closes the heaps is alone.
LEMMA ClosesFacts ==
  ASSUME NEW t \in Thread, NEW L, NEW T, Before(t, L, T), why[t] = "close"
  PROVE  /\ OthersIdle(t) /\ NoOwners /\ live = {}
         /\ at[t] \in {"take", "drain", "unmap"} => HeapsLeft
BY BeforeFacts DEF Calls, ClosesAlone, OthersIdle, NoOwners

\* Finalization looks at the deferred frees of the next heap.
LEMMA ToCloseResult ==
  ASSUME NEW t \in Thread, NEW L, NEW T, Before(t, L, T), Finalize(t) \/ NextToClose(t)
  PROVE  Result(t)
<1>1. CASE Finalize(t)
  BY <1>1, LoadToCloseResult DEF Finalize, Closing, OthersIdle, NoOwners
<1>2. CASE NextToClose(t)
  <2>1. at[t] = "closing" /\ HeapsLeft /\ LoadDeferred(t, ToClose, "close") /\ UNCHANGED ask
    BY <1>2 DEF NextToClose
  <2>2. why[t] = "close"
    BY <2>1, BeforeFacts DEF Phases, CloseLabel
  <2> QED BY <2>1, <2>2, ClosesFacts, LoadToCloseResult
<1> QED BY <1>1, <1>2

\* Another thread has put a block in front meanwhile.
LEMMA TakeFailsResult ==
  ASSUME NEW t \in Thread, NEW L, NEW T, Before(t, L, T), TakeFails(t)
  PROVE  Result(t)
<1>1. /\ Phases /\ Calls /\ ask[t] \in Nat
  BY BeforeFacts
<1>2. /\ at[t] = "take" /\ UNCHANGED <<lifeVars, ownVars, spanVars, defer, live, workload, ask, why>>
      /\ p' = [p EXCEPT ![t] = Null] /\ at' = [at EXCEPT ![t] = Caller(why[t])]
  BY DEF TakeFails, Goto, Life!Goto
<1>3. why[t] \in {"alloc", "collect", "end", "close"}
  BY <1>1, <1>2 DEF Phases
<1>4. PICK l : l = Caller(why[t])
  OBVIOUS
<1>5. l \in {"refill", "idle", "release", "unmap"} /\ (l = "refill" => why[t] = "alloc")
  BY <1>3, <1>4, CallerIs
<1>6. Local(t, l, why[t], ask[t], Null, thread_heap[t])
  BY <1>2, <1>4 DEF Local, Upd, lifeVars
<1>7. (\E T2 : PoolTo(Waiting(L), T2)) /\ ActiveBy(HeapOf(t))
  BY <1>2, StillPool
<1>8. why[t] # "close" => thread_heap[t] # NoHeap
  BY <1>1, <1>2 DEF Calls, HasHeap
<1>9. ask[t] \in SmallClass /\ why[t] = "alloc" => active'[thread_heap[t]][ask[t]].free_count = 0
  <2>1. active' = active
    BY <1>2 DEF ownVars
  <2> QED BY <1>1, <1>2, <2>1 DEF Calls, Exhausted, Refills
<1>10. why[t] = "close" => OthersIdle(t) /\ NoOwners /\ thread_heap[t] = NoHeap /\ live' = {} /\ HeapsLeft'
  <2>1. HeapsLeft => HeapsLeft'
    BY <1>2 DEF HeapsLeft, lifeVars, Life!Bucket
  <2>2. live' = live
    BY <1>2
  <2> QED BY <1>2, <2>1, <2>2, ClosesFacts DEF NoOwners
<1>11. UNCHANGED defer
  BY <1>2
<1> QED BY <1>1, <1>2, <1>5, <1>6, <1>7, <1>8, <1>9, <1>10, <1>11, QuietResult

\* A thread that ends releases a cache to the global cache.
LEMMA ReleaseResult ==
  ASSUME NEW t \in Thread, NEW L, NEW T, Before(t, L, T), Release(t)
  PROVE  Result(t)
<1>1. /\ Phases /\ Calls /\ Placed(T) /\ T = live \cup Waiting(L) /\ Waiting(L) \cap live = {}
      /\ ask[t] \in Nat /\ p[t] \in Block \cup {Null}
  BY BeforeFacts
<1>2. PICK h : h = thread_heap[t]
  OBVIOUS
<1>3. PICK n : n = Smallest(NonEmpty(h))
  OBVIOUS
<1>4. PICK k : k = IF Len(span_cache[h][n]) > MaxRelease THEN MaxRelease ELSE Len(span_cache[h][n])
  OBVIOUS
<1>5. PICK l : l = span_cache[h][n]
  OBVIOUS
<1>6. /\ at[t] = "release" /\ NonEmpty(h) # {} /\ GlobalInsert(n, SubSeq(l, 1, k))
      /\ UNCHANGED <<lifeVars, at, ownVars, span_heap, size_class, mapped, defer, live, workload, callVars>>
  BY <1>2, <1>3, <1>4, <1>5 DEF Release
<1>7. span_cache' = [span_cache EXCEPT ![h][n] = SubSeq(@, k + 1, Len(@))]
  BY <1>2, <1>3, <1>4 DEF Release
<1>8. span_cache' = [span_cache EXCEPT ![h][n] = SubSeq(l, k + 1, Len(l))]
  BY <1>5, <1>7
<1>9. h \in Heap /\ why[t] # "close" /\ HeapOf(t) = h
  BY <1>2, <1>6, RefillHeap
<1>10. PICK W : W = Waiting(L)
  OBVIOUS
<1>11. T = live \cup W /\ W \cap live = {}
  BY <1>1, <1>10
<1>12. (\E T2 : PoolTo(W, T2)) /\ \A j \in Heap : ActiveBy(j)
  <2>1. k = IF Len(l) > MaxRelease THEN MaxRelease ELSE Len(l)
    BY <1>4, <1>5
  <2>2. UNCHANGED <<ownVars, span_heap, size_class, mapped>> /\ UNCHANGED live
    BY <1>6
  <2> QED BY <1>1, <1>3, <1>5, <1>6, <1>8, <1>9, <1>11, <2>1, <2>2, ReleasePool
<1>13. Local(t, at[t], why[t], ask[t], p[t], thread_heap[t]) /\ UNCHANGED defer
  BY <1>6 DEF Local, Upd, lifeVars, callVars
<1>14. (\E T2 : PoolTo(Waiting(L), T2)) /\ ActiveBy(HeapOf(t))
  BY <1>9, <1>10, <1>12
<1>15. thread_heap[t] # NoHeap
  BY <1>2, <1>9, HeapSets
<1> QED BY <1>1, <1>6, <1>9, <1>13, <1>14, <1>15, QuietResult

\* A thread that ends gives its heap up.
LEMMA ReleaseEndsResult ==
  ASSUME NEW t \in Thread, NEW L, NEW T, Before(t, L, T), ReleaseEnds(t)
  PROVE  Result(t)
<1>1. ask[t] \in Nat /\ p[t] \in Block \cup {Null}
  BY BeforeFacts
<1>2. at[t] = "release" /\ UNCHANGED <<ownVars, spanVars, defer, live, workload, ask, p>>
  BY DEF ReleaseEnds
<1>3. Local(t, "push", "none", ask[t], p[t], thread_heap[t])
  BY DEF ReleaseEnds, Life!LinkOrphan, Life!Goto, Local, Upd
<1>4. (\E T2 : PoolTo(Waiting(L), T2)) /\ ActiveBy(HeapOf(t))
  BY <1>2, StillPool
<1>5. UNCHANGED defer
  BY <1>2
<1> QED BY <1>1, <1>2, <1>3, <1>4, <1>5, QuietResult

\* Finalization unmaps the spans in the caches of a heap.
LEMMA UnmapHeapResult ==
  ASSUME NEW t \in Thread, NEW L, NEW T, Before(t, L, T), UnmapHeap(t)
  PROVE  Result(t)
<1>1. /\ Phases /\ Calls /\ Placed(T) /\ T = live \cup Waiting(L) /\ Waiting(L) \cap live = {}
      /\ ask[t] \in Nat /\ p[t] \in Block \cup {Null}
  BY BeforeFacts
<1>2. PICK h : h = ToClose
  OBVIOUS
<1>3. PICK e : e = [n \in SpanUnits |-> <<>>]
  OBVIOUS
<1>4. /\ at[t] = "unmap" /\ mapped' = mapped \ SpansIn(span_cache[h])
      /\ span_cache' = [span_cache EXCEPT ![h] = e]
      /\ UNCHANGED <<thread_heap, ownVars, global, span_heap, size_class, defer, live, workload, callVars>>
      /\ at' = [at EXCEPT ![t] = "closing"]
  BY <1>2, <1>3 DEF UnmapHeap, HeapSpans, Goto, Life!Goto, SpanUnits
<1>5. why[t] = "close"
  BY <1>1, <1>4 DEF Phases, CloseLabel
<1>6. OthersIdle(t) /\ NoOwners /\ live = {} /\ HeapsLeft
  BY <1>4, <1>5, ClosesFacts
<1>7. h \in Heap
  BY <1>1, <1>2, <1>6, ToCloseIn DEF Calls
<1>8. PICK W : W = Waiting(L)
  OBVIOUS
<1>9. T = live \cup W /\ W \cap live = {}
  BY <1>1, <1>8
<1>10. (\E T2 : PoolTo(W, T2)) /\ \A j \in Heap : ActiveBy(j)
  <2>1. UNCHANGED <<ownVars, global, span_heap, size_class>> /\ UNCHANGED live
    BY <1>4
  <2> QED BY <1>1, <1>3, <1>4, <1>7, <1>9, <2>1, UnmapPool
<1>11. ActiveBy(HeapOf(t))
  BY <1>4 DEF ActiveBy, ownVars
<1>12. Local(t, "closing", "close", ask[t], p[t], thread_heap[t])
  BY <1>4, <1>5 DEF Local, Upd, callVars
<1>13. thread_heap[t] = NoHeap /\ live' = {} /\ UNCHANGED defer
  BY <1>4, <1>6 DEF NoOwners
<1> QED BY <1>1, <1>4, <1>6, <1>8, <1>10, <1>11, <1>12, <1>13, QuietResult

\* Finalization unmaps the spans in the global cache.
LEMMA FinalizeEndsResult ==
  ASSUME NEW t \in Thread, NEW L, NEW T, Before(t, L, T), FinalizeEnds(t)
  PROVE  Result(t)
<1>1. /\ Phases /\ Calls /\ Placed(T) /\ T = live \cup Waiting(L) /\ Waiting(L) \cap live = {}
      /\ ask[t] \in Nat /\ p[t] \in Block \cup {Null}
  BY BeforeFacts
<1>2. /\ at[t] = "closing" /\ mapped' = mapped \ UNION {SpansIn(global[n]) : n \in SpanUnits}
      /\ global' = [n \in SpanUnits |-> <<>>]
      /\ UNCHANGED <<thread_heap, ownVars, span_cache, span_heap, size_class, defer, live, workload, callVars>>
      /\ at' = [at EXCEPT ![t] = "closed"]
  BY DEF FinalizeEnds, Goto, Life!Goto, SpanUnits
<1>3. why[t] = "close"
  BY <1>1, <1>2 DEF Phases, CloseLabel
<1>4. OthersIdle(t) /\ NoOwners /\ live = {}
  BY <1>3, ClosesFacts
<1>5. PICK W : W = Waiting(L)
  OBVIOUS
<1>6. T = live \cup W /\ W \cap live = {}
  BY <1>1, <1>5
<1>7. \E T2 : PoolTo(W, T2)
  <2>1. UNCHANGED <<ownVars, span_cache, span_heap, size_class>> /\ UNCHANGED live
    BY <1>2
  <2> QED BY <1>1, <1>2, <1>6, <2>1, UnmapGlobalPool
<1>8. ActiveBy(HeapOf(t))
  BY <1>2 DEF ActiveBy, ownVars
<1>9. Local(t, "closed", "close", ask[t], p[t], thread_heap[t])
  BY <1>2, <1>3 DEF Local, Upd, callVars
<1>10. thread_heap[t] = NoHeap /\ live' = {} /\ UNCHANGED defer
  BY <1>2, <1>4 DEF NoOwners
<1> QED BY <1>1, <1>2, <1>4, <1>5, <1>7, <1>8, <1>9, <1>10, QuietResult

\* A thread takes a heap or gives it back.
LEMMA LifeStepResult ==
  ASSUME NEW t \in Thread, NEW L, NEW T, Before(t, L, T), LifeStep(t)
  PROVE  Result(t)
<1>1. ask[t] \in Nat /\ p[t] \in Block \cup {Null}
  BY BeforeFacts
<1>2. UNCHANGED <<ownVars, spanVars, defer, live, workload, callVars>> /\ why[t] # "close"
  BY DEF LifeStep, Closing
<1>3. \E l, x :
        /\ l \in HeapLabel \cup {"idle"}
        /\ Upd(at, t, l, at') /\ Upd(thread_heap, t, x, thread_heap')
        /\ at[t] \in HeapLabel \cup {"idle"}
  <2>1. CASE Life!ThreadInitialize(t)
    BY <2>1 DEF Life!ThreadInitialize, Life!LoadOrphan, Life!Goto, HeapLabel, Upd
  <2>2. CASE Life!ReadNextOrphan(t)
    BY <2>2 DEF Life!ReadNextOrphan, Life!Goto, HeapLabel, Upd
  <2>3. CASE Life!PopOrphan(t)
    BY <2>3 DEF Life!PopOrphan, Life!Owns, Life!Goto, HeapLabel, Upd
  <2>4. CASE Life!PopFails(t)
    BY <2>4 DEF Life!PopFails, Life!Goto, Life!sharedHeapVars, HeapLabel, Upd
  <2>5. CASE Life!MapHeap(t)
    BY <2>5 DEF Life!MapHeap, Life!Goto, HeapLabel, Upd
  <2>6. CASE Life!LinkHeap(t)
    BY <2>6 DEF Life!LinkHeap, Life!Goto, HeapLabel, Upd
  <2>7. CASE Life!SwapBucket(t)
    BY <2>7 DEF Life!SwapBucket, Life!Owns, Life!Goto, HeapLabel, Upd
  <2>8. CASE Life!SwapBucketFails(t)
    BY <2>8 DEF Life!SwapBucketFails, Life!Goto, Life!sharedHeapVars, HeapLabel, Upd
  <2>9. CASE Life!PushOrphan(t)
    BY <2>9 DEF Life!PushOrphan, Life!Owns, Life!Goto, HeapLabel, Upd
  <2>10. CASE Life!PushFails(t)
    BY <2>10 DEF Life!PushFails, Life!LinkOrphan, Life!Goto, HeapLabel, Upd
  <2> QED BY <2>1, <2>2, <2>3, <2>4, <2>5, <2>6, <2>7, <2>8, <2>9, <2>10
       DEF LifeStep, Life!HeapStep
<1>4. PICK l, x :
        /\ l \in HeapLabel \cup {"idle"}
        /\ Upd(at, t, l, at') /\ Upd(thread_heap, t, x, thread_heap')
        /\ at[t] \in HeapLabel \cup {"idle"}
  BY <1>3
<1>5. Local(t, l, why[t], ask[t], p[t], x)
  BY <1>2, <1>4 DEF Local, Upd, callVars
<1>6. (\E T2 : PoolTo(Waiting(L), T2)) /\ ActiveBy(HeapOf(t))
  BY <1>2, StillPool
<1>7. l \notin {"defer", "drain", "take", "refill", "release"} /\ at[t] \notin {"defer", "drain"}
  BY <1>4 DEF HeapLabel
<1>8. UNCHANGED defer
  BY <1>2
<1> QED BY <1>1, <1>2, <1>5, <1>6, <1>7, <1>8, QuietResult
-----------------------------------------------------------------------------
(* The steps of deferred frees *)

\* A block's header leads to its heap while no thread closes the heaps.
LEMMA OwnerFound ==
  ASSUME HeapsInv, NEW t \in Thread, Alone(t), why[t] # "close", NEW s \in Span,
         span_heap[s] # NoHeap
  PROVE  Life!HeapLookup(span_heap[s]) = span_heap[s] /\ span_heap[s] \in Heap
<1>1. HeapsLinked /\ Phases
  BY DEF HeapsInv, Closing, Alone
<1>2. span_heap[s] \in Linked /\ span_heap[s] \in HeapOrNone
  BY <1>1, Parts DEF AllKnown, Known, HeapTypes
<1>3. span_heap[s] \in Heap
  BY <1>2, HeapSets
<1> QED BY <1>1, <1>2, <1>3, LookupFinds

\* What a step of t that moves deferred frees relies on.
LEMMA BeforeMoves ==
  ASSUME NEW t \in Thread, NEW L, NEW T, Before(t, L, T), NEW l, NEW r, NEW a, NEW q, NEW x,
         Local(t, l, r, a, q, x)
  PROVE  /\ OthersStay(t) /\ Placement(L, T)
         /\ at'[t] = l /\ why'[t] = r /\ p'[t] = q /\ thread_heap'[t] = x
<1>1. Phases /\ Calls /\ Alone(t)
  BY DEF Before
<1>2. OwnStep(t) /\ at'[t] = l /\ why'[t] = r /\ p'[t] = q /\ thread_heap'[t] = x
  BY <1>1, LocalFacts
<1> QED BY <1>1, <1>2, OthersStayOn DEF Before

\* A free to another heap.
LEMMA FreeDeferredResult ==
  ASSUME HeapsInv, NEW t \in Thread, NEW L, NEW T, Before(t, L, T), NEW b \in live, FreeDeferred(t, b)
  PROVE  Result(t)
<1>1. /\ Phases /\ Calls /\ Placed(T) /\ T = live \cup Waiting(L) /\ Alone(t)
      /\ ask[t] \in Nat /\ defer \in [Heap -> Block \cup {Null}]
  BY BeforeFacts DEF Before
<1>2. /\ Ready(t) /\ span_heap[SpanOf(b)] # NoHeap /\ live' = live \ {b}
      /\ UNCHANGED <<thread_heap, active, size_cache, data, span_cache, global, span_heap, size_class,
                     mapped, defer, workload, ask, why>>
      /\ p' = [p EXCEPT ![t] = b] /\ at' = [at EXCEPT ![t] = "defer"]
      /\ word' = [word EXCEPT ![b] = defer[Life!HeapLookup(span_heap[SpanOf(b)])]]
  BY DEF FreeDeferred, LoadDefer, lifeVars, spanVars, Goto, Life!Goto
<1>3. at[t] = "idle" /\ why[t] # "close"
  BY <1>1, <1>2, ReadyFacts
<1>4. b \in Block /\ SpanOf(b) \in Span
  BY <1>1, BlockFacts DEF Placed
<1>5. PICK w : w = defer[Life!HeapLookup(span_heap[SpanOf(b)])]
  OBVIOUS
<1>6. w \in Block \cup {Null}
  BY <1>1, <1>2, <1>3, <1>4, <1>5, OwnerFound
<1>7. WordSet(b, w)
  BY <1>2, <1>5 DEF WordSet
<1>8. Local(t, "defer", why[t], ask[t], b, thread_heap[t])
  BY <1>2 DEF Local, Upd
<1>9. OthersStay(t) /\ Placement(L, T) /\ at'[t] = "defer" /\ p'[t] = b
  BY <1>8, BeforeMoves
<1>10. \E L2, T2 : MovedTo(L2, T2)
  BY <1>2, <1>3, <1>6, <1>7, <1>9, FreeDeferredMoves
<1>11. ActiveBy(HeapOf(t)) /\ defer' \in [Heap -> Block \cup {Null}]
  BY <1>1, <1>2 DEF ActiveBy
<1> QED BY <1>1, <1>3, <1>4, <1>8, <1>10, <1>11, MovesResult

\* The block being queued has an owner that is found.
LEMMA PushFacts ==
  ASSUME HeapsInv, NEW t \in Thread, NEW L, NEW T, Before(t, L, T), at[t] = "defer"
  PROVE  /\ why[t] # "close" /\ p[t] \in Block /\ SpanOf(p[t]) \in Span
         /\ Life!HeapLookup(span_heap[SpanOf(p[t])]) = span_heap[SpanOf(p[t])]
         /\ span_heap[SpanOf(p[t])] \in Heap
<1>1. Phases /\ Alone(t) /\ Deferral(L)
  BY DEF Before, Placement
<1>2. why[t] # "close"
  BY <1>1, IdleFacts
<1>3. p[t] \in Block /\ span_heap[SpanOf(p[t])] # NoHeap
  BY <1>1 DEF Deferral, HandOk
<1>4. SpanOf(p[t]) \in Span
  BY <1>3, BlockFacts
<1> QED BY <1>1, <1>2, <1>3, <1>4, OwnerFound

\* The swap fails.
LEMMA DeferRetriesResult ==
  ASSUME HeapsInv, NEW t \in Thread, NEW L, NEW T, Before(t, L, T), DeferRetries(t)
  PROVE  Result(t)
<1>1. /\ ask[t] \in Nat /\ defer \in [Heap -> Block \cup {Null}]
  BY BeforeFacts
<1>2. PICK b : b = p[t]
  OBVIOUS
<1>3. /\ at[t] = "defer" /\ live' = live
      /\ UNCHANGED <<thread_heap, active, size_cache, data, span_cache, global, span_heap, size_class,
                     mapped, defer, workload, ask, why, p, at>>
      /\ word' = [word EXCEPT ![b] = defer[Life!HeapLookup(span_heap[SpanOf(b)])]]
  BY <1>2 DEF DeferRetries, LoadDefer, lifeVars, spanVars
<1>4. /\ why[t] # "close" /\ b \in Block /\ Life!HeapLookup(span_heap[SpanOf(b)]) \in Heap
  BY <1>2, <1>3, PushFacts
<1>5. PICK w : w = defer[Life!HeapLookup(span_heap[SpanOf(b)])]
  OBVIOUS
<1>6. w \in Block \cup {Null}
  BY <1>1, <1>4, <1>5
<1>7. WordSet(b, w)
  BY <1>3, <1>5 DEF WordSet
<1>8. Local(t, "defer", why[t], ask[t], b, thread_heap[t])
  BY <1>2, <1>3 DEF Local, Upd
<1>9. OthersStay(t) /\ Placement(L, T) /\ at'[t] = "defer" /\ p'[t] = b
  BY <1>8, BeforeMoves
<1>10. \E L2, T2 : MovedTo(L2, T2)
  BY <1>2, <1>3, <1>6, <1>7, <1>9, DeferRetriesMoves
<1>11. ActiveBy(HeapOf(t)) /\ defer' \in [Heap -> Block \cup {Null}]
  BY <1>1, <1>3 DEF ActiveBy
<1> QED BY <1>1, <1>4, <1>8, <1>10, <1>11, MovesResult

\* The swap puts the block on the list.
LEMMA DeferSwapsResult ==
  ASSUME HeapsInv, NEW t \in Thread, NEW L, NEW T, Before(t, L, T), DeferSwaps(t)
  PROVE  Result(t)
<1>1. /\ ask[t] \in Nat /\ defer \in [Heap -> Block \cup {Null}]
  BY BeforeFacts
<1>2. PICK b : b = p[t]
  OBVIOUS
<1>3. PICK h : h = span_heap[SpanOf(b)]
  OBVIOUS
<1>4. at[t] = "defer"
  BY DEF DeferSwaps
<1>5. /\ why[t] # "close" /\ b \in Block /\ h \in Heap /\ Life!HeapLookup(span_heap[SpanOf(b)]) = h
  BY <1>2, <1>3, <1>4, PushFacts
<1>6. /\ defer[h] = word[b] /\ defer' = [defer EXCEPT ![h] = b] /\ live' = live
      /\ p' = [p EXCEPT ![t] = Null] /\ at' = [at EXCEPT ![t] = "idle"]
      /\ UNCHANGED <<thread_heap, word, active, size_cache, data, span_cache, global, span_heap,
                     size_class, mapped, workload, ask, why>>
  BY <1>2, <1>5 DEF DeferSwaps, lifeVars, ownVars, spanVars, Goto, Life!Goto
<1>7. defer'[h] = b /\ \A k \in Heap \ {h} : defer'[k] = defer[k]
  BY <1>1, <1>5, <1>6
<1>8. Local(t, "idle", why[t], ask[t], Null, thread_heap[t])
  BY <1>6 DEF Local, Upd
<1>9. OthersStay(t) /\ Placement(L, T) /\ at'[t] = "idle"
  BY <1>8, BeforeMoves
<1>10. \E L2, T2 : MovedTo(L2, T2)
  BY <1>2, <1>3, <1>4, <1>5, <1>6, <1>7, <1>9, DeferSwapsMoves
<1>11. ActiveBy(HeapOf(t)) /\ defer' \in [Heap -> Block \cup {Null}]
  BY <1>1, <1>5, <1>6 DEF ActiveBy
<1> QED BY <1>1, <1>5, <1>8, <1>10, <1>11, MovesResult

\* A thread at a block of its heap's list, or at the list.
LEMMA WorkFacts ==
  ASSUME NEW t \in Thread, NEW L, NEW T, Before(t, L, T), at[t] \in {"take", "drain"}
  PROVE  /\ why[t] # "close" => thread_heap[t] # NoHeap
         /\ ask[t] \in SmallClass /\ why[t] = "alloc" => active[thread_heap[t]][ask[t]].free_count = 0
         /\ why[t] = "close" => /\ OthersIdle(t) /\ NoOwners /\ live = {} /\ HeapsLeft
         /\ HeapOf(t) \in Heap /\ why[t] \in {"alloc", "collect", "end", "close"}
         /\ why[t] = "alloc" => HeapOf(t) = thread_heap[t]
<1>1. Phases /\ Calls
  BY BeforeFacts
<1>2. why[t] \in {"alloc", "collect", "end", "close"}
  BY <1>1 DEF Phases
<1>3. HeapOf(t) \in Heap
  BY <1>1, HandHeap
<1>4. why[t] # "close" => thread_heap[t] # NoHeap
  BY <1>1 DEF Calls, HasHeap
<1>5. ask[t] \in SmallClass /\ why[t] = "alloc" => active[thread_heap[t]][ask[t]].free_count = 0
  BY <1>1 DEF Calls, Exhausted, Refills
<1>6. why[t] = "close" => OthersIdle(t) /\ NoOwners /\ live = {} /\ HeapsLeft
  BY ClosesFacts
<1>7. why[t] = "alloc" => HeapOf(t) = thread_heap[t]
  BY DEF HeapOf
<1> QED BY <1>2, <1>3, <1>4, <1>5, <1>6, <1>7

\* The heap at hand depends on the thread and on the table of heaps.
LEMMA SameHeapOf ==
  ASSUME NEW t \in Thread, UNCHANGED heaps, why'[t] = why[t], thread_heap'[t] = thread_heap[t]
  PROVE  HeapOf(t)' = HeapOf(t)
<1>1. ToClose' = ToClose
  BY ToCloseStays
<1> QED BY <1>1 DEF HeapOf

\* A thread takes the deferred frees of its heap.
LEMMA TakeDeferredResult ==
  ASSUME NEW t \in Thread, NEW L, NEW T, Before(t, L, T), TakeDeferred(t)
  PROVE  Result(t)
<1>1. /\ ask[t] \in Nat /\ p[t] \in Block \cup {Null} /\ defer \in [Heap -> Block \cup {Null}]
  BY BeforeFacts
<1>2. at[t] = "take"
  BY DEF TakeDeferred
<1>3. PICK h : h = HeapOf(t)
  OBVIOUS
<1>4. /\ defer[h] = p[t] /\ defer' = [defer EXCEPT ![h] = Null] /\ live' = live
      /\ at' = [at EXCEPT ![t] = "drain"]
      /\ UNCHANGED <<heaps, thread_heap, word, active, size_cache, data, span_cache, global, span_heap,
                     size_class, mapped, workload, ask, why, p>>
  BY <1>3 DEF TakeDeferred, lifeVars, ownVars, spanVars, callVars, Goto, Life!Goto
<1>5. Local(t, "drain", why[t], ask[t], p[t], thread_heap[t])
  BY <1>4 DEF Local, Upd
<1>6. /\ OthersStay(t) /\ Placement(L, T) /\ at'[t] = "drain" /\ p'[t] = p[t] /\ why'[t] = why[t]
      /\ thread_heap'[t] = thread_heap[t]
  BY <1>5, BeforeMoves
<1>7. HeapOf(t)' = HeapOf(t)
  BY <1>4, <1>6, SameHeapOf
<1>8. h \in Heap /\ HeapOf(t)' = h
  BY <1>2, <1>3, <1>7, WorkFacts
<1>9. defer'[h] = Null /\ \A k \in Heap \ {h} : defer'[k] = defer[k]
  BY <1>1, <1>4, <1>8
<1>10. \E L2, T2 : MovedTo(L2, T2)
  BY <1>2, <1>3, <1>4, <1>6, <1>8, <1>9, TakeDeferredMoves
<1>11. ActiveBy(HeapOf(t)) /\ defer' \in [Heap -> Block \cup {Null}]
  BY <1>1, <1>4 DEF ActiveBy
<1>12. why[t] = "close" => OthersIdle(t) /\ NoOwners /\ thread_heap[t] = NoHeap /\ live' = {} /\ HeapsLeft'
  <2>1. HeapsLeft => HeapsLeft'
    BY <1>4 DEF HeapsLeft, Life!Bucket
  <2> QED BY <1>2, <1>4, <2>1, WorkFacts DEF NoOwners
<1>13. /\ why[t] # "close" => thread_heap[t] # NoHeap
       /\ ask[t] \in SmallClass /\ why[t] = "alloc" => active'[thread_heap[t]][ask[t]].free_count = 0
  BY <1>2, <1>4, WorkFacts
<1> QED BY <1>1, <1>5, <1>10, <1>11, <1>12, <1>13, MovesResult

\* A thread frees a deferred block.
LEMMA DrainResult ==
  ASSUME NEW t \in Thread, NEW L, NEW T, Before(t, L, T), Drain(t)
  PROVE  Result(t)
<1>1. /\ ask[t] \in Nat /\ p[t] \in Block \cup {Null} /\ defer \in [Heap -> Block \cup {Null}]
      /\ Placed(T)
  BY BeforeFacts
<1>2. PICK h : h = HeapOf(t)
  OBVIOUS
<1>3. PICK b : b = p[t]
  OBVIOUS
<1>4. PICK w : w = word[b]
  OBVIOUS
<1>5. PICK l : l = IF w = Null THEN Caller(why[t]) ELSE "drain"
  OBVIOUS
<1>6. /\ at[t] = "drain" /\ FreeToHeap(h, b) /\ live' = live
      /\ p' = [p EXCEPT ![t] = w] /\ at' = [at EXCEPT ![t] = l]
      /\ UNCHANGED <<heaps, thread_heap, defer, workload, ask, why>>
  BY <1>2, <1>3, <1>4, <1>5 DEF Drain, DrainTo, lifeVars, Goto, Life!Goto
<1>7. h \in Heap /\ why[t] \in {"alloc", "collect", "end", "close"}
  BY <1>2, <1>6, WorkFacts
<1>8. l \in {"refill", "idle", "release", "unmap", "drain"} /\ (l = "refill" => why[t] = "alloc")
      /\ (w # Null => l = "drain") /\ (w = Null => l # "drain")
  BY <1>5, <1>7, CallerIs
<1>9. Local(t, l, why[t], ask[t], w, thread_heap[t])
  BY <1>6 DEF Local, Upd
<1>10. /\ OthersStay(t) /\ Placement(L, T) /\ at'[t] = l /\ p'[t] = w /\ why'[t] = why[t]
       /\ thread_heap'[t] = thread_heap[t]
  BY <1>9, BeforeMoves
<1>11. HeapOf(t)' = h
  BY <1>2, <1>6, <1>10, SameHeapOf
<1>12. ActiveStays(h) /\ \E L2, T2 : MovedTo(L2, T2)
  <2>1. w # Null => at'[t] = "drain"
    BY <1>8, <1>10
  <2>2. w = Null => at'[t] \notin {"take", "drain", "defer"}
    BY <1>8, <1>10
  <2>3. HeapOf(t) = h /\ UNCHANGED defer
    BY <1>2, <1>6
  <2> QED BY <1>3, <1>4, <1>6, <1>7, <1>10, <1>11, <2>1, <2>2, <2>3, DrainMoves
<1>13. w \in Block \cup {Null}
  <2>1. p[t] \in Block /\ \E k \in Seq(Block) : Leads(p[t], k)
    <3>1. PICK k : k = L[OfThread(t)]
      OBVIOUS
    <3>2. k \in Seq(Block) /\ HandOk(t, k)
      BY <1>10, <3>1, ListFacts, Holders DEF Placement, Deferral
    <3>3. k # <<>> /\ Leads(p[t], k)
      BY <1>6, <3>2 DEF HandOk
    <3>4. 1 \in 1..Len(k) /\ k[1] \in Block
      BY <3>2, <3>3
    <3> QED BY <3>2, <3>3, <3>4 DEF Leads, BlockAt
  <2>2. PICK k \in Seq(Block) : Leads(b, k) /\ b \in Block
    BY <1>3, <2>1
  <2>3. k # <<>> /\ Leads(w, Tail(k))
    BY <1>4, <2>2, LeadsFacts, TypeFacts
  <2>4. Tail(k) \in Seq(Block)
    BY <2>2, <2>3
  <2> QED BY <2>3, <2>4, LeadsFacts
<1>14. ActiveBy(HeapOf(t)) /\ defer' \in [Heap -> Block \cup {Null}]
  BY <1>1, <1>2, <1>6, <1>12 DEF ActiveBy, ActiveStays
<1>15. why[t] = "close" => OthersIdle(t) /\ NoOwners /\ thread_heap[t] = NoHeap /\ live' = {} /\ HeapsLeft'
  <2>1. HeapsLeft => HeapsLeft'
    BY <1>6 DEF HeapsLeft, Life!Bucket
  <2> QED BY <1>6, <2>1, WorkFacts DEF NoOwners
<1>16. why[t] # "close" => thread_heap[t] # NoHeap
  BY <1>6, WorkFacts
<1>17. ask[t] \in SmallClass /\ why[t] = "alloc" => active'[thread_heap[t]][ask[t]].free_count = 0
  BY <1>2, <1>6, <1>12, WorkFacts DEF ActiveStays
<1> QED BY <1>1, <1>8, <1>9, <1>12, <1>13, <1>14, <1>15, <1>16, <1>17, MovesResult
-----------------------------------------------------------------------------
(* The inductive invariant of blocks and spans *)

\* While a thread closes the heaps no other thread takes a step.
LEMMA StepsAlone ==
  ASSUME Phases, Calls, NEW t \in Thread, LifeStep(t) \/ Call(t) \/ Continue(t)
  PROVE  Alone(t)
<1> SUFFICES ASSUME NEW u \in Thread \ {t}, why[u] = "close" PROVE FALSE
  BY DEF Alone
<1>1. Closing
  BY DEF Closing
<1>2. at[t] = "idle"
  BY DEF Calls, ClosesAlone
<1>3. ~LifeStep(t)
  BY <1>1 DEF LifeStep
<1>4. ~Ready(t)
  BY <1>1 DEF Ready
<1>5. ~Call(t)
  BY <1>1, <1>4 DEF Call, Alloc, AllocActive, AllocSmall, AllocLargeCached, AllocLarge,
     AllocOversized, Free, FreeDeferred, FreeOversized, Collect, ThreadFinalize, Finalize
<1>6. ~Continue(t)
  BY <1>2 DEF Continue, DeferSwaps, DeferRetries, TakeDeferred, TakeFails, Drain, Promote, NewSpan,
     LargeAgain, LargeNew, Release, ReleaseEnds, UnmapHeap, NextToClose, FinalizeEnds
<1> QED BY <1>3, <1>5, <1>6

\* Every step of a thread.
LEMMA StepResult ==
  ASSUME HeapsInv, NEW t \in Thread, NEW L, NEW T, Before(t, L, T),
         LifeStep(t) \/ Call(t) \/ Continue(t)
  PROVE  Result(t)
<1>1. CASE LifeStep(t)
  BY <1>1, LifeStepResult
<1>2. CASE Call(t)
  <2>1. workload \in Workload
    BY BeforeFacts
  <2>2. workload.asks \subseteq Nat
    BY <2>1, WorkloadAssumption
  <2>3. ASSUME NEW c \in workload.asks, Alloc(t, c) PROVE Result(t)
    <3>1. c \in Nat
      BY <2>2
    <3> QED BY <2>3, <3>1, AllocActiveResult, LoadingResult, AllocLargeCachedResult, AllocOversizedResult
         DEF Alloc
  <2>4. ASSUME NEW b \in live, Free(t, b) \/ FreeDeferred(t, b) \/ FreeOversized(t, b) PROVE Result(t)
    BY <2>4, FreeResult, FreeDeferredResult, FreeOversizedResult
  <2>5. CASE Collect(t) \/ ThreadFinalize(t)
    BY <2>5, LoadingResult
  <2>6. CASE Finalize(t)
    BY <2>6, ToCloseResult
  <2> QED BY <1>2, <2>3, <2>4, <2>5, <2>6 DEF Call
<1>3. CASE Continue(t)
  <2>1. CASE DeferSwaps(t)
    BY <2>1, DeferSwapsResult
  <2>2. CASE DeferRetries(t)
    BY <2>2, DeferRetriesResult
  <2>3. CASE TakeDeferred(t)
    BY <2>3, TakeDeferredResult
  <2>4. CASE TakeFails(t)
    BY <2>4, TakeFailsResult
  <2>5. CASE Drain(t)
    BY <2>5, DrainResult
  <2>6. CASE Promote(t)
    BY <2>6, PromoteResult
  <2>7. CASE NewSpan(t)
    BY <2>7, NewSpanResult
  <2>8. CASE LargeAgain(t)
    BY <2>8, LargeAgainResult
  <2>9. CASE LargeNew(t)
    BY <2>9, LargeNewResult
  <2>10. CASE Release(t)
    BY <2>10, ReleaseResult
  <2>11. CASE ReleaseEnds(t)
    BY <2>11, ReleaseEndsResult
  <2>12. CASE UnmapHeap(t)
    BY <2>12, UnmapHeapResult
  <2>13. CASE NextToClose(t)
    BY <2>13, ToCloseResult
  <2>14. CASE FinalizeEnds(t)
    BY <2>14, FinalizeEndsResult
  <2> QED BY <1>3, <2>1, <2>2, <2>3, <2>4, <2>5, <2>6, <2>7, <2>8, <2>9, <2>10, <2>11, <2>12, <2>13, <2>14
       DEF Continue
<1> QED BY <1>1, <1>2, <1>3

\* Only the headers of spans change.
LEMMA HeadersKeep ==
  ASSUME HeapTypes, UNCHANGED lifeVars, span_heap' \in [Span -> HeapOrNone]
  PROVE  HeapTypes'
<1>1. UNCHANGED <<heap_id, heaps, next_heap, orphan_heaps, next_orphan, thread_heap, heap, next>>
  BY DEF lifeVars
<1> QED BY <1>1, SameSets DEF HeapTypes

\* The types of the table of heaps, also while the heaps are closed.
LEMMA HeapTypesKept ==
  ASSUME HeapsInv, Calls, NEW t \in Thread, Alone(t), LifeStep(t) \/ Call(t) \/ Continue(t)
  PROVE  HeapTypes'
<1>1. Phases /\ HeapTypes
  BY DEF HeapsInv, Calls
<1>2. CASE LifeStep(t)
  BY <1>2, LifeStepKeeps DEF HeapsLinked
<1>3. ASSUME Call(t) \/ Continue(t), ~ReleaseEnds(t), ~UnmapHeap(t), ~FinalizeEnds(t)
      PROVE  HeapTypes'
  <2>1. UNCHANGED lifeVars
    BY <1>1, <1>3, CallSteps, ContinueSteps
  <2>2. span_heap' \in [Span -> HeapOrNone]
    BY <1>1, <1>3, Headers DEF HeadersBy, HeapTypes
  <2> QED BY <1>1, <2>1, <2>2, HeadersKeep
<1>4. CASE ReleaseEnds(t)
  <2>1. HeapsInv'
    BY <1>4, ReleaseEndsKeeps
  <2>2. why' = [why EXCEPT ![t] = "none"]
    BY <1>4 DEF ReleaseEnds
  <2>3. ~Closing'
    BY <1>1, <2>2 DEF Closing, Phases, Alone
  <2> QED BY <2>1, <2>3 DEF HeapsInv, HeapsLinked
<1>5. CASE UnmapHeap(t)
  <2>1. at[t] = "unmap"
    BY <1>5 DEF UnmapHeap
  <2>2. HeapsLeft
    BY <1>1, <2>1 DEF Phases, CloseLabel, Calls, ClosesAlone
  <2>3. PICK h : h = ToClose
    OBVIOUS
  <2>4. h \in Heap
    BY <1>1, <2>2, <2>3, ToCloseIn
  <2>5. /\ heaps' = [heaps EXCEPT ![Life!BucketOf(h)] = next_heap[h]]
        /\ UNCHANGED <<heap_id, next_heap, orphan_heaps, next_orphan, thread_heap, heap, next, span_heap>>
    BY <1>5, <2>3 DEF UnmapHeap
  <2>6. next_heap[h] \in HeapOrNone
    BY <1>1, <2>4 DEF HeapTypes
  <2>7. heaps' \in [Bucket -> HeapOrNone]
    BY <1>1, <2>5, <2>6 DEF HeapTypes
  <2> QED BY <1>1, <2>5, <2>7, SameSets DEF HeapTypes
<1>6. CASE FinalizeEnds(t)
  <2>1. /\ orphan_heaps' = NoHeap
        /\ UNCHANGED <<heap_id, heaps, next_heap, next_orphan, thread_heap, heap, next, span_heap>>
    BY <1>6 DEF FinalizeEnds
  <2>2. orphan_heaps' \in HeapOrNone
    BY <2>1, HeapSets
  <2> QED BY <1>1, <2>1, <2>2, SameSets DEF HeapTypes
<1> QED BY <1>2, <1>3, <1>4, <1>5, <1>6

\* The inductive invariant of the blocks and the spans, while no two threads
\* have one heap.
PlacesInv == HeapsInv /\ Calls /\ \E L, T : Placement(L, T)

\* Every step keeps the invariant, and moves at most one block.
LEMMA PlacesStep ==
  ASSUME PlacesInv, Life!OneOwner, Next
  PROVE  PlacesInv' /\ \E L, T : MovedTo(L, T)
<1>1. PICK t \in Thread : LifeStep(t) \/ Call(t) \/ Continue(t)
  BY DEF Next
<1>2. HeapsInv /\ Phases /\ Calls
  BY DEF PlacesInv, HeapsInv
<1>3. PICK L, T : Placement(L, T)
  BY DEF PlacesInv
<1>4. Alone(t)
  BY <1>1, <1>2, StepsAlone
<1>5. Result(t)
  <2>1. Before(t, L, T)
    BY <1>2, <1>3, <1>4 DEF Before
  <2> QED BY <1>1, <1>2, <2>1, StepResult
<1>6. HeapsInv'
  BY <1>2, HeapsStep
<1>7. HeapTypes'
  BY <1>1, <1>2, <1>4, HeapTypesKept
<1>8. Calls'
  <2>1. PICK l, r, a, q, x : Local(t, l, r, a, q, x) /\ a \in Nat /\ q \in Block \cup {Null}
    BY <1>5 DEF Result
  <2>2. /\ defer' \in [Heap -> Block \cup {Null}]
        /\ \A k \in Heap : k # HeapOf(t) => active'[k] = active[k]
        /\ HasHeap(t)' /\ Exhausted(t)' /\ ClosesAlone(t)'
    BY <1>5 DEF Result
  <2> QED BY <1>2, <1>4, <1>7, <2>1, <2>2, CallsKept
<1>9. \E M, U : MovedTo(M, U)
  BY <1>5 DEF Result
<1>10. \E M, U : Placement(M, U)'
  BY <1>9 DEF MovedTo
<1> QED BY <1>6, <1>8, <1>9, <1>10 DEF PlacesInv

\* Nothing is free before anything was mapped.
LEMMA NoLists ==
  ASSUME NEW sc, sc = [h \in Heap |-> [n \in SpanUnits |-> <<>>]], NEW gl, gl = [n \in SpanUnits |-> <<>>]
  PROVE  FreeLists(sc, gl) /\ AllListed(sc, gl) = {}
<1>1. /\ \A h \in Heap, n \in SpanUnits : sc[h][n] = <<>>
      /\ \A n \in SpanUnits : gl[n] = <<>>
  OBVIOUS
<1>2. Range(<<>>) = {} /\ NoRepeat(<<>>)
  BY EmptyFacts
<1>3. ListTypes(sc, gl)
  BY DEF ListTypes, CacheType
<1>4. \A n \in SpanUnits : Listed(sc, gl, n) = {}
  <2> SUFFICES ASSUME NEW n \in SpanUnits PROVE Listed(sc, gl, n) = {}
    OBVIOUS
  <2>1. SpansIn(gl[n]) = {}
    BY <1>1 DEF SpansIn
  <2>2. \A h \in Heap : Range(sc[h][n]) = {}
    BY <1>1, <1>2
  <2> QED BY <2>1, <2>2 DEF Listed
<1>5. \A n \in SpanUnits : ListsOf(sc, gl, n)
  <2> SUFFICES ASSUME NEW n \in SpanUnits PROVE ListsOf(sc, gl, n)
    OBVIOUS
  <2>1. Len(gl[n]) = 0
    BY <1>1
  <2>2. \A i : i \notin 1..Len(gl[n])
    BY <2>1
  <2>3. \A h \in Heap : NoRepeat(sc[h][n]) /\ Range(sc[h][n]) = {}
    BY <1>1, <1>2
  <2>4. Once(sc, gl, n)
    BY <2>2, <2>3 DEF Once, NoShare
  <2> QED BY <1>4, <2>2, <2>4 DEF ListsOf
<1> QED BY <1>3, <1>4, <1>5 DEF FreeLists, AllListed

\* The invariant holds when rpmalloc is initialized.
LEMMA PlacesStart == Init => PlacesInv
<1> SUFFICES ASSUME Init PROVE PlacesInv
  OBVIOUS
<1>1. HeapsInv
  BY HeapsStart
<1>2. at = [t \in Thread |-> "idle"] /\ thread_heap = [t \in Thread |-> NoHeap]
  BY DEF Init, Life!HeapsInit, NoHeap
<1>3. /\ why = [t \in Thread |-> "none"] /\ live = {} /\ defer = [h \in Heap |-> Null] /\ mapped = {}
      /\ workload \in Workload /\ ask = [t \in Thread |-> 0] /\ p = [t \in Thread |-> Null]
  BY DEF Init
<1>4. Calls
  <2>1. HeapTypes
    BY <1>1, <1>3 DEF HeapsInv, Closing, HeapsLinked
  <2>2. CallTypes
    BY <1>3 DEF CallTypes
  <2>3. ASSUME NEW t \in Thread PROVE HasHeap(t) /\ Exhausted(t) /\ ClosesAlone(t)
    BY <1>2, <1>3 DEF HasHeap, Exhausted, Refills, ClosesAlone
  <2> QED BY <2>1, <2>2, <2>3 DEF Calls
<1>5. PICK e : e = <<>>
  OBVIOUS
<1>6. e \in Seq(Block) /\ Range(e) = {} /\ NoRepeat(e)
  BY <1>5, EmptyFacts
<1>7. PICK L : L = [x \in Holder |-> e]
  OBVIOUS
<1>8. Waiting(L) = {}
  BY <1>6, <1>7 DEF Waiting
<1>9. Deferral(L)
  <2>1. Apart(L)
    BY <1>6, <1>7 DEF Apart, NoShare
  <2>2. ASSUME NEW h \in Heap PROVE QueueOk(h, L[OfHeap(h)])
    <3>1. L[OfHeap(h)] = <<>> /\ defer[h] = Null
      BY <1>3, <1>5, <1>7, Holders
    <3> QED BY <3>1, NothingLed DEF QueueOk
  <2>3. ASSUME NEW t \in Thread PROVE HandOk(t, L[OfThread(t)])
    <3>1. L[OfThread(t)] = <<>> /\ at[t] = "idle"
      BY <1>2, <1>5, <1>7, Holders
    <3> QED BY <3>1 DEF HandOk
  <2> QED BY <2>1, <2>2, <2>3 DEF Deferral
<1>10. PICK T : T = {}
  OBVIOUS
<1>11. Placed(T)
  <2>1. UsedBy(T) = {}
    BY <1>10 DEF UsedBy
  <2>2. PlaceTypes
    <3>1. NoHeap \in HeapOrNone
      BY HeapSets
    <3> QED BY <3>1, TypeFacts DEF Init, PlaceTypes
  <2>3. FreeLists(span_cache, global) /\ AllListed(span_cache, global) = {}
    BY NoLists DEF Init, SpanUnits
  <2>4. Spare(T)
    BY <1>3, <2>1, <2>3 DEF Spare
  <2>5. SpansOk(T)
    BY <2>1 DEF SpansOk
  <2>6. ASSUME NEW h \in Heap, NEW c \in SmallClass
        PROVE  ClassOk(SmallOf(T, span_heap, size_class, h, c), active[h][c], size_cache[h][c], data)
    <3>1. SmallOf(T, span_heap, size_class, h, c) = {}
      BY <2>1 DEF SmallOf
    <3>2. active[h][c] = NoActive /\ size_cache[h][c] = <<>>
      BY DEF Init
    <3>3. ~(active[h][c].free_count > 0)
      BY <3>2, TypeFacts
    <3> QED BY <3>1, <3>2, <3>3, EmptyFacts DEF ClassOk
  <2> QED BY <1>10, <2>2, <2>4, <2>5, <2>6 DEF Placed, ClassesOk
<1>12. Placement(L, T)
  BY <1>3, <1>8, <1>9, <1>10, <1>11 DEF Placement
<1> QED BY <1>1, <1>4, <1>12 DEF PlacesInv

\* The invariant is about the state alone.
LEMMA PlacesStutter == PlacesInv /\ UNCHANGED vars => PlacesInv'
<1> SUFFICES ASSUME PlacesInv, UNCHANGED vars PROVE PlacesInv'
  OBVIOUS
<1>1. /\ UNCHANGED lifeVars /\ UNCHANGED <<at, active, size_cache, data, word, span_cache, global, span_heap,
         size_class, mapped, defer, live, workload, ask, why, p>>
  BY DEF vars, ownVars, spanVars, callVars
<1>2. HeapsInv'
  BY HeapsStutter DEF PlacesInv
<1>3. Calls'
  <2>1. HeapTypes'
    BY <1>1, HeadersKeep DEF PlacesInv, Calls, HeapTypes
  <2>2. CallTypes'
    BY <1>1, SameSets DEF PlacesInv, Calls, CallTypes
  <2>3. ASSUME NEW t \in Thread PROVE (HasHeap(t) /\ Exhausted(t) /\ ClosesAlone(t))'
    <3>1. HasHeap(t) /\ Exhausted(t) /\ ClosesAlone(t)
      BY DEF PlacesInv, Calls
    <3> QED BY <1>1, <3>1 DEF HasHeap, Exhausted, Refills, ClosesAlone, HeapsLeft, lifeVars, Life!Bucket
  <2> QED BY <2>1, <2>2, <2>3 DEF Calls
<1>4. PICK L, T : Placement(L, T)
  BY DEF PlacesInv
<1>5. Placement(L, T)'
  <2>1. OthersAlone(Block)
    BY <1>1 DEF OthersAlone
  <2>2. Apart(L) /\ \A x \in Holder : L[x] \in Seq(Block) /\ Range(L[x]) \subseteq Block
    BY <1>4, ListFacts DEF Placement, Deferral
  <2>3. ASSUME NEW h \in Heap PROVE QueueOk(h, L[OfHeap(h)])'
    BY <1>1, <1>4, <2>1, <2>2, <2>3, QueueKept, Holders DEF Placement, Deferral
  <2>4. ASSUME NEW t \in Thread PROVE HandOk(t, L[OfThread(t)])'
    <3>1. HeapOf(t)' = HeapOf(t)
      BY <1>1, SameHeapOf DEF lifeVars
    <3> QED BY <1>1, <1>4, <2>1, <2>2, <3>1, HandKept, Holders DEF Placement, Deferral
  <2>5. Deferral(L)'
    BY <2>2, <2>3, <2>4 DEF Deferral, Apart, NoShare
  <2>6. Placed(T)'
    <3>1. Placed(T) /\ FreeLists(span_cache, global)
      BY <1>4 DEF Placement, Placed, Spare
    <3>2. FreeLists(span_cache', global') /\ AllListed(span_cache', global') = AllListed(span_cache, global)
          /\ mapped' = mapped
      BY <1>1, <3>1
    <3> QED BY <1>1, <3>1, <3>2, ListsPlaced
  <2> QED BY <1>1, <1>4, <2>5, <2>6 DEF Placement, Waiting
<1> QED BY <1>2, <1>3, <1>5 DEF PlacesInv
-----------------------------------------------------------------------------
(* What the walks of the properties find *)

\* The blocks a list of deferred frees leads through in n steps.
LEMMA WalkIs ==
  ASSUME NEW l \in Seq(Block), NEW b, Leads(b, l), NEW N \in Nat, N = Cardinality(mapped \X Slot)
  PROVE  Walk(b) = {BlockAt(l, i) : i \in 1..(N + 1)}
<1> DEFINE Rec(f, n) == IF n = 0 THEN {b}
                        ELSE f[n - 1] \cup {word[x] : x \in f[n - 1] \cap Block}
           w == [n \in 0..N |-> {BlockAt(l, i) : i \in 1..(n + 1)}]
           f == CHOOSE g : g = [n \in 0..N |-> Rec(g, n)]
<1>1. Len(l) \in Nat /\ Null \notin Block /\ \A i \in 1..Len(l) : l[i] \in Block
  BY TypeFacts
<1>2. \A i \in Nat : BlockAt(l, i) \in Block <=> i \in 1..Len(l)
  BY <1>1 DEF BlockAt
<1>3. \A i \in 1..Len(l) : word[BlockAt(l, i)] = BlockAt(l, i + 1)
  BY DEF Leads, BlockAt
<1>4. ASSUME NEW n \in 0..N PROVE w[n] = Rec(w, n)
  <2>1. CASE n = 0
    <3>1. w[0] = {BlockAt(l, 1)}
      BY <2>1
    <3> QED BY <2>1, <3>1 DEF Leads
  <2>2. CASE n # 0
    <3>0. n - 1 \in 0..N /\ (n - 1) + 1 = n
      BY <2>2
    <3>1. n - 1 \in 0..N /\ w[n - 1] = {BlockAt(l, i) : i \in 1..n} /\ w[n] = {BlockAt(l, i) : i \in 1..(n + 1)}
      BY <3>0
    <3>2. ASSUME NEW y \in w[n] PROVE y \in Rec(w, n)
      <4>1. PICK i \in 1..(n + 1) : y = BlockAt(l, i)
        BY <3>1, <3>2
      <4>2. CASE i <= n
        BY <2>2, <3>1, <4>1, <4>2
      <4>3. CASE i = n + 1
        <5>1. CASE n \in 1..Len(l)
          <6>1. BlockAt(l, n) \in w[n - 1] \cap Block
            BY <2>2, <3>1, <5>1, <1>2
          <6>2. word[BlockAt(l, n)] = y
            BY <4>1, <4>3, <5>1, <1>3
          <6> QED BY <2>2, <6>1, <6>2
        <5>2. CASE n \notin 1..Len(l)
          <6>1. BlockAt(l, n) = Null /\ y = Null
            BY <1>1, <4>1, <4>3, <5>2, <2>2 DEF BlockAt
          <6>2. BlockAt(l, n) \in w[n - 1]
            BY <2>2, <3>1
          <6> QED BY <2>2, <6>1, <6>2
        <5> QED BY <5>1, <5>2
      <4>4. i <= n \/ i = n + 1
        BY <4>1
      <4> QED BY <4>2, <4>3, <4>4
    <3>3. ASSUME NEW y \in Rec(w, n) PROVE y \in w[n]
      <4>1. y \in w[n - 1] \/ \E x \in w[n - 1] \cap Block : y = word[x]
        BY <2>2, <3>3
      <4>2. CASE y \in w[n - 1]
        BY <3>1, <4>2
      <4>3. CASE \E x \in w[n - 1] \cap Block : y = word[x]
        <5>1. PICK i \in 1..n : BlockAt(l, i) \in Block /\ y = word[BlockAt(l, i)]
          BY <3>1, <4>3
        <5>2. y = BlockAt(l, i + 1) /\ i + 1 \in 1..(n + 1)
          BY <1>2, <1>3, <5>1
        <5> QED BY <3>1, <5>2
      <4> QED BY <4>1, <4>2, <4>3
    <3>4. w[n] \subseteq Rec(w, n) /\ Rec(w, n) \subseteq w[n]
      BY <3>2, <3>3
    <3> QED BY <3>4
  <2> QED BY <2>1, <2>2
<1>5. w = [n \in 0..N |-> Rec(w, n)]
  BY <1>4
<1>6. f = [n \in 0..N |-> Rec(f, n)]
  BY <1>5
<1>7. Walk(b) = f[N]
  BY DEF Walk
<1>8. \A n \in 0..N : w[n] = {BlockAt(l, i) : i \in 1..(n + 1)}
  OBVIOUS
<1> HIDE DEF f, w
<1>9. ASSUME NEW n \in 1..N, f[n - 1] = w[n - 1] PROVE f[n] = w[n]
  <2>1. n \in 0..N /\ n # 0
    OBVIOUS
  <2>2. f[n] = Rec(f, n) /\ w[n] = Rec(w, n)
    BY <1>4, <1>6, <2>1
  <2> QED BY <2>1, <2>2, <1>9
<1>10. f[0] = w[0]
  <2>1. 0 \in 0..N
    OBVIOUS
  <2> QED BY <2>1, <1>4, <1>6
<1>11. \A n \in 0..N : f[n] = w[n]
  <2> DEFINE T == {n \in 0..N : f[n] # w[n]}
  <2>1. SUFFICES ASSUME T # {} PROVE FALSE
    OBVIOUS
  <2>2. T \subseteq Nat /\ \A n \in 0..N : n \in T <=> f[n] # w[n]
    OBVIOUS
  <2>3. T \subseteq 0..N
    OBVIOUS
  <2> HIDE DEF T
  <2>4. PICK n \in T : \A m \in T : n <= m
    BY <2>1, <2>2, LeastElement
  <2>5. n \in 0..N /\ f[n] # w[n] /\ n # 0
    <3>1. n \in 0..N /\ f[n] # w[n]
      BY <2>2, <2>3, <2>4
    <3> QED BY <3>1, <1>10
  <2>6. n \in 1..N /\ n - 1 \in 0..N /\ ~(n <= n - 1)
    BY <2>5
  <2>7. n - 1 \notin T
    BY <2>4, <2>6
  <2>8. f[n - 1] = w[n - 1]
    BY <2>2, <2>6, <2>7
  <2> QED BY <2>5, <2>6, <2>8, <1>9
<1>12. N \in 0..N
  OBVIOUS
<1> QED BY <1>7, <1>8, <1>11, <1>12

\* The walk from a block that leads a list ends, having seen the list.
LEMMA WalkFacts ==
  ASSUME NEW T, Placed(T), NEW l \in Seq(Block), NoRepeat(l), Range(l) \subseteq T,
         NEW b, Leads(b, l)
  PROVE  LinkedFrom(b) = Range(l) /\ Ends(b)
<1>1. mapped \subseteq Span /\ UsedBy(T) \subseteq mapped /\ T \subseteq Block
  BY PlacedParts, ListedSpans DEF Spare
<1>2. IsFiniteSet(mapped \X Slot)
  <2>1. IsFiniteSet(mapped)
    BY <1>1, SpanAssumption, FS_Subset
  <2>2. IsFiniteSet(Slot)
    <3>1. 0 \in Int /\ MaxBlocks - 1 \in Int /\ Slot = 0..(MaxBlocks - 1)
      BY BlockSets
    <3> QED BY <3>1, FS_Interval
  <2> QED BY <2>1, <2>2, FS_Product
<1>3. PICK N : N = Cardinality(mapped \X Slot)
  OBVIOUS
<1>4. N \in Nat
  BY <1>2, <1>3, FS_CardinalityType
<1>5. Range(l) \subseteq mapped \X Slot
  <2> SUFFICES ASSUME NEW x \in Range(l) PROVE x \in mapped \X Slot
    OBVIOUS
  <2>1. x \in T /\ x \in Block
    BY <1>1
  <2>2. SpanOf(x) \in mapped
    BY <1>1, <2>1 DEF UsedBy
  <2>3. SlotOf(x) \in Slot /\ x = <<SpanOf(x), SlotOf(x)>>
    BY <2>1, BlockFacts
  <2> QED BY <2>2, <2>3
<1>6. Len(l) \in Nat /\ Len(l) <= N
  <2>1. IsFiniteSet(Range(l)) /\ Cardinality(Range(l)) = Len(l)
    BY NoRepeatCardinality
  <2>2. Cardinality(Range(l)) <= Cardinality(mapped \X Slot)
    BY <1>2, <1>5, FS_Subset
  <2> QED BY <1>3, <2>1, <2>2
<1>7. Walk(b) = {BlockAt(l, i) : i \in 1..(N + 1)}
  BY <1>3, <1>4, WalkIs
<1>8. Range(l) = {l[i] : i \in 1..Len(l)} /\ Range(l) \subseteq Block
  BY RangeFacts
<1>9. Null \notin Block
  BY TypeFacts
<1>10. Ends(b)
  <2>1. N + 1 \in 1..(N + 1) /\ BlockAt(l, N + 1) = Null
    BY <1>4, <1>6 DEF BlockAt
  <2> QED BY <1>7, <2>1 DEF Ends
<1>11. ASSUME NEW x \in LinkedFrom(b) PROVE x \in Range(l)
  <2>1. PICK i \in 1..(N + 1) : x = BlockAt(l, i) /\ x \in Block
    BY <1>7, <1>11 DEF LinkedFrom
  <2>2. i \in 1..Len(l) /\ x = l[i]
    BY <1>9, <2>1 DEF BlockAt
  <2> QED BY <1>8, <2>2
<1>12. ASSUME NEW x \in Range(l) PROVE x \in LinkedFrom(b)
  <2>1. PICK i \in 1..Len(l) : x = l[i]
    BY <1>8, <1>12
  <2>2. i \in 1..(N + 1) /\ BlockAt(l, i) = x
    BY <1>4, <1>6, <2>1 DEF BlockAt
  <2> QED BY <1>7, <1>8, <1>12, <2>2 DEF LinkedFrom
<1> QED BY <1>10, <1>11, <1>12

\* What has been freed and is not back is what the lists hold.
LEMMA PendingIs ==
  ASSUME NEW L, NEW T, Placement(L, T)
  PROVE  /\ \A h \in Heap : Queued(h) = Range(L[OfHeap(h)]) /\ Ends(defer[h])
         /\ \A t \in Thread : /\ AtHand(t) = Range(L[OfThread(t)])
                              /\ at[t] = "drain" => Ends(p[t])
         /\ Pending = Waiting(L) /\ Taken = T
<1>1. Deferral(L) /\ Apart(L) /\ Placed(T) /\ T = live \cup Waiting(L)
  BY DEF Placement, Deferral
<1>2. \A x \in Holder : L[x] \in Seq(Block) /\ NoRepeat(L[x]) /\ Range(L[x]) \subseteq T
  BY <1>1, ListFacts
<1>3. ASSUME NEW h \in Heap PROVE Queued(h) = Range(L[OfHeap(h)]) /\ Ends(defer[h])
  <2>1. Leads(defer[h], L[OfHeap(h)])
    BY <1>1 DEF Deferral, QueueOk
  <2> QED BY <1>1, <1>2, <2>1, Holders, WalkFacts DEF Queued
<1>4. ASSUME NEW t \in Thread
      PROVE  AtHand(t) = Range(L[OfThread(t)]) /\ (at[t] = "drain" => Ends(p[t]))
  <2>1. HandOk(t, L[OfThread(t)]) /\ OfThread(t) \in Holder
    BY <1>1, Holders DEF Deferral
  <2>2. CASE at[t] = "defer"
    <3>1. p[t] \in Block /\ L[OfThread(t)] = <<p[t]>>
      BY <2>1, <2>2 DEF HandOk
    <3> QED BY <2>2, <3>1, OneBlock DEF AtHand
  <2>3. CASE at[t] = "drain"
    <3>1. Leads(p[t], L[OfThread(t)])
      BY <2>1, <2>3 DEF HandOk
    <3>2. LinkedFrom(p[t]) = Range(L[OfThread(t)]) /\ Ends(p[t])
      BY <1>1, <1>2, <2>1, <3>1, WalkFacts
    <3> QED BY <2>3, <3>2 DEF AtHand
  <2>4. CASE at[t] \notin {"defer", "drain"}
    <3>1. L[OfThread(t)] = <<>>
      BY <2>1, <2>4 DEF HandOk
    <3> QED BY <2>4, <3>1, EmptyFacts DEF AtHand
  <2> QED BY <2>2, <2>3, <2>4
<1>5. Pending = Waiting(L)
  <2>1. \A x \in Holder : \/ \E h \in Heap : x = OfHeap(h)
                          \/ \E t \in Thread : x = OfThread(t)
    BY DEF Holder, OfHeap, OfThread
  <2>2. ASSUME NEW b \in Pending PROVE b \in Waiting(L)
    BY <1>3, <1>4, <2>2, Holders DEF Pending, Waiting
  <2>3. ASSUME NEW b \in Waiting(L) PROVE b \in Pending
    <3>1. PICK x \in Holder : b \in Range(L[x])
      BY <2>3 DEF Waiting
    <3> QED BY <1>3, <1>4, <2>1, <3>1 DEF Pending
  <2> QED BY <2>2, <2>3
<1> QED BY <1>1, <1>3, <1>4, <1>5 DEF Taken
-----------------------------------------------------------------------------
(* The properties follow *)

\* The deferred frees are where their owners look.
LEMMA DeferredFacts ==
  ASSUME NEW L, NEW T, Placement(L, T)
  PROVE  DeferredIntact
<1>1. Apart(L) /\ Deferral(L) /\ Waiting(L) \cap live = {}
  BY DEF Placement, Deferral
<1>2. /\ \A h \in Heap : Queued(h) = Range(L[OfHeap(h)]) /\ Ends(defer[h])
      /\ \A t \in Thread : AtHand(t) = Range(L[OfThread(t)]) /\ (at[t] = "drain" => Ends(p[t]))
      /\ Pending = Waiting(L)
  BY PendingIs
<1>3. \A h \in Heap : \A b \in Queued(h) : span_heap[SpanOf(b)] = h
  BY <1>1, <1>2 DEF Deferral, QueueOk, Belongs
<1>4. \A t \in Thread : at[t] = "drain" => \A b \in AtHand(t) : span_heap[SpanOf(b)] = HeapOf(t)
  BY <1>1, <1>2 DEF Deferral, HandOk, Belongs
<1>5. \A x, y \in Holder : x # y => Range(L[x]) \cap Range(L[y]) = {}
  BY <1>1 DEF Apart, NoShare
<1>6. \A t \in Thread, h \in Heap : AtHand(t) \cap Queued(h) = {}
  BY <1>2, <1>5, Holders
<1>7. \A t \in Thread : \A u \in Thread \ {t} : AtHand(t) \cap AtHand(u) = {}
  BY <1>2, <1>5, Holders
<1> QED BY <1>1, <1>2, <1>3, <1>4, <1>6, <1>7 DEF DeferredIntact

\* The type invariant.
LEMMA TypesHold ==
  ASSUME HeapTypes, CallTypes, NEW L, NEW T, Placement(L, T)
  PROVE  TypeOK
<1>1. Placed(T) /\ live \subseteq T
  BY DEF Placement
<1>2. thread_heap \in [Thread -> Life!HeapOrNone] /\ span_heap \in [Span -> Life!HeapOrNone]
  BY DEF HeapTypes, HeapOrNone
<1>3. active \in [Heap -> [SmallClass -> [span : Span \cup {Null}, free_list : 0..Stale,
                                         first_autolink : 0..Stale, free_count : 0..Stale]]]
  BY <1>1 DEF Placed, PlaceTypes, Actives
<1>4. size_cache \in [Heap -> [SmallClass -> Seq(Span)]] /\ size_class \in [Span -> Nat]
  BY <1>1 DEF Placed, PlaceTypes
<1>5. word \in [Block -> {Data, Null} \cup Block \cup {IndexWord(i) : i \in 0..Stale}]
  BY <1>1 DEF Placed, PlaceTypes, Words
<1>6. data \in [Span -> [free_list : 0..Stale, first_autolink : 0..Stale, free_count : 0..Stale]]
  BY <1>1 DEF Placed, PlaceTypes, Books
<1>7. /\ span_cache \in [Heap -> [1..LargeClassCount -> Seq(Span)]]
      /\ global \in [1..LargeClassCount -> Seq(Seq(Span))]
  BY <1>1 DEF Placed, Spare, FreeLists, ListTypes, CacheType, SpanUnits
<1>8. mapped \subseteq Span /\ live \subseteq Block
  <2>1. UsedBy(T) \subseteq Span /\ T \subseteq Block
    BY <1>1, PlacedParts
  <2>2. AllListed(span_cache, global) \subseteq Span
    BY <1>1, ListedSpans DEF Placed, Spare
  <2> QED BY <1>1, <2>1, <2>2 DEF Placed, Spare
<1>9. defer \in [Heap -> Block \cup {Null}] /\ p \in [Thread -> Block \cup {Null}]
  BY DEF CallTypes
<1> QED BY <1>2, <1>3, <1>4, <1>5, <1>6, <1>7, <1>8, <1>9 DEF TypeOK

\* No free span is in two lists.
LEMMA ListedOnceHolds ==
  ASSUME NEW n \in SpanUnits, FreeLists(span_cache, global)
  PROVE  ListedOnce(n)
<1>1. Once(span_cache, global, n) /\ ListTypes(span_cache, global)
  BY DEF FreeLists, ListsOf
<1>2. DOMAIN global[n] = 1..Len(global[n])
  BY <1>1 DEF ListTypes
<1>3. \A l \in Seq(Span) : NoRepeat(l) => IsInjective(l)
  BY DEF NoRepeat, IsInjective
<1>4. \A h \in Heap : span_cache[h][n] \in Seq(Span)
  BY <1>1 DEF ListTypes, CacheType
<1>5. \A i \in 1..Len(global[n]) : global[n][i] \in Seq(Span)
  BY <1>1 DEF ListTypes
<1>6. \A h \in Heap : /\ IsInjective(span_cache[h][n])
                      /\ \A k \in Heap \ {h} : Disjoint(span_cache[h][n], span_cache[k][n])
  BY <1>1, <1>3, <1>4 DEF Once, Disjoint, NoShare
<1>7. \A i \in DOMAIN global[n] :
        /\ IsInjective(global[n][i])
        /\ \A k \in DOMAIN global[n] \ {i} : Disjoint(global[n][i], global[n][k])
        /\ \A h \in Heap : Disjoint(global[n][i], span_cache[h][n])
  BY <1>1, <1>2, <1>3, <1>5 DEF Once, Disjoint, NoShare
<1> QED BY <1>6, <1>7 DEF ListedOnce

\* The spans a heap has free blocks in.
LEMMA PartlyIs ==
  ASSUME NEW T, Placed(T), Taken = T, NEW h \in Heap, NEW c \in SmallClass
  PROVE  /\ Partly(h, c) = {s \in UsedSmall : /\ span_heap[s] = h /\ size_class[s] = c
                                              /\ BlockData(h, s).free_count > 0}
         /\ Cardinality(Partly(h, c)) =
              Len(size_cache[h][c]) + (IF active[h][c].free_count > 0 THEN 1 ELSE 0)
<1>1. PICK S : S = SmallOf(T, span_heap, size_class, h, c)
  OBVIOUS
<1>2. PICK a : a = active[h][c]
  OBVIOUS
<1>3. PICK l : l = size_cache[h][c]
  OBVIOUS
<1>4. /\ a.free_count > 0 <=> a.span \in S
      /\ l \in Seq(Span) /\ NoRepeat(l)
      /\ Range(l) = {s \in S : s # a.span /\ data[s].free_count > 0}
  BY <1>1, <1>2, <1>3, PlacedParts DEF ClassOk
<1>5. {s \in UsedSmall : span_heap[s] = h /\ size_class[s] = c /\ BlockData(h, s).free_count > 0}
        = {s \in S : BlockData(h, s).free_count > 0}
  <2>1. InUse = UsedBy(T) /\ h # NoHeap
    BY HeapSets DEF InUse, UsedBy
  <2> QED BY <1>1, <2>1 DEF UsedSmall, SmallOf
<1>6. \A s \in S : BlockData(h, s).free_count = IF s = a.span THEN a.free_count ELSE data[s].free_count
  BY <1>1, <1>2 DEF BlockData, IsActive, SmallOf
<1>7. Partly(h, c) = Range(l) \cup (IF a.free_count > 0 THEN {a.span} ELSE {})
  BY <1>2, <1>3 DEF Partly
<1>8. Partly(h, c) = {s \in S : BlockData(h, s).free_count > 0}
  BY <1>4, <1>6, <1>7
<1>9. IsFiniteSet(Range(l)) /\ Cardinality(Range(l)) = Len(l)
  BY <1>4, NoRepeatCardinality
<1>10. Cardinality(Partly(h, c)) = Len(l) + (IF a.free_count > 0 THEN 1 ELSE 0)
  <2>1. CASE a.free_count > 0
    <3>1. a.span \notin Range(l) /\ Partly(h, c) = Range(l) \cup {a.span}
      BY <1>4, <1>7, <2>1
    <3> QED BY <1>9, <2>1, <3>1, FS_AddElement
  <2>2. CASE ~(a.free_count > 0)
    <3>1. Partly(h, c) = Range(l)
      BY <1>7, <2>2
    <3>2. Len(l) \in Nat
      BY <1>4
    <3> QED BY <1>9, <2>2, <3>1, <3>2
  <2> QED BY <2>1, <2>2
<1> QED BY <1>2, <1>3, <1>5, <1>8, <1>10

\* A span in use that is not for small blocks has one block.
LEMMA OneBlockSpan ==
  ASSUME NEW T, Placed(T), Taken = T, NEW s \in InUse \ UsedSmall
  PROVE  /\ Cardinality({b \in T : SpanOf(b) = s}) = 1
         /\ SpanCount[s] > LargeClassCount \/ SpanCount[s] = Spans(size_class[s])
<1>1. s \in UsedBy(T) /\ T \subseteq Block /\ s \in Span
  BY PlacedParts DEF InUse, UsedBy
<1>2. PICK bd : bd = BlockData(span_heap[s], s)
  OBVIOUS
<1>3. SpanOk(SlotsOf(T, s), s, span_heap[s], size_class[s], bd, word)
  BY <1>1, <1>2 DEF Placed, SpansOk
<1>4. ~(span_heap[s] # NoHeap /\ size_class[s] \in SmallClass)
  BY DEF UsedSmall
<1>5. /\ SlotsOf(T, s) = {0} /\ (span_heap[s] # NoHeap => size_class[s] = ClassOf(SpanCount[s]))
      /\ span_heap[s] = NoHeap <=> SpanCount[s] > LargeClassCount
  BY <1>3, <1>4 DEF SpanOk, OtherOk
<1>6. {b \in T : SpanOf(b) = s} = {<<s, 0>>}
  <2>1. <<s, 0>> \in T /\ SpanOf(<<s, 0>>) = s
    BY <1>1, <1>5, BlockFacts DEF SlotsOf
  <2>2. ASSUME NEW b \in T, SpanOf(b) = s PROVE b = <<s, 0>>
    <3>1. b = <<s, SlotOf(b)>> /\ SlotOf(b) \in Slot
      BY <1>1, <2>2, BlockFacts
    <3>2. SlotOf(b) \in SlotsOf(T, s)
      BY <2>2, <3>1 DEF SlotsOf
    <3> QED BY <1>5, <3>1, <3>2
  <2> QED BY <2>1, <2>2
<1>7. SpanCount[s] > LargeClassCount \/ SpanCount[s] = Spans(size_class[s])
  <2>1. SpanCount[s] \in Nat /\ SizeClassCount \in Nat
    BY <1>1, SpanAssumption, BlockCountAssumption
  <2> QED BY <1>5, <2>1 DEF Spans, ClassOf
<1> QED BY <1>6, <1>7, FS_Singleton

\* The spans are placed as SpanPlacement says.
LEMMA SpansPlaced ==
  ASSUME HeapTypes, CallTypes, NEW L, NEW T, Placement(L, T)
  PROVE  SpanPlacement
<1>1. Placed(T) /\ Taken = T /\ Spare(T) /\ FreeLists(span_cache, global)
  BY PendingIs DEF Placement, Placed, Spare
<1>2. InUse = UsedBy(T)
  BY <1>1 DEF InUse, UsedBy
<1>3. \A n \in SpanUnits : FreeSpans(n) = Listed(span_cache, global, n)
  BY DEF FreeSpans, Listed
<1>4. TypeOK
  BY TypesHold
<1>5. mapped = InUse \cup UNION {FreeSpans(n) : n \in 1..LargeClassCount}
  BY <1>1, <1>2, <1>3 DEF Spare, AllListed, SpanUnits
<1>6. \A n \in 1..LargeClassCount :
        /\ \A s \in FreeSpans(n) : SpanCount[s] = n /\ s \notin InUse
        /\ ListedOnce(n)
  BY <1>1, <1>2, <1>3, ListedOnceHolds DEF SpanUnits, Spare, AllListed, FreeLists, ListsOf
<1>7. \A s \in InUse \ UsedSmall :
        /\ Cardinality({b \in Taken : SpanOf(b) = s}) = 1
        /\ SpanCount[s] > LargeClassCount \/ SpanCount[s] = Spans(size_class[s])
  BY <1>1, OneBlockSpan
<1>8. \A h \in Heap, c \in SmallClass :
        /\ Partly(h, c) = {s \in UsedSmall : /\ span_heap[s] = h /\ size_class[s] = c
                                             /\ BlockData(h, s).free_count > 0}
        /\ Cardinality(Partly(h, c)) =
             Len(size_cache[h][c]) + (IF active[h][c].free_count > 0 THEN 1 ELSE 0)
  BY <1>1, PartlyIs
<1> QED BY <1>4, <1>5, <1>6, <1>7, <1>8 DEF SpanPlacement
-----------------------------------------------------------------------------
(* The path of allocation through a span *)

\* The slot after slot x on the path that allocation takes.
SlotAfter(s, bd, x) ==
  IF x >= bd.first_autolink THEN x + 1
  ELSE IF x \in Slot THEN IndexIn(word[<<s, x>>]) ELSE Stale

\* FreeSlot is the function that its recursion describes.
LEMMA FreeSlotSteps ==
  ASSUME NEW s, NEW bd
  PROVE  /\ FreeSlot(s, bd)[0] = bd.free_list
         /\ \A k \in 1..MaxBlocks : FreeSlot(s, bd)[k] = SlotAfter(s, bd, FreeSlot(s, bd)[k - 1])
<1> DEFINE Rec(f, k) == IF k = 0 THEN bd.free_list ELSE SlotAfter(s, bd, f[k - 1])
           Defined(m) == \E g : g = [k \in 0..m |-> Rec(g, k)]
           f == CHOOSE g : g = [k \in 0..MaxBlocks |-> Rec(g, k)]
<1>1. FreeSlot(s, bd) = f
  BY DEF FreeSlot, SlotAfter
<1>2. MaxBlocks \in Nat
  BY BlockSets
<1>3. Defined(0)
  <2>1. PICK g : g = [k \in 0..0 |-> bd.free_list]
    OBVIOUS
  <2>2. g = [k \in 0..0 |-> Rec(g, k)]
    BY <2>1
  <2> QED BY <2>2
<1>4. ASSUME NEW m \in Nat, Defined(m) PROVE Defined(m + 1)
  <2>1. PICK g : g = [k \in 0..m |-> Rec(g, k)]
    BY <1>4
  <2>2. PICK z : z = SlotAfter(s, bd, g[m])
    OBVIOUS
  <2>3. PICK h : h = [k \in 0..(m + 1) |-> IF k <= m THEN g[k] ELSE z]
    OBVIOUS
  <2>4. ASSUME NEW k \in 0..(m + 1) PROVE h[k] = Rec(h, k)
    <3>1. CASE k = 0
      BY <2>1, <2>3, <3>1
    <3>2. CASE k \in 1..m
      <4>1. k - 1 \in 0..m /\ k - 1 \in 0..(m + 1) /\ k \in 0..m /\ k # 0
        BY <3>2
      <4>2. g[k] = SlotAfter(s, bd, g[k - 1])
        BY <2>1, <4>1
      <4>3. h[k] = g[k] /\ h[k - 1] = g[k - 1]
        BY <2>3, <4>1
      <4> QED BY <4>1, <4>2, <4>3
    <3>3. CASE k = m + 1
      <4>1. k - 1 = m /\ m \in 0..(m + 1) /\ ~(k <= m) /\ m <= m /\ k # 0
        BY <3>3
      <4>2. h[k] = z /\ h[m] = g[m]
        BY <2>3, <4>1
      <4> QED BY <2>2, <4>1, <4>2
    <3>4. k = 0 \/ k \in 1..m \/ k = m + 1
      OBVIOUS
    <3> QED BY <3>1, <3>2, <3>3, <3>4
  <2>5. h = [k \in 0..(m + 1) |-> Rec(h, k)]
    BY <2>3, <2>4
  <2> QED BY <2>5
<1> HIDE DEF Defined
<1>5. Defined(MaxBlocks)
  <2> DEFINE T == {m \in Nat : ~Defined(m)}
  <2>1. SUFFICES ASSUME T # {} PROVE FALSE
    BY <1>2
  <2>2. T \subseteq Nat /\ \A m \in Nat : m \in T <=> ~Defined(m)
    OBVIOUS
  <2> HIDE DEF T
  <2>3. PICK m \in T : \A n \in T : m <= n
    BY <2>1, <2>2, LeastElement
  <2>4. m \in Nat /\ m # 0
    BY <2>2, <2>3, <1>3
  <2>5. m - 1 \in Nat /\ ~(m <= m - 1) /\ (m - 1) + 1 = m
    BY <2>4
  <2>6. Defined(m - 1)
    BY <2>2, <2>3, <2>5
  <2> QED BY <1>4, <2>2, <2>3, <2>5, <2>6
<1>6. f = [k \in 0..MaxBlocks |-> Rec(f, k)]
  BY <1>5 DEF Defined
<1> HIDE DEF f
<1>7. f[0] = bd.free_list
  <2>1. 0 \in 0..MaxBlocks
    BY <1>2
  <2> QED BY <1>6, <2>1
<1>8. ASSUME NEW k \in 1..MaxBlocks PROVE f[k] = SlotAfter(s, bd, f[k - 1])
  <2>1. k \in 0..MaxBlocks /\ k # 0
    OBVIOUS
  <2> QED BY <1>6, <2>1
<1> QED BY <1>1, <1>7, <1>8

\* The slots allocation takes: those of the list, and then the never used ones.
NthSlot(g, a, k) == IF k < Len(g) THEN g[k + 1] ELSE a + (k - Len(g))

\* The counts of a span with a free slots list of g and autolink a.
Counts(g, a, c, n) ==
  /\ Len(g) \in Nat /\ a \in Nat /\ BlockCount[c] \in Nat
  /\ a <= BlockCount[c] /\ BlockCount[c] <= MaxBlocks /\ MaxBlocks \in Nat
  /\ n = Len(g) + (BlockCount[c] - a)

\* The counts of a span, under one name.
LEMMA CountFacts ==
  ASSUME NEW U, NEW s, NEW c \in SmallClass, NEW bd, NEW g, FreeListIs(U, s, c, bd, word, g)
  PROVE  Counts(g, bd.first_autolink, c, bd.free_count)
<1>1. Len(g) \in Nat
  BY FreeListFacts
<1>2. bd.first_autolink \in Nat /\ bd.first_autolink <= BlockCount[c]
  BY FreeListFacts
<1>3. BlockCount[c] \in Nat /\ BlockCount[c] <= MaxBlocks /\ MaxBlocks \in Nat
  BY FreeListFacts
<1>4. bd.free_count = Len(g) + (BlockCount[c] - bd.first_autolink)
  BY FreeListFacts
<1> QED BY <1>1, <1>2, <1>3, <1>4 DEF Counts

\* The slot after the k-th is the next one of the list or the next never used.
LEMMA SlotFollows ==
  ASSUME NEW U, NEW s, NEW c \in SmallClass, NEW bd, NEW g, FreeListIs(U, s, c, bd, word, g),
         NEW k \in Nat, k >= 1, k < bd.free_count
  PROVE  SlotAfter(s, bd, NthSlot(g, bd.first_autolink, k - 1)) = NthSlot(g, bd.first_autolink, k)
<1>1. PICK a : a = bd.first_autolink
  OBVIOUS
<1>2. /\ Len(g) \in Nat /\ a \in Nat /\ BlockCount[c] \in Nat
      /\ a <= BlockCount[c] /\ BlockCount[c] <= MaxBlocks /\ MaxBlocks \in Nat /\ Stale = MaxBlocks
      /\ bd.free_count = Len(g) + (BlockCount[c] - a)
  <2>1. Counts(g, bd.first_autolink, c, bd.free_count)
    BY CountFacts
  <2> QED BY <1>1, <2>1 DEF Stale, Counts
<1>3. \A i \in 1..Len(g) : g[i] \in Slot /\ g[i] \in Nat /\ g[i] < a
  BY <1>1, FreeListFacts DEF AllFreeBelow
<1>4. CASE k <= Len(g)
  <2>1. k \in 1..Len(g) /\ (k - 1) + 1 = k /\ k - 1 < Len(g)
    BY <1>2, <1>4
  <2>2. PICK x : x = g[k]
    OBVIOUS
  <2>3. NthSlot(g, a, k - 1) = x /\ x \in Slot /\ x \in Nat /\ x < a
    BY <1>3, <2>1, <2>2 DEF NthSlot
  <2>4. k < Len(g) \/ a < BlockCount[c]
    BY <1>2, <1>4
  <2>5. word[<<s, x>>] = IndexWord(NthFree(g, a, k + 1))
    BY <1>1, <2>1, <2>2, <2>4 DEF FreeListIs
  <2>6. PICK y : y = NthFree(g, a, k + 1)
    OBVIOUS
  <2>7. y = NthSlot(g, a, k) /\ y \in 0..Stale
    <3>1. CASE k < Len(g)
      <4>1. k + 1 \in 1..Len(g)
        BY <1>2, <3>1
      <4>2. y = g[k + 1] /\ NthSlot(g, a, k) = g[k + 1]
        BY <2>6, <3>1, <4>1 DEF NthFree, NthSlot
      <4> QED BY <1>2, <1>3, <4>1, <4>2
    <3>2. CASE ~(k < Len(g))
      <4>1. k = Len(g) /\ k + 1 \notin 1..Len(g)
        BY <1>2, <1>4, <3>2
      <4>2. y = a /\ NthSlot(g, a, k) = a
        BY <1>2, <2>6, <3>2, <4>1 DEF NthFree, NthSlot
      <4> QED BY <1>2, <4>2
    <3> QED BY <3>1, <3>2
  <2>8. IndexIn(word[<<s, x>>]) = y
    BY <2>5, <2>6, <2>7, IndexRead
  <2>9. ~(x >= bd.first_autolink)
    BY <1>1, <1>2, <2>3
  <2> QED BY <1>1, <2>3, <2>7, <2>8, <2>9 DEF SlotAfter
<1>5. CASE ~(k <= Len(g))
  <2>1. ~(k - 1 < Len(g)) /\ ~(k < Len(g))
    BY <1>2, <1>5
  <2>2. PICK x : x = a + ((k - 1) - Len(g))
    OBVIOUS
  <2>3. NthSlot(g, a, k - 1) = x /\ NthSlot(g, a, k) = a + (k - Len(g))
    BY <2>1, <2>2 DEF NthSlot
  <2>4. x >= a /\ x + 1 = a + (k - Len(g))
    BY <1>2, <1>5, <2>2
  <2> QED BY <1>1, <2>3, <2>4 DEF SlotAfter
<1> QED BY <1>4, <1>5

\* So the k-th slot on the path of allocation is NthSlot.
LEMMA SlotsTaken ==
  ASSUME NEW U, NEW s, NEW c \in SmallClass, NEW bd, NEW g, FreeListIs(U, s, c, bd, word, g)
  PROVE  \A k \in 0..(bd.free_count - 1) : FreeSlot(s, bd)[k] = NthSlot(g, bd.first_autolink, k)
<1>1. PICK n : n = bd.free_count
  OBVIOUS
<1>2. PICK a : a = bd.first_autolink
  OBVIOUS
<1>3. PICK f : f = FreeSlot(s, bd)
  OBVIOUS
<1>4. /\ Len(g) \in Nat /\ a \in Nat /\ BlockCount[c] \in Nat
      /\ a <= BlockCount[c] /\ BlockCount[c] <= MaxBlocks /\ MaxBlocks \in Nat
      /\ n = Len(g) + (BlockCount[c] - a)
  <2>1. Counts(g, bd.first_autolink, c, bd.free_count)
    BY CountFacts
  <2> QED BY <1>1, <1>2, <2>1 DEF Counts
<1>5. n \in Nat /\ n <= MaxBlocks
  <2>1. PICK F : F = {i \in 0..(BlockCount[c] - 1) : i \notin U}
    OBVIOUS
  <2>2. Cardinality(F) = n
    BY <1>1, <2>1, FreeCountIs
  <2>3. F \subseteq 0..(BlockCount[c] - 1)
    BY <2>1
  <2>4. IsFiniteSet(0..(BlockCount[c] - 1)) /\ Cardinality(0..(BlockCount[c] - 1)) = BlockCount[c]
    <3>1. 0 \in Nat /\ 0 <= BlockCount[c] /\ BlockCount[c] - 0 = BlockCount[c]
      BY <1>4
    <3> QED BY <1>4, <3>1, IntervalSize
  <2>5. Cardinality(F) <= BlockCount[c]
    BY <2>3, <2>4, FS_Subset
  <2> QED BY <1>4, <2>2, <2>5
<1>6. n > 0 => f[0] = NthSlot(g, a, 0)
  <2>1. n > 0 => bd.free_list = NthFree(g, a, 1)
    BY <1>1, <1>2 DEF FreeListIs
  <2>2. NthFree(g, a, 1) = NthSlot(g, a, 0)
    BY <1>4 DEF NthFree, NthSlot
  <2> QED BY <1>3, <2>1, <2>2, FreeSlotSteps
<1>7. ASSUME NEW k \in 0..(n - 1), k # 0, f[k - 1] = NthSlot(g, a, k - 1)
      PROVE  f[k] = NthSlot(g, a, k)
  <2>1. k \in 1..MaxBlocks /\ k \in Nat /\ k >= 1 /\ k < bd.free_count
    BY <1>1, <1>4, <1>5, <1>7
  <2>2. f[k] = SlotAfter(s, bd, f[k - 1])
    BY <1>3, <2>1, FreeSlotSteps
  <2> QED BY <1>2, <1>7, <2>1, <2>2, SlotFollows
<1>8. \A k \in 0..(n - 1) : f[k] = NthSlot(g, a, k)
  <2> DEFINE T == {k \in 0..(n - 1) : f[k] # NthSlot(g, a, k)}
  <2>1. SUFFICES ASSUME T # {} PROVE FALSE
    OBVIOUS
  <2>2. T \subseteq Nat /\ \A k : k \in T <=> k \in 0..(n - 1) /\ f[k] # NthSlot(g, a, k)
    BY <1>5
  <2> HIDE DEF T
  <2>3. PICK k \in T : \A j \in T : k <= j
    BY <2>1, <2>2, LeastElement
  <2>4. k \in 0..(n - 1) /\ f[k] # NthSlot(g, a, k)
    BY <2>2, <2>3
  <2>5. n > 0
    BY <1>5, <2>4
  <2>6. k # 0
    BY <1>6, <2>4, <2>5
  <2>7. k - 1 \in 0..(n - 1) /\ ~(k <= k - 1)
    BY <1>5, <2>4, <2>6
  <2>8. k - 1 \notin T
    BY <2>3, <2>7
  <2>9. f[k - 1] = NthSlot(g, a, k - 1)
    BY <2>2, <2>7, <2>8
  <2> QED BY <1>7, <2>4, <2>6, <2>9
<1> QED BY <1>1, <1>2, <1>3, <1>8

\* The free slots of a span.
FreeIn(U, c) == {i \in 0..(BlockCount[c] - 1) : i \notin U}

\* Allocation takes the slots F of the span, in whatever order.
Takes(s, bd, F) ==
  bd.free_count = Cardinality(F) /\ {FreeSlot(s, bd)[k] : k \in 0..(Cardinality(F) - 1)} = F

\* The path of allocation goes through the free slots and no other.
LEMMA FreeSlots ==
  ASSUME NEW U, NEW s, NEW c \in SmallClass, NEW bd, NEW g, FreeListIs(U, s, c, bd, word, g),
         NEW F, F = FreeIn(U, c)
  PROVE  Takes(s, bd, F)
<1>1. PICK n : n = bd.free_count
  OBVIOUS
<1>2. PICK a : a = bd.first_autolink
  OBVIOUS
<1>3. /\ Len(g) \in Nat /\ a \in Nat /\ BlockCount[c] \in Nat
      /\ a <= BlockCount[c] /\ BlockCount[c] <= MaxBlocks /\ MaxBlocks \in Nat
      /\ n = Len(g) + (BlockCount[c] - a)
  <2>1. Counts(g, bd.first_autolink, c, bd.free_count)
    BY CountFacts
  <2> QED BY <1>1, <1>2, <2>1 DEF Counts
<1>4. \A k \in 0..(n - 1) : FreeSlot(s, bd)[k] = NthSlot(g, a, k)
  BY <1>1, <1>2, SlotsTaken
<1>5. Cardinality(F) = n /\ \A i : i \in F <=> i \in 0..(BlockCount[c] - 1) /\ i \notin U
  BY <1>1, FreeCountIs DEF FreeIn
<1>6. Range(g) = {i \in 0..(a - 1) : i \notin U} /\ U \subseteq 0..(a - 1)
  BY <1>2 DEF FreeListIs
<1>7. Range(g) = {g[i] : i \in 1..Len(g)}
  BY RangeFacts DEF FreeListIs
<1>8. ASSUME NEW k \in 0..(n - 1) PROVE NthSlot(g, a, k) \in F
  <2>1. CASE k < Len(g)
    <3>1. k + 1 \in 1..Len(g)
      BY <1>3, <2>1
    <3>2. g[k + 1] \in 0..(a - 1) /\ g[k + 1] \notin U
      BY <1>6, <1>7, <3>1
    <3>3. g[k + 1] \in 0..(BlockCount[c] - 1)
      BY <1>3, <3>2, SMTT(30)
    <3> QED BY <1>5, <2>1, <3>2, <3>3 DEF NthSlot
  <2>2. CASE ~(k < Len(g))
    <3>1. PICK i : i = a + (k - Len(g))
      OBVIOUS
    <3>2. i \in 0..(BlockCount[c] - 1) /\ i \notin 0..(a - 1)
      BY <1>3, <2>2, <3>1, SMTT(30)
    <3> QED BY <1>5, <1>6, <2>2, <3>1, <3>2 DEF NthSlot
  <2> QED BY <2>1, <2>2
<1>9. ASSUME NEW i \in F PROVE \E k \in 0..(n - 1) : NthSlot(g, a, k) = i
  <2>1. i \in 0..(BlockCount[c] - 1) /\ i \notin U /\ i \in Nat
    BY <1>3, <1>5, <1>9
  <2>2. CASE i < a
    <3>1. i \in 0..(a - 1)
      BY <1>3, <2>1, <2>2
    <3>2. PICK j \in 1..Len(g) : g[j] = i
      BY <1>6, <1>7, <2>1, <3>1
    <3>3. j - 1 \in 0..(n - 1) /\ j - 1 < Len(g) /\ (j - 1) + 1 = j
      BY <1>3, <3>2
    <3>4. NthSlot(g, a, j - 1) = i
      BY <3>2, <3>3 DEF NthSlot
    <3> QED BY <3>3, <3>4
  <2>3. CASE ~(i < a)
    <3>1. PICK k : k = Len(g) + (i - a)
      OBVIOUS
    <3>2. k \in 0..(n - 1) /\ ~(k < Len(g)) /\ a + (k - Len(g)) = i
      BY <1>3, <2>1, <2>3, <3>1, SMTT(30)
    <3>3. NthSlot(g, a, k) = i
      BY <3>2 DEF NthSlot
    <3> QED BY <3>2, <3>3
  <2> QED BY <2>2, <2>3
<1>10. {FreeSlot(s, bd)[k] : k \in 0..(n - 1)} = F
  BY <1>4, <1>8, <1>9
<1> QED BY <1>1, <1>5, <1>10 DEF Takes

\* For a span of small blocks in use.
LEMMA SpanExact ==
  ASSUME NEW T, Placed(T), Taken = T, NEW s \in UsedSmall, NEW c, c = size_class[s],
         NEW bd, bd = BlockData(span_heap[s], s),
         NEW F, F = {i \in 0..(BlockCount[c] - 1) : <<s, i>> \notin Taken}
  PROVE  Takes(s, bd, F)
<1>1. s \in UsedBy(T) /\ span_heap[s] # NoHeap /\ c \in SmallClass
  BY DEF UsedSmall, InUse, UsedBy
<1>2. PICK U : U = SlotsOf(T, s)
  OBVIOUS
<1>3. SpanOk(U, s, span_heap[s], c, bd, word)
  BY <1>1, <1>2 DEF Placed, SpansOk
<1>4. PICK g : FreeListIs(U, s, c, bd, word, g)
  BY <1>1, <1>3 DEF SpanOk, SmallOk
<1>5. F = FreeIn(U, c)
  <2>1. 0..(BlockCount[c] - 1) \subseteq Slot
    BY <1>1, BlockSets
  <2> QED BY <1>2, <2>1 DEF SlotsOf, FreeIn
<1> QED BY <1>1, <1>4, <1>5, FreeSlots

\* For all of them.
LEMMA FreeListsHold ==
  ASSUME NEW T, Placed(T), Taken = T
  PROVE  FreeListsExact
<1>1. ASSUME NEW s \in UsedSmall
      PROVE  LET bd == BlockData(span_heap[s], s)
                 free == {i \in 0..(BlockCount[size_class[s]] - 1) : <<s, i>> \notin Taken}
             IN /\ bd.free_count = Cardinality(free)
                /\ {FreeSlot(s, bd)[k] : k \in 0..(Cardinality(free) - 1)} = free
  <2>1. PICK c : c = size_class[s]
    OBVIOUS
  <2>2. PICK bd : bd = BlockData(span_heap[s], s)
    OBVIOUS
  <2>3. PICK F : F = {i \in 0..(BlockCount[c] - 1) : <<s, i>> \notin Taken}
    OBVIOUS
  <2>4. Takes(s, bd, F)
    BY <2>1, <2>2, <2>3, SpanExact
  <2> QED BY <2>1, <2>2, <2>3, <2>4 DEF Takes
<1> QED BY <1>1 DEF FreeListsExact

\* The blocks are where BlocksIntact says.
LEMMA BlocksPlaced ==
  ASSUME NEW L, NEW T, Placement(L, T)
  PROVE  BlocksIntact
<1>1. Placed(T) /\ Taken = T
  BY PendingIs DEF Placement
<1> QED BY <1>1, DeferredFacts, FreeListsHold DEF BlocksIntact
-----------------------------------------------------------------------------
\* While no two threads have one heap (the finding about rpmalloc.c:407-427 is
\* that they can), each mapped span is in use or once in one list of free spans
\* of its size, and a span of small blocks is active, listed as partly used, or
\* full, whatever order frees come in and from whichever thread
\* (rpmalloc.c:693-832, 1118-1172).
THEOREM SpanPlacementAlways == Spec /\ []Life!OneOwner => []SpanPlacement
<1>1. PlacesInv /\ Life!OneOwner /\ [Next]_vars => PlacesInv'
  BY PlacesStep, PlacesStutter
<1>2. PlacesInv => SpanPlacement
  BY SpansPlaced DEF PlacesInv, Calls
<1> QED BY <1>1, <1>2, PlacesStart, PTL DEF Spec

\* While no two threads have one heap, allocation finds each free block of a
\* span once and no block in use, and each free by another thread waits once
\* where its owner looks, however pushes, retries and takes interleave
\* (rpmalloc.c:697-739, 1155-1171, 1241-1298).
THEOREM BlocksIntactAlways == Spec /\ []Life!OneOwner => []BlocksIntact
<1>1. PlacesInv /\ Life!OneOwner /\ [Next]_vars => PlacesInv'
  BY PlacesStep, PlacesStutter
<1>2. PlacesInv => BlocksIntact
  BY BlocksPlaced DEF PlacesInv
<1> QED BY <1>1, <1>2, PlacesStart, PTL DEF Spec
-----------------------------------------------------------------------------
(* The abstract pool of blocks.                                              *)

\* The memory of block b when the headers of the spans are sh and sz.
IsSmall(s, sh, sz) == sh[s] # NoHeap /\ sz[s] \in SmallClass
CellsIn(b, sh, sz) == IF IsSmall(SpanOf(b), sh, sz) THEN {b} ELSE {SpanOf(b)} \X Slot

\* A span that is not for small blocks has its first block in T and no other.
Shaped(T, sh, sz) ==
  /\ T \subseteq Block
  /\ \A s \in UsedBy(T) : IsSmall(s, sh, sz) \/ SlotsOf(T, s) = {0}

\* The spans in use now.
LEMMA PlacedShape == ASSUME NEW T, Placed(T) PROVE Shaped(T, span_heap, size_class)
BY DEF Placed, SpansOk, SpanOk, OtherOk, Shaped, IsSmall

\* The spans in use after a step.
LEMMA PlacedShapeAfter == ASSUME NEW T, Placed(T)' PROVE Shaped(T, span_heap', size_class')
BY DEF Placed, SpansOk, SpanOk, OtherOk, Shaped, IsSmall

\* The blocks have memory, and no two of them share any.
LEMMA MemoryFacts ==
  ASSUME NEW T, NEW sh, NEW sz, Shaped(T, sh, sz)
  PROVE  \A x \in T : /\ CellsIn(x, sh, sz) # {} /\ CellsIn(x, sh, sz) \in Memory
                      /\ \A y \in T \ {x} : CellsIn(x, sh, sz) \cap CellsIn(y, sh, sz) = {}
<1> SUFFICES ASSUME NEW x \in T
             PROVE  /\ CellsIn(x, sh, sz) # {} /\ CellsIn(x, sh, sz) \in Memory
                    /\ \A y \in T \ {x} : CellsIn(x, sh, sz) \cap CellsIn(y, sh, sz) = {}
  OBVIOUS
<1>1. ASSUME NEW y \in T
      PROVE  /\ y \in Block /\ SpanOf(y) \in Span /\ SlotOf(y) \in Slot /\ y = <<SpanOf(y), SlotOf(y)>>
             /\ SpanOf(y) \in UsedBy(T) /\ SlotOf(y) \in SlotsOf(T, SpanOf(y))
  <2>1. y \in Block
    BY DEF Shaped
  <2>2. SpanOf(y) \in Span /\ SlotOf(y) \in Slot /\ y = <<SpanOf(y), SlotOf(y)>>
    BY <2>1, BlockFacts
  <2>3. SpanOf(y) \in UsedBy(T)
    BY DEF UsedBy
  <2>4. SlotOf(y) \in SlotsOf(T, SpanOf(y))
    BY <2>2 DEF SlotsOf
  <2> QED BY <2>1, <2>2, <2>3, <2>4
<1>2. ASSUME NEW y \in T PROVE \A z \in CellsIn(y, sh, sz) : z[1] = SpanOf(y)
  BY <1>1 DEF CellsIn, SpanOf
<1>3. x \in CellsIn(x, sh, sz)
  <2>1. x \in {SpanOf(x)} \X Slot
    BY <1>1
  <2> QED BY <2>1 DEF CellsIn
<1>4. CellsIn(x, sh, sz) \in Memory
  BY <1>1 DEF CellsIn, Memory
<1>5. ASSUME NEW y \in T \ {x} PROVE CellsIn(x, sh, sz) \cap CellsIn(y, sh, sz) = {}
  <2>1. CASE SpanOf(x) # SpanOf(y)
    BY <1>2, <2>1
  <2>2. CASE SpanOf(x) = SpanOf(y)
    <3>1. SlotOf(x) # SlotOf(y)
      BY <1>1, <1>5, <2>2
    <3>2. IsSmall(SpanOf(x), sh, sz)
      <4>1. SlotsOf(T, SpanOf(x)) # {0}
        BY <1>1, <2>2, <3>1
      <4> QED BY <1>1, <4>1 DEF Shaped
    <3> QED BY <2>2, <3>2 DEF CellsIn
  <2> QED BY <2>1, <2>2
<1> QED BY <1>3, <1>4, <1>5

\* The blocks the program has, with their memory.
LEMMA ClientMemoryIs == ClientMemory = {CellsIn(b, span_heap, size_class) : b \in live}
BY DEF ClientMemory, Cells, CellsIn, IsSmall

\* The same after a step.
LEMMA ClientMemoryAfter == ClientMemory' = {CellsIn(b, span_heap', size_class') : b \in live'}
BY DEF ClientMemory, Cells, CellsIn, IsSmall

\* A step hands out one block that shares memory with no other, takes one
\* back, or neither, and no other block's memory changes.
LEMMA PoolStep ==
  ASSUME NEW K, NEW S, Placement(K, S), NEW L, NEW T, MovedTo(L, T)
  PROVE  Pool!BNext \/ UNCHANGED ClientMemory
<1> DEFINE M(x) == CellsIn(x, span_heap, size_class)
           N(x) == CellsIn(x, span_heap', size_class')
<1>1. live \subseteq S /\ Shaped(S, span_heap, size_class)
  BY PlacedShape DEF Placement
<1>2. live' \subseteq T /\ Shaped(T, span_heap', size_class')
  BY PlacedShapeAfter DEF MovedTo, Placement
<1>3. \A x \in live : M(x) # {} /\ M(x) \in Memory /\ \A y \in live \ {x} : M(x) \cap M(y) = {}
  BY <1>1, MemoryFacts
<1>4. \A x \in live' : N(x) # {} /\ N(x) \in Memory /\ \A y \in live' \ {x} : N(x) \cap N(y) = {}
  BY <1>2, MemoryFacts
<1>5. \A x \in live \cap live' : N(x) = M(x)
  BY DEF MovedTo, OthersAlone, CellsIn, IsSmall
<1>6. ClientMemory = {M(x) : x \in live} /\ ClientMemory' = {N(x) : x \in live'}
  BY ClientMemoryIs, ClientMemoryAfter
<1> HIDE DEF M, N
<1>7. CASE live' = live
  BY <1>5, <1>6, <1>7
<1>8. ASSUME NEW b \in Block \ live, live' = live \cup {b} PROVE Pool!BNext
  <2>1. ClientMemory' = ClientMemory \cup {N(b)}
    BY <1>5, <1>6, <1>8
  <2>2. N(b) # {} /\ N(b) \in Memory
    BY <1>4, <1>8
  <2>3. N(b) \cap UNION ClientMemory = {}
    <3>1. \A x \in live : N(b) \cap M(x) = {}
      BY <1>4, <1>5, <1>8
    <3> QED BY <1>6, <3>1
  <2>4. Pool!BAlloc(N(b))
    BY <2>1, <2>2, <2>3 DEF Pool!BAlloc
  <2> QED BY <2>2, <2>4 DEF Pool!BNext
<1>9. ASSUME NEW b \in live, live' = live \ {b} PROVE Pool!BNext
  <2>1. M(b) \in ClientMemory /\ M(b) \in Memory
    BY <1>3, <1>6
  <2>2. \A x \in live \ {b} : M(x) # M(b)
    BY <1>3
  <2>3. ClientMemory' = ClientMemory \ {M(b)}
    BY <1>5, <1>6, <1>9, <2>2
  <2>4. Pool!BFree(M(b))
    BY <2>1, <2>3 DEF Pool!BFree
  <2> QED BY <2>1, <2>4 DEF Pool!BNext
<1> QED BY <1>7, <1>8, <1>9 DEF MovedTo, LiveMoves
-----------------------------------------------------------------------------
\* While no two threads have one heap, rpmalloc implements the abstract pool:
\* every block it returns is memory nobody has, and only a free takes one back
\* (rpmalloc.c:693-832, 889-941, 1187-1298).
THEOREM ImplementsBlockPool == Spec /\ []Life!OneOwner => IsBlockPool
<1>1. Init => Pool!BInit
  BY DEF Init, Pool!BInit, ClientMemory
<1>2. PlacesInv /\ Life!OneOwner /\ [Next]_vars => [Pool!BNext]_ClientMemory
  <2> SUFFICES ASSUME PlacesInv, Life!OneOwner, [Next]_vars PROVE Pool!BNext \/ UNCHANGED ClientMemory
    OBVIOUS
  <2>1. CASE Next
    <3>1. PICK K, S : Placement(K, S)
      BY DEF PlacesInv
    <3>2. PICK L, T : MovedTo(L, T)
      BY <2>1, PlacesStep
    <3> QED BY <3>1, <3>2, PoolStep
  <2>2. CASE UNCHANGED vars
    BY <2>2 DEF vars, ownVars, spanVars, ClientMemory, Cells
  <2> QED BY <2>1, <2>2
<1>3. PlacesInv /\ Life!OneOwner /\ [Next]_vars => PlacesInv'
  BY PlacesStep, PlacesStutter
<1> QED BY <1>1, <1>2, <1>3, PlacesStart, PTL DEF Spec, IsBlockPool, Pool!BSpec
-----------------------------------------------------------------------------
(* What a step writes of the heaps                                           *)

\* Only heap h's caches change.
CachesBy(h) == \A k \in Heap \ {h} : span_cache'[k] = span_cache[k]

\* One cache of a heap written.
LEMMA CachesWritten ==
  ASSUME CacheType(span_cache), NEW h, NEW n, NEW l, span_cache' = [span_cache EXCEPT ![h][n] = l]
  PROVE  CachesBy(h)
BY DEF CachesBy, CacheType

\* A span taken for heap h.
LEMMA TakenCaches ==
  ASSUME CacheType(span_cache), NEW h, NEW n, NEW s,
         FromCache(h, n, s) \/ FromGlobal(h, n, s) \/ FromSystem(h, n, s)
  PROVE  CachesBy(h)
<1>1. CASE span_cache' = span_cache
  BY <1>1 DEF CachesBy
<1>2. CASE FromCache(h, n, s)
  <2>1. PICK l : l = Tail(span_cache[h][n])
    OBVIOUS
  <2>2. span_cache' = [span_cache EXCEPT ![h][n] = l]
    BY <1>2, <2>1 DEF FromCache
  <2> QED BY <2>2, CachesWritten
<1>3. CASE FromGlobal(h, n, s)
  <2>1. PICK l : l = Tail(Head(global[n]))
    OBVIOUS
  <2>2. span_cache' = [span_cache EXCEPT ![h][n] = l]
    BY <1>3, <2>1 DEF FromGlobal
  <2> QED BY <2>2, CachesWritten
<1> QED BY <1>1, <1>2, <1>3 DEF FromSystem, MapSpan

\* A block given back to heap h.
LEMMA FreedCaches ==
  ASSUME CacheType(span_cache), NEW h, NEW b, FreeToHeap(h, b)
  PROVE  CachesBy(h)
<1>1. ASSUME NEW n, NEW s, CacheInsert(h, n, s) PROVE CachesBy(h)
  <2>1. PICK l : l = <<s>> \o span_cache[h][n]
    OBVIOUS
  <2>2. span_cache' = [span_cache EXCEPT ![h][n] = l]
    BY <1>1, <2>1 DEF CacheInsert
  <2> QED BY <2>2, CachesWritten
<1>2. ASSUME UNCHANGED span_cache PROVE CachesBy(h)
  BY <1>2 DEF CachesBy
<1> QED BY <1>1, <1>2 DEF FreeToHeap, FreeLast, FreeInSpan, FreeLarge

\* A large block from the caches of the thread's heap.
LEMMA LargeCaches ==
  ASSUME CacheType(span_cache), NEW t, NEW c, LargeFromCache(t, c)
  PROVE  CachesBy(thread_heap[t])
<1>1. PICK m, s : FromCache(thread_heap[t], m, s)
  BY DEF LargeFromCache
<1> QED BY <1>1, TakenCaches

\* A thread that does not close heaps has its own at hand.
LEMMA OwnHeap ==
  ASSUME Phases, NEW t \in Thread, at[t] \in {"refill", "release"} \/ Ready(t)
  PROVE  HeapOf(t) = thread_heap[t]
<1>1. why[t] # "close"
  BY IdleFacts DEF Ready
<1> QED BY <1>1 DEF HeapOf

\* A call changes the caches of no heap but the one at hand.
LEMMA CallCaches ==
  ASSUME Phases, CacheType(span_cache), NEW t \in Thread, Call(t)
  PROVE  CachesBy(HeapOf(t))
<1>1. ASSUME UNCHANGED span_cache PROVE CachesBy(HeapOf(t))
  BY <1>1 DEF CachesBy
<1>2. ASSUME NEW h, NEW r, LoadDeferred(t, h, r) PROVE UNCHANGED span_cache
  BY <1>2 DEF LoadDeferred, spanVars
<1>3. ASSUME NEW c, AllocLargeCached(t, c) PROVE CachesBy(HeapOf(t))
  BY <1>3, LargeCaches, OwnHeap DEF AllocLargeCached
<1>4. ASSUME NEW c, Alloc(t, c) PROVE CachesBy(HeapOf(t))
  <2>1. CASE AllocActive(t, c)
    BY <2>1, <1>1 DEF AllocActive, spanVars
  <2>2. CASE AllocSmall(t, c) \/ AllocLarge(t, c)
    BY <2>2, <1>1, <1>2 DEF AllocSmall, AllocLarge
  <2>3. CASE AllocOversized(t, c)
    BY <2>3, <1>1 DEF AllocOversized, MapSpan
  <2> QED BY <1>3, <1>4, <2>1, <2>2, <2>3 DEF Alloc
<1>5. ASSUME NEW b, Free(t, b) PROVE CachesBy(HeapOf(t))
  BY <1>5, FreedCaches, OwnHeap DEF Free
<1>6. ASSUME NEW b, FreeDeferred(t, b) \/ FreeOversized(t, b) PROVE CachesBy(HeapOf(t))
  BY <1>6, <1>1 DEF FreeDeferred, LoadDefer, FreeOversized, spanVars
<1>7. CASE Collect(t) \/ ThreadFinalize(t) \/ Finalize(t)
  BY <1>7, <1>1, <1>2 DEF Collect, ThreadFinalize, Finalize
<1> QED BY <1>4, <1>5, <1>6, <1>7 DEF Call

\* Nor does what follows in a call.
LEMMA ContinueCaches ==
  ASSUME Phases, CacheType(span_cache), NEW t \in Thread, Continue(t)
  PROVE  CachesBy(HeapOf(t))
<1>1. ASSUME UNCHANGED span_cache PROVE CachesBy(HeapOf(t))
  BY <1>1 DEF CachesBy
<1>2. CASE DeferSwaps(t) \/ DeferRetries(t) \/ TakeDeferred(t) \/ TakeFails(t) \/ Promote(t)
           \/ NextToClose(t) \/ ReleaseEnds(t) \/ FinalizeEnds(t)
  BY <1>1, <1>2 DEF DeferSwaps, DeferRetries, LoadDefer, TakeDeferred, TakeFails, Promote, NextToClose,
     LoadDeferred, ReleaseEnds, FinalizeEnds, spanVars
<1>3. CASE Drain(t)
  BY <1>3, FreedCaches DEF Drain
<1>4. CASE NewSpan(t) \/ LargeNew(t)
  <2>1. PICK n, s : FromCache(thread_heap[t], n, s) \/ FromGlobal(thread_heap[t], n, s)
                    \/ FromSystem(thread_heap[t], n, s)
    BY <1>4 DEF NewSpan, LargeNew
  <2>2. at[t] = "refill"
    BY <1>4 DEF NewSpan, LargeNew
  <2> QED BY <2>1, <2>2, TakenCaches, OwnHeap
<1>5. CASE LargeAgain(t)
  BY <1>5, LargeCaches, OwnHeap DEF LargeAgain
<1>6. CASE Release(t)
  <2>1. PICK n, l : span_cache' = [span_cache EXCEPT ![thread_heap[t]][n] = l]
    BY <1>6 DEF Release
  <2>2. at[t] = "release"
    BY <1>6 DEF Release
  <2> QED BY <2>1, <2>2, CachesWritten, OwnHeap
<1>7. CASE UnmapHeap(t)
  <2>1. PICK h, l : h = ToClose /\ span_cache' = [span_cache EXCEPT ![h] = l]
    BY <1>7 DEF UnmapHeap
  <2>2. at[t] = "unmap"
    BY <1>7 DEF UnmapHeap
  <2>3. HeapOf(t) = h
    BY <2>1, <2>2 DEF HeapOf, Phases, CloseLabel
  <2> QED BY <2>1, <2>3 DEF CachesBy, CacheType
<1> QED BY <1>2, <1>3, <1>4, <1>5, <1>6, <1>7 DEF Continue

\* The deferred frees of a heap that is not in the table do not change.
DefersBy(t) == \A k \in Heap : k # HeapOf(t) /\ k \notin Linked => defer'[k] = defer[k]

\* A step pushes on a linked heap's list or takes its own.
LEMMA StepDefers ==
  ASSUME HeapsInv, NEW t \in Thread, NEW L, NEW T, Before(t, L, T), LifeStep(t) \/ Call(t) \/ Continue(t)
  PROVE  DefersBy(t)
<1>1. ASSUME UNCHANGED defer PROVE DefersBy(t)
  BY <1>1 DEF DefersBy
<1>2. defer \in [Heap -> Block \cup {Null}]
  BY BeforeFacts
<1>3. CASE LifeStep(t)
  BY <1>1, <1>3, SMTT(30) DEF LifeStep
<1>4. CASE Call(t)
  BY <1>1, <1>4 DEF Call, Alloc, AllocActive, AllocSmall, AllocLargeCached, AllocLarge, AllocOversized,
     Free, FreeDeferred, LoadDefer, FreeOversized, Collect, ThreadFinalize, Finalize, LoadDeferred
<1>5. CASE DeferSwaps(t)
  <2>1. PICK h : h = Life!HeapLookup(span_heap[SpanOf(p[t])])
    OBVIOUS
  <2>2. at[t] = "defer" /\ defer' = [defer EXCEPT ![h] = p[t]]
    BY <1>5, <2>1 DEF DeferSwaps
  <2>3. h = span_heap[SpanOf(p[t])] /\ h \in Heap /\ SpanOf(p[t]) \in Span /\ why[t] # "close"
    BY <2>1, <2>2, PushFacts
  <2>4. ~Closing
    BY <2>3 DEF Closing, Before, Alone
  <2>5. Known(h) /\ h # NoHeap
    BY <2>3, <2>4, HeapSets DEF HeapsInv, HeapsLinked, AllKnown
  <2> QED BY <1>2, <2>2, <2>5 DEF DefersBy, Known
<1>6. CASE TakeDeferred(t)
  <2>1. PICK h : h = HeapOf(t)
    OBVIOUS
  <2>2. defer' = [defer EXCEPT ![h] = Null]
    BY <1>6, <2>1, SMTT(30) DEF TakeDeferred
  <2> QED BY <1>2, <2>1, <2>2 DEF DefersBy
<1>7. ASSUME Continue(t), ~DeferSwaps(t), ~TakeDeferred(t) PROVE DefersBy(t)
  BY <1>1, <1>7 DEF Continue, DeferRetries, LoadDefer, TakeFails, Drain, DrainTo, Promote, NewSpan, Returns,
     LargeAgain, LargeNew, Release, ReleaseEnds, UnmapHeap, NextToClose, LoadDeferred, FinalizeEnds
<1> QED BY <1>3, <1>4, <1>5, <1>6, <1>7

\* A linked heap stays in the table until rpmalloc_finalize.
LEMMA LinkedGrows ==
  ASSUME HeapsInv, ~Closing, NEW t \in Thread, LifeStep(t) \/ Call(t) \/ Continue(t)
  PROVE  Linked \subseteq Linked'
<1>1. Phases /\ HeapTypes /\ why[t] # "close"
  BY DEF HeapsInv, HeapsLinked, Closing
<1>2. ASSUME heap_id' = heap_id,
             \A u \in Thread : (Links(u) <=> Links(u)') /\ (Links(u) => heap'[u] = heap[u])
      PROVE  Linked \subseteq Linked'
  BY <1>2, LinkedKept
<1>3. CASE LifeStep(t)
  <2>1. /\ at \in [Thread -> Label] /\ heap \in [Thread -> HeapOrNone]
        /\ heap_id \in Nat
    BY <1>1 DEF Phases, HeapTypes
  <2>2. CASE Life!MapHeap(t)
    <3>1. /\ heap_id' = heap_id + 1 /\ heap' = [heap EXCEPT ![t] = heap_id']
          /\ at' = [at EXCEPT ![t] = "link"]
      BY <2>2 DEF Life!MapHeap, Life!Goto
    <3>2. SUFFICES ASSUME NEW h \in Linked PROVE h \in Linked'
      OBVIOUS
    <3>3. h \in 1..heap_id /\ h \in 1..heap_id' /\ h # heap_id'
      BY <2>1, <3>1 DEF Linked
    <3>4. ASSUME NEW u \in Thread, Links(u)' PROVE heap'[u] # h
      BY <2>1, <3>1, <3>3, <3>4 DEF Linked, Links
    <3> QED BY <3>3, <3>4 DEF Linked
  <2>3. CASE Life!LinkHeap(t) \/ Life!SwapBucketFails(t) \/ Life!SwapBucket(t)
    <3>1. /\ Links(t) /\ heap_id' = heap_id /\ \A u \in Thread \ {t} : heap'[u] = heap[u]
          /\ Links(t)' => heap'[t] = heap[t]
          /\ \A u \in Thread \ {t} : Links(u)' <=> Links(u)
      BY <2>1, <2>3 DEF Life!LinkHeap, Life!SwapBucketFails, Life!SwapBucket, Life!Owns, Life!Goto, Links,
         Life!sharedHeapVars
    <3> QED BY <3>1 DEF Linked
  <2>4. ASSUME ~Life!MapHeap(t), ~Life!LinkHeap(t), ~Life!SwapBucketFails(t), ~Life!SwapBucket(t)
        PROVE  Linked \subseteq Linked'
    <3>1. /\ ~Links(t) /\ ~Links(t)' /\ heap_id' = heap_id
          /\ \A u \in Thread \ {t} : heap'[u] = heap[u] /\ (Links(u)' <=> Links(u))
      BY <2>1, <1>3, <2>4 DEF LifeStep, Life!ThreadInitialize, Life!LoadOrphan, Life!HeapStep,
         Life!ReadNextOrphan, Life!PopOrphan, Life!PopFails, Life!PushOrphan, Life!PushFails,
         Life!LinkOrphan, Life!Owns, Life!Goto, Links, Life!sharedHeapVars
    <3> QED BY <3>1, <1>2
  <2> QED BY <2>2, <2>3, <2>4
<1>4. ASSUME Elsewhere(t), UNCHANGED lifeVars PROVE Linked \subseteq Linked'
  <2>1. at \in [Thread -> Label] /\ heap' = heap /\ heap_id' = heap_id
    BY <1>1, <1>4 DEF Phases, lifeVars
  <2>2. \A u \in Thread : Links(u) <=> Links(u)'
    BY <1>4, <2>1 DEF Elsewhere, Links, HeapLabel
  <2> QED BY <1>2, <2>1, <2>2
<1>5. CASE ReleaseEnds(t)
  <2>1. /\ at[t] = "release" /\ at' = [at EXCEPT ![t] = "push"] /\ heap' = heap /\ heap_id' = heap_id
        /\ at \in [Thread -> Label]
    BY <1>1, <1>5 DEF ReleaseEnds, Life!LinkOrphan, Life!Goto, Phases
  <2>2. \A u \in Thread : Links(u) <=> Links(u)'
    BY <2>1 DEF Links
  <2> QED BY <1>2, <2>1, <2>2
<1>6. ~UnmapHeap(t) /\ ~FinalizeEnds(t)
  BY <1>1 DEF Phases, UnmapHeap, FinalizeEnds, CloseLabel
<1> QED BY <1>1, <1>3, <1>4, <1>5, <1>6, CallSteps, ContinueSteps
-----------------------------------------------------------------------------
(* rpmalloc_finalize                                                         *)

\* Nothing is cached in heap h or queued on it.
Emptied(h) == defer[h] = Null /\ \A n \in SpanUnits : span_cache[h][n] = <<>>

\* The heaps of bucket b that are left are those of c in turn; the others hold
\* nothing.
Remaining(b, c) ==
  /\ c \in Seq(Heap) /\ NoRepeat(c)
  /\ heaps[b] = HeapAt(c, 1)
  /\ \A i \in 1..Len(c) : next_heap[c[i]] = HeapAt(c, i + 1) /\ BucketOf(c[i]) = b
  /\ \A h \in Heap : BucketOf(h) = b /\ h \notin Range(c) => Emptied(h)

UnlinkedEmpty == \A h \in Heap \ Linked : Emptied(h)
AllRemaining == \A b \in Bucket : \E c : Remaining(b, c)

\* Nobody defers frees any more, so the heap at hand gets no more of them.
Settled(t) ==
  why[t] = "close" => /\ at[t] = "take" => p[t] = defer[ToClose]
                      /\ at[t] \in {"drain", "unmap"} => defer[ToClose] = Null

CloseInv ==
  /\ ~Closing => UnlinkedEmpty
  /\ Closing => AllRemaining
  /\ \A t \in Thread : Settled(t)

\* A thread that does not close heaps does not begin to, but in rpmalloc_finalize.
LEMMA StaysOpen ==
  ASSUME Phases, ~Closing, NEW t \in Thread, LifeStep(t) \/ Call(t) \/ Continue(t), ~Finalize(t)
  PROVE  ~Closing'
<1>1. \A u \in Thread : why[u] # "close"
  BY DEF Closing
<1>2. why \in [Thread -> Reason] /\ at[t] \notin CloseLabel
  BY <1>1 DEF Phases, Reason
<1>3. ASSUME NEW r, r # "close", why' = [why EXCEPT ![t] = r] PROVE ~Closing'
  BY <1>1, <1>2, <1>3 DEF Closing
<1>4. ASSUME UNCHANGED why PROVE ~Closing'
  BY <1>1, <1>4 DEF Closing
<1>5. ASSUME NEW h, NEW r, r # "close", LoadDeferred(t, h, r) PROVE ~Closing'
  BY <1>3, <1>5 DEF LoadDeferred
<1>6. CASE LifeStep(t)
  BY <1>4, <1>6 DEF LifeStep, callVars
<1>7. CASE Call(t)
  <2>1. ASSUME NEW c, Alloc(t, c) PROVE ~Closing'
    BY <2>1, <1>4, <1>5 DEF Alloc, AllocActive, AllocSmall, AllocLargeCached, AllocLarge, AllocOversized, callVars
  <2>2. ASSUME NEW b, Free(t, b) \/ FreeDeferred(t, b) \/ FreeOversized(t, b) PROVE ~Closing'
    BY <2>2, <1>4 DEF Free, FreeDeferred, LoadDefer, FreeOversized, callVars
  <2>3. CASE Collect(t) \/ ThreadFinalize(t)
    BY <2>3, <1>5 DEF Collect, ThreadFinalize
  <2> QED BY <1>7, <2>1, <2>2, <2>3 DEF Call
<1>8. CASE Continue(t)
  <2>1. ~UnmapHeap(t) /\ ~NextToClose(t) /\ ~FinalizeEnds(t)
    BY <1>2 DEF UnmapHeap, NextToClose, FinalizeEnds, CloseLabel
  <2>2. CASE DeferSwaps(t) \/ DeferRetries(t) \/ TakeDeferred(t) \/ TakeFails(t) \/ Drain(t) \/ Release(t)
    BY <2>2, <1>4 DEF DeferSwaps, DeferRetries, LoadDefer, TakeDeferred, TakeFails, Drain, DrainTo, Release, callVars
  <2>3. CASE Promote(t) \/ NewSpan(t) \/ LargeAgain(t) \/ LargeNew(t) \/ ReleaseEnds(t)
    BY <2>3, <1>3 DEF Promote, NewSpan, LargeAgain, LargeNew, Returns, ReleaseEnds
  <2> QED BY <1>8, <2>1, <2>2, <2>3 DEF Continue
<1> QED BY <1>6, <1>7, <1>8

\* While heaps are in use a heap that is not linked yet has nothing.
LEMMA OpenStep ==
  ASSUME HeapsInv, ~Closing, UnlinkedEmpty,
         NEW t \in Thread, NEW L, NEW T, Before(t, L, T), LifeStep(t) \/ Call(t) \/ Continue(t), ~Finalize(t)
  PROVE  CloseInv'
<1>1. Phases /\ HeapsLinked /\ why[t] # "close" /\ CacheType(span_cache)
  BY BeforeFacts DEF HeapsInv, Closing, Placed, Spare, FreeLists, ListTypes
<1>2. ~Closing'
  BY <1>1, StaysOpen
<1>3. Linked \subseteq Linked'
  BY LinkedGrows
<1>4. CachesBy(HeapOf(t))
  <2>1. CASE LifeStep(t)
    BY <2>1 DEF LifeStep, spanVars, CachesBy
  <2> QED BY <1>1, <2>1, CallCaches, ContinueCaches
<1>5. DefersBy(t)
  BY StepDefers
<1>6. HeapOf(t) = NoHeap \/ HeapOf(t) \in Linked
  BY <1>1 DEF HeapsLinked, AllKnown, Known, HeapOf
<1>7. ASSUME NEW h \in Heap \ Linked' PROVE Emptied(h)'
  <2>1. h \in Heap \ Linked /\ h # HeapOf(t)
    BY <1>3, <1>6, HeapSets
  <2>2. Emptied(h) /\ span_cache'[h] = span_cache[h] /\ defer'[h] = defer[h]
    BY <1>4, <1>5, <2>1 DEF UnlinkedEmpty, CachesBy, DefersBy
  <2> QED BY <2>2 DEF Emptied, SpanUnits
<1>8. UnlinkedEmpty'
  BY <1>7, SameSets DEF UnlinkedEmpty
<1>9. \A u \in Thread : Settled(u)'
  BY <1>2 DEF Settled, Closing
<1> QED BY <1>2, <1>8, <1>9 DEF CloseInv

\* The heap at hand, when finalization comes to it.
LEMMA LoadSettles ==
  ASSUME NEW t \in Thread, Phases, Calls, LoadDeferred(t, ToClose, "close")
  PROVE  Settled(t)' /\ UNCHANGED <<heaps, next_heap, span_cache, defer>>
<1>1. PICK d : d = defer[ToClose]
  OBVIOUS
<1>2. /\ p' = [p EXCEPT ![t] = d] /\ UNCHANGED <<heaps, next_heap, span_cache, defer>>
      /\ at' = [at EXCEPT ![t] = IF d = Null THEN "unmap" ELSE "take"]
  BY <1>1 DEF LoadDeferred, Caller, Goto, Life!Goto, lifeVars, spanVars
<1>3. ToClose' = ToClose
  BY <1>2, ToCloseStays
<1>4. at'[t] = (IF d = Null THEN "unmap" ELSE "take") /\ p'[t] = d
  BY <1>2 DEF Phases, Calls, CallTypes
<1>5. defer'[ToClose'] = d
  BY <1>1, <1>2, <1>3
<1> QED BY <1>2, <1>4, <1>5 DEF Settled

\* The step of rpmalloc_finalize that begins to close.
LEMMA FinalizeStep ==
  ASSUME HeapsInv, ~Closing, UnlinkedEmpty, NEW t \in Thread, Calls, Finalize(t)
  PROVE  CloseInv'
<1>1. Phases /\ HeapsLinked
  BY DEF HeapsInv
<1>2. LoadDeferred(t, ToClose, "close") /\ UNCHANGED <<heaps, next_heap, span_cache, defer>> /\ Settled(t)'
  BY <1>1, LoadSettles DEF Finalize
<1>3. why'[t] = "close" /\ \A u \in Thread \ {t} : why'[u] # "close"
  BY <1>1, <1>2 DEF LoadDeferred, Phases, Closing
<1>4. ASSUME NEW b \in Bucket PROVE \E c : Remaining(b, c)'
  <2>1. PICK c : Chains(b, c)
    BY <1>1 DEF HeapsLinked
  <2>2. c \in Seq(Heap) /\ NoRepeat(c) /\ Range(c) = {h \in Linked : BucketOf(h) = b} /\ heaps[b] = HeapAt(c, 1)
        /\ \A i \in 1..Len(c) : next_heap[c[i]] = HeapAt(c, i + 1)
    BY <2>1 DEF Chains
  <2>3. \A i \in 1..Len(c) : c[i] \in Range(c)
    BY <2>2, RangeFacts
  <2>4. ASSUME NEW h \in Heap, BucketOf(h) = b, h \notin Range(c) PROVE Emptied(h)'
    <3>1. Emptied(h)
      BY <2>2, <2>4 DEF UnlinkedEmpty
    <3> QED BY <1>2, <3>1 DEF Emptied, SpanUnits
  <2>5. \A k \in Nat : HeapAt(c, k)' = HeapAt(c, k)
    BY SameSets DEF HeapAt
  <2>6. Remaining(b, c)'
    <3>1. Heap' = Heap
      BY SameSets
    <3> QED BY <1>2, <2>2, <2>3, <2>4, <2>5, <3>1 DEF Remaining, BucketOf, Life!BucketOf
  <2> QED BY <2>6
<1>5. AllRemaining'
  BY <1>4, SameSets DEF AllRemaining
<1>6. \A u \in Thread : Settled(u)'
  BY <1>2, <1>3 DEF Settled
<1>7. Closing'
  BY <1>3 DEF Closing
<1> QED BY <1>5, <1>6, <1>7 DEF CloseInv

\* The heap at hand is the first of its bucket.
LEMMA AtHandFirst ==
  ASSUME Calls, AllRemaining, HeapsLeft, NEW h, h = ToClose
  PROVE  h \in Heap /\ BucketOf(h) \in Bucket /\ heaps[BucketOf(h)] = h
<1>1. PICK b \in Bucket : h = heaps[b]
  BY ToCloseIn DEF Calls
<1>2. h \in Heap /\ h # NoHeap
  BY ToCloseIn, HeapSets DEF Calls
<1>3. PICK c : Remaining(b, c)
  BY DEF AllRemaining
<1>4. c \in Seq(Heap) /\ h = HeapAt(c, 1)
  BY <1>1, <1>3 DEF Remaining
<1>5. 1 \in 1..Len(c) /\ c[1] = h
  BY <1>2, <1>4 DEF HeapAt
<1>6. BucketOf(h) = b
  BY <1>3, <1>5 DEF Remaining
<1> QED BY <1>1, <1>2, <1>6

\* It is the first of what is left.
LEMMA FirstLeft ==
  ASSUME NEW h \in Heap, heaps[BucketOf(h)] = h, NEW c, Remaining(BucketOf(h), c)
  PROVE  c \in Seq(Heap) /\ c # <<>> /\ c[1] = h /\ h \in Range(c)
<1>1. c \in Seq(Heap) /\ h = HeapAt(c, 1)
  BY DEF Remaining
<1>2. 1 \in 1..Len(c) /\ c[1] = h
  BY <1>1, HeapSets DEF HeapAt
<1> QED BY <1>1, <1>2, RangeFacts

\* What is left stays as it is while the heap at hand is worked on.
LEMMA RemainingKept ==
  ASSUME AllRemaining, UNCHANGED <<heaps, next_heap>>,
         \A b \in Bucket : \A c : Remaining(b, c) =>
           \A h \in Heap : BucketOf(h) = b /\ h \notin Range(c) => Emptied(h)'
  PROVE  AllRemaining'
<1>1. ASSUME NEW b \in Bucket PROVE \E c : Remaining(b, c)'
  <2>1. PICK c : Remaining(b, c)
    BY DEF AllRemaining
  <2>2. \A h \in Heap : BucketOf(h) = b /\ h \notin Range(c) => Emptied(h)'
    BY <2>1
  <2>3. \A k \in Nat : HeapAt(c, k)' = HeapAt(c, k)
    BY SameSets DEF HeapAt
  <2>4. Heap' = Heap /\ Len(c) \in Nat
    BY <2>1, SameSets DEF Remaining
  <2>5. Remaining(b, c)'
    BY <2>1, <2>2, <2>3, <2>4 DEF Remaining, BucketOf, Life!BucketOf
  <2> QED BY <2>5
<1> QED BY <1>1, SameSets DEF AllRemaining
-----------------------------------------------------------------------------
(* The steps of rpmalloc_finalize *)

\* The first heap of a bucket is gone and had been emptied.
LEMMA RemainingTail ==
  ASSUME NEW h \in Heap, heaps[BucketOf(h)] = h, NEW c, Remaining(BucketOf(h), c),
         UNCHANGED next_heap, heaps'[BucketOf(h)] = next_heap[h], Emptied(h)',
         \A k \in Heap \ {h} : Emptied(k) => Emptied(k)'
  PROVE  Remaining(BucketOf(h), Tail(c))'
<1>1. PICK b : b = BucketOf(h)
  OBVIOUS
<1>2. c \in Seq(Heap) /\ c # <<>> /\ c[1] = h
  BY FirstLeft
<1>3. PICK d : d = Tail(c)
  OBVIOUS
<1>4. d \in Seq(Heap) /\ Len(c) \in Nat \ {0} /\ Len(d) = Len(c) - 1
      /\ \A i \in 1..Len(d) : i + 1 \in 1..Len(c) /\ d[i] = c[i + 1]
  BY <1>2, <1>3, TailFacts
<1>5. /\ \A i \in 1..Len(c) : next_heap[c[i]] = HeapAt(c, i + 1) /\ BucketOf(c[i]) = b
      /\ \A k \in Heap : BucketOf(k) = b /\ k \notin Range(c) => Emptied(k)
      /\ NoRepeat(c)
  BY <1>1 DEF Remaining
<1>6. \A i \in Nat \ {0} : HeapAt(d, i) = HeapAt(c, i + 1)
  <2> SUFFICES ASSUME NEW i \in Nat \ {0} PROVE HeapAt(d, i) = HeapAt(c, i + 1)
    OBVIOUS
  <2>1. i \in 1..Len(d) <=> i + 1 \in 1..Len(c)
    BY <1>4
  <2> QED BY <1>4, <2>1 DEF HeapAt
<1>7. NoRepeat(d)
  BY <1>4, <1>5 DEF NoRepeat
<1>8. heaps'[b] = HeapAt(d, 1)
  <2>1. next_heap[c[1]] = HeapAt(c, 1 + 1)
    BY <1>4, <1>5
  <2> QED BY <1>1, <1>2, <1>6, <2>1
<1>9. ASSUME NEW i \in 1..Len(d) PROVE next_heap[d[i]] = HeapAt(d, i + 1) /\ BucketOf(d[i]) = b
  <2>1. next_heap[c[i + 1]] = HeapAt(c, (i + 1) + 1) /\ BucketOf(c[i + 1]) = b
    BY <1>4, <1>5
  <2>2. HeapAt(d, i + 1) = HeapAt(c, (i + 1) + 1)
    BY <1>4, <1>6
  <2> QED BY <1>4, <2>1, <2>2
<1>10. ASSUME NEW k \in Heap, BucketOf(k) = b, k \notin Range(d) PROVE Emptied(k)'
  <2>1. CASE k # h
    <3>1. k \notin Range(c)
      <4> SUFFICES ASSUME NEW i \in 1..Len(c), k = c[i] PROVE FALSE
        BY <1>2, RangeFacts
      <4>1. i - 1 \in 1..Len(d) /\ d[i - 1] = k
        BY <1>2, <1>4, <2>1
      <4> QED BY <1>4, <1>10, <4>1, RangeFacts
    <3> QED BY <1>5, <1>10, <2>1, <3>1
  <2> QED BY <2>1
<1>11. Heap' = Heap /\ \A k \in Nat : HeapAt(d, k)' = HeapAt(d, k)
  BY SameSets DEF HeapAt
<1>12. Remaining(b, d)'
  BY <1>4, <1>7, <1>8, <1>9, <1>10, <1>11 DEF Remaining, BucketOf, Life!BucketOf
<1> QED BY <1>1, <1>3, <1>12 DEF Remaining, BucketOf, Life!BucketOf

\* While heaps are closed no other thread does anything.
LEMMA ClosingOnly ==
  ASSUME Closing, NEW t \in Thread, NEW L, NEW T, Before(t, L, T), LifeStep(t) \/ Call(t) \/ Continue(t)
  PROVE  /\ why[t] = "close"
         /\ TakeDeferred(t) \/ TakeFails(t) \/ Drain(t) \/ UnmapHeap(t) \/ NextToClose(t) \/ FinalizeEnds(t)
<1>1. why[t] = "close" /\ Phases
  BY DEF Closing, Before, Alone
<1>2. ~LifeStep(t) /\ ~Call(t)
  BY DEF LifeStep, Call, Alloc, AllocActive, AllocSmall, AllocLargeCached, AllocLarge,
     AllocOversized, Free, FreeDeferred, FreeOversized, Collect, ThreadFinalize, Finalize, Ready
<1>3. at[t] \notin {"defer", "refill", "release"}
  BY <1>1, IdleFacts
<1> QED BY <1>1, <1>2, <1>3 DEF Continue, DeferSwaps, DeferRetries, Promote, NewSpan, LargeAgain, LargeNew,
     Release, ReleaseEnds

\* A step of rpmalloc_finalize.
LEMMA ClosingStep ==
  ASSUME HeapsInv, Closing, AllRemaining, NEW t \in Thread, Settled(t),
         NEW L, NEW T, Before(t, L, T), LifeStep(t) \/ Call(t) \/ Continue(t)
  PROVE  CloseInv'
<1>1. PICK h : h = ToClose
  OBVIOUS
<1>2. /\ Phases /\ Calls /\ why[t] = "close" /\ HeapOf(t) = h /\ defer \in [Heap -> Block \cup {Null}]
      /\ at[t] \in {"take", "drain", "unmap"} => HeapsLeft
      /\ CacheType(span_cache)
  BY <1>1, ClosingOnly, ClosesFacts, BeforeFacts DEF HeapOf, Placed, Spare, FreeLists, ListTypes
<1>3. OwnStep(t)
  <2>1. Result(t)
    BY StepResult
  <2> QED BY <1>2, <2>1, LocalFacts DEF Result
<1>4. HeapsLeft => h \in Heap /\ BucketOf(h) \in Bucket /\ heaps[BucketOf(h)] = h
  BY <1>1, <1>2, AtHandFirst
<1>5. ASSUME UNCHANGED heaps PROVE ToClose' = h
  BY <1>1, <1>5, ToCloseStays
<1>6. ASSUME UNCHANGED <<heaps, next_heap>>, \A k \in Heap : Emptied(k) => Emptied(k)' PROVE AllRemaining'
  <2>1. \A b \in Bucket : \A c : Remaining(b, c) =>
          \A k \in Heap : BucketOf(k) = b /\ k \notin Range(c) => Emptied(k)'
    BY <1>6 DEF Remaining
  <2> QED BY <1>6, <2>1, RemainingKept
<1>7. ASSUME UNCHANGED <<span_cache, defer>> PROVE \A k \in Heap : Emptied(k) => Emptied(k)'
  BY <1>7 DEF Emptied, SpanUnits
<1>8. CASE TakeDeferred(t)
  <2>1. /\ at[t] = "take" /\ defer' = [defer EXCEPT ![h] = Null] /\ at' = [at EXCEPT ![t] = "drain"]
        /\ UNCHANGED <<heaps, next_heap, span_cache>>
    BY <1>2, <1>8 DEF TakeDeferred, Goto, Life!Goto, lifeVars, spanVars
  <2>2. \A k \in Heap : Emptied(k) => Emptied(k)'
    BY <1>2, <2>1 DEF Emptied, SpanUnits
  <2>3. at'[t] = "drain" /\ defer'[h] = Null
    BY <1>2, <1>4, <2>1 DEF Phases
  <2>4. Settled(t)'
    BY <1>5, <2>1, <2>3 DEF Settled
  <2> QED BY <1>6, <2>1, <2>2, <2>4, <1>2, <1>3, <1>8 DEF CloseInv, OwnStep, Settled, Closing, TakeDeferred,
       callVars, Before, Alone
<1>9. ~TakeFails(t)
  BY <1>1, <1>2 DEF TakeFails, Settled
<1>10. CASE Drain(t)
  <2>1. /\ at[t] = "drain" /\ CachesBy(h) /\ UNCHANGED <<heaps, next_heap, defer, why>>
    BY <1>2, <1>10, FreedCaches DEF Drain, DrainTo, lifeVars
  <2>2. PICK l : at' = [at EXCEPT ![t] = l] /\ l \in {"unmap", "drain"}
    <3>1. PICK l : l = IF word[p[t]] = Null THEN Caller("close") ELSE "drain"
      OBVIOUS
    <3>2. at' = [at EXCEPT ![t] = l]
      BY <1>2, <1>10, <3>1 DEF Drain, DrainTo, Goto, Life!Goto
    <3> QED BY <3>1, <3>2 DEF Caller
  <2>3. ASSUME NEW b \in Bucket, NEW c, Remaining(b, c), NEW k \in Heap, BucketOf(k) = b, k \notin Range(c)
        PROVE  Emptied(k)'
    <3>1. Emptied(k)
      BY <2>3 DEF Remaining
    <3>2. k # h
      BY <1>2, <1>4, <2>1, <2>3, FirstLeft
    <3> QED BY <2>1, <3>1, <3>2 DEF CachesBy, Emptied, SpanUnits
  <2>4. AllRemaining'
    BY <2>1, <2>3, RemainingKept
  <2>5. Settled(t)'
    <3>1. defer[h] = Null
      BY <1>1, <1>2, <2>1 DEF Settled
    <3>2. at'[t] = l
      BY <1>2, <2>2 DEF Phases
    <3> QED BY <1>5, <2>1, <2>2, <3>1, <3>2 DEF Settled
  <2> QED BY <1>2, <1>3, <2>1, <2>4, <2>5 DEF CloseInv, OwnStep, Settled, Closing, Before, Alone
<1>11. CASE UnmapHeap(t)
  <2>1. PICK e : e = [n \in SpanUnits |-> <<>>]
    OBVIOUS
  <2>2. /\ at[t] = "unmap" /\ span_cache' = [span_cache EXCEPT ![h] = e]
        /\ heaps' = [heaps EXCEPT ![BucketOf(h)] = next_heap[h]]
        /\ at' = [at EXCEPT ![t] = "closing"]
        /\ UNCHANGED <<next_heap, defer, why>>
    BY <1>1, <1>11, <2>1 DEF UnmapHeap, Goto, Life!Goto, SpanUnits, BucketOf, callVars
  <2>3. h \in Heap /\ BucketOf(h) \in Bucket /\ heaps[BucketOf(h)] = h /\ heaps \in [Bucket -> HeapOrNone]
    BY <1>2, <1>4, <2>2 DEF Calls, HeapTypes
  <2>4. Emptied(h)'
    <3>1. defer[h] = Null /\ span_cache'[h] = e
      BY <1>1, <1>2, <2>2, <2>3 DEF Settled, CacheType
    <3> QED BY <2>1, <2>2, <3>1 DEF Emptied, SpanUnits
  <2>5. \A k \in Heap \ {h} : Emptied(k) => Emptied(k)'
    BY <1>2, <2>2 DEF Emptied, SpanUnits, CacheType
  <2>6. heaps'[BucketOf(h)] = next_heap[h] /\ \A b \in Bucket \ {BucketOf(h)} : heaps'[b] = heaps[b]
    BY <2>2, <2>3
  <2>7. ASSUME NEW b \in Bucket PROVE \E c : Remaining(b, c)'
    <3>1. PICK c : Remaining(b, c)
      BY DEF AllRemaining
    <3>2. CASE b = BucketOf(h)
      <4>1. Remaining(BucketOf(h), Tail(c))'
        BY <2>2, <2>3, <2>4, <2>5, <2>6, <3>1, <3>2, RemainingTail
      <4> QED BY <3>2, <4>1 DEF BucketOf, Life!BucketOf
    <3>3. CASE b # BucketOf(h)
      <4>1. \A k \in Heap : BucketOf(k) = b /\ k \notin Range(c) => Emptied(k)'
        BY <2>5, <3>1, <3>3 DEF Remaining
      <4>2. heaps'[b] = heaps[b]
        BY <2>6, <3>3
      <4>3. Heap' = Heap /\ Len(c) \in Nat /\ \A k \in Nat : HeapAt(c, k)' = HeapAt(c, k)
        BY <3>1, SameSets DEF Remaining, HeapAt
      <4>4. Remaining(b, c)'
        BY <2>2, <3>1, <4>1, <4>2, <4>3 DEF Remaining, BucketOf, Life!BucketOf
      <4> QED BY <4>4
    <3> QED BY <3>2, <3>3
  <2>8. AllRemaining'
    BY <2>7, SameSets DEF AllRemaining
  <2>9. Settled(t)'
    BY <1>2, <2>2 DEF Settled, Phases
  <2> QED BY <1>2, <1>3, <2>2, <2>8, <2>9 DEF CloseInv, OwnStep, Settled, Closing, Before, Alone
<1>12. CASE NextToClose(t)
  <2>1. LoadDeferred(t, ToClose, "close") /\ Settled(t)' /\ UNCHANGED <<heaps, next_heap, span_cache, defer>>
    BY <1>2, <1>12, LoadSettles DEF NextToClose
  <2>2. why'[t] = "close"
    BY <1>2, <2>1 DEF LoadDeferred, Phases
  <2> QED BY <1>2, <1>3, <1>6, <1>7, <2>1, <2>2 DEF CloseInv, OwnStep, Settled, Closing, Before, Alone
<1>13. CASE FinalizeEnds(t)
  <2>1. /\ at' = [at EXCEPT ![t] = "closed"] /\ UNCHANGED <<heaps, next_heap, span_cache, defer, why>>
    BY <1>13 DEF FinalizeEnds, Goto, Life!Goto, callVars
  <2>2. Settled(t)'
    BY <1>2, <2>1 DEF Settled, Phases
  <2> QED BY <1>2, <1>3, <1>6, <1>7, <2>1, <2>2 DEF CloseInv, OwnStep, Settled, Closing, Before, Alone
<1> QED BY <1>8, <1>9, <1>10, <1>11, <1>12, <1>13, ClosingOnly
-----------------------------------------------------------------------------
(* The end of rpmalloc_finalize *)

\* When all heaps are closed and the threads are gone nothing waits anywhere.
LEMMA NothingWaits ==
  ASSUME HeapTypes, AllRemaining, ~HeapsLeft, NEW L, Deferral(L),
         \A u \in Thread : at[u] \notin {"defer", "drain"}
  PROVE  Waiting(L) = {} /\ \A h \in Heap, n \in SpanUnits : span_cache[h][n] = <<>>
<1>1. ASSUME NEW h \in Heap PROVE Emptied(h)
  <2>1. BucketOf(h) \in Bucket
    BY HeapSets
  <2>2. PICK c : Remaining(BucketOf(h), c)
    BY <2>1 DEF AllRemaining
  <2>3. c \in Seq(Heap) /\ HeapAt(c, 1) = NoHeap
    BY <2>1, <2>2 DEF Remaining, HeapsLeft, Bucket
  <2>4. Len(c) \in Nat /\ 1 \notin 1..Len(c)
    BY <2>3, HeapSets DEF HeapAt
  <2>5. h \notin Range(c)
    BY <2>3, <2>4, RangeFacts
  <2> QED BY <2>2, <2>5 DEF Remaining
<1>2. ASSUME NEW h \in Heap PROVE L[OfHeap(h)] = <<>>
  <2>1. Leads(defer[h], L[OfHeap(h)]) /\ L[OfHeap(h)] \in Seq(Block)
    BY Holders, ListFacts DEF Deferral, QueueOk
  <2> QED BY <1>1, <2>1, LeadsFacts DEF Emptied
<1>3. ASSUME NEW u \in Thread PROVE L[OfThread(u)] = <<>>
  BY DEF Deferral, HandOk
<1>4. ASSUME NEW x \in Holder PROVE Range(L[x]) = {}
  BY <1>2, <1>3, EmptyFacts DEF Holder, OfHeap, OfThread
<1> QED BY <1>1, <1>4 DEF Waiting, Emptied

\* The last step of rpmalloc_finalize.
LEMMA FinalizeUnmaps ==
  ASSUME Closing, AllRemaining, NEW t \in Thread, NEW L, NEW T, Before(t, L, T), FinalizeEnds(t)
  PROVE  mapped' = {}
<1>1. /\ Phases /\ Calls /\ Placed(T) /\ T = live \cup Waiting(L) /\ Deferral(L)
  BY BeforeFacts DEF Before, Placement
<1>2. why[t] = "close" /\ at[t] = "closing" /\ ~HeapsLeft
      /\ mapped' = mapped \ UNION {SpansIn(global[n]) : n \in SpanUnits}
  BY <1>1 DEF FinalizeEnds, SpanUnits, Phases, CloseLabel
<1>3. live = {} /\ \A u \in Thread : at[u] \notin {"defer", "drain"}
  BY <1>2, ClosesFacts DEF OthersIdle
<1>4. Waiting(L) = {} /\ \A h \in Heap, n \in SpanUnits : span_cache[h][n] = <<>>
  BY <1>1, <1>2, <1>3, NothingWaits DEF Calls
<1>5. UsedBy(T) = {}
  BY <1>1, <1>3, <1>4 DEF UsedBy
<1>6. mapped = AllListed(span_cache, global)
  BY <1>1, <1>5 DEF Placed, Spare
<1>7. \A n \in SpanUnits : Listed(span_cache, global, n) = SpansIn(global[n])
  <2> SUFFICES ASSUME NEW n \in SpanUnits PROVE Listed(span_cache, global, n) = SpansIn(global[n])
    OBVIOUS
  <2>1. \A h \in Heap : Range(span_cache[h][n]) = {}
    BY <1>4, EmptyFacts
  <2> QED BY <2>1 DEF Listed
<1> QED BY <1>2, <1>6, <1>7 DEF AllListed

\* Finalization ends with FinalizeEnds alone.
LEMMA ClosedBy ==
  ASSUME PlacesInv, Next, NEW u \in Thread, at[u] = "closing", at'[u] = "closed"
  PROVE  Closing /\ FinalizeEnds(u)
<1>1. PICK t \in Thread : LifeStep(t) \/ Call(t) \/ Continue(t)
  BY DEF Next
<1>2. HeapsInv /\ Phases /\ Calls /\ why[u] = "close"
  BY DEF PlacesInv, HeapsInv, Phases, CloseLabel
<1>3. PICK L, T : Placement(L, T)
  BY DEF PlacesInv
<1>4. Alone(t) /\ Closing
  BY <1>1, <1>2, StepsAlone DEF Closing
<1>5. t = u
  BY <1>2, <1>4 DEF Alone
<1>6. Before(t, L, T)
  BY <1>2, <1>3, <1>4 DEF Before
<1>7. FinalizeEnds(t) \/ NextToClose(t)
  BY <1>1, <1>4, <1>5, <1>6, ClosingOnly DEF TakeDeferred, TakeFails, Drain, UnmapHeap
<1>8. ~NextToClose(t)
  <2> SUFFICES ASSUME NextToClose(t) PROVE FALSE
    OBVIOUS
  <2>1. at' = [at EXCEPT ![t] = IF defer[ToClose] = Null THEN Caller("close") ELSE "take"]
    BY DEF NextToClose, LoadDeferred, Goto, Life!Goto
  <2>2. Caller("close") = "unmap"
    BY DEF Caller
  <2> QED BY <1>2, <1>5, <2>1, <2>2 DEF Phases
<1> QED BY <1>4, <1>5, <1>7, <1>8

\* Every step keeps what finalization relies on.
LEMMA CloseStep ==
  ASSUME PlacesInv, CloseInv, Next
  PROVE  CloseInv'
<1>1. PICK t \in Thread : LifeStep(t) \/ Call(t) \/ Continue(t)
  BY DEF Next
<1>2. HeapsInv /\ Phases /\ Calls
  BY DEF PlacesInv, HeapsInv
<1>3. PICK L, T : Placement(L, T)
  BY DEF PlacesInv
<1>4. Before(t, L, T)
  BY <1>1, <1>2, <1>3, StepsAlone DEF Before
<1>5. CASE Closing
  BY <1>1, <1>2, <1>4, <1>5, ClosingStep DEF CloseInv
<1>6. CASE ~Closing /\ Finalize(t)
  BY <1>2, <1>6, FinalizeStep DEF CloseInv
<1>7. CASE ~Closing /\ ~Finalize(t)
  BY <1>1, <1>2, <1>4, <1>7, OpenStep DEF CloseInv
<1> QED BY <1>5, <1>6, <1>7

\* No heap is linked, and none has anything, when rpmalloc is initialized.
LEMMA CloseStart == Init => CloseInv
<1> SUFFICES ASSUME Init PROVE CloseInv
  OBVIOUS
<1>1. /\ why = [t \in Thread |-> "none"] /\ defer = [h \in Heap |-> Null]
      /\ span_cache = [h \in Heap |-> [n \in SpanUnits |-> <<>>]]
  BY DEF Init, SpanUnits
<1>2. ~Closing /\ \A t \in Thread : Settled(t)
  BY <1>1 DEF Closing, Settled
<1>3. UnlinkedEmpty
  BY <1>1 DEF UnlinkedEmpty, Emptied
<1> QED BY <1>2, <1>3 DEF CloseInv

\* The invariant is about the state alone.
LEMMA CloseStutter == CloseInv /\ UNCHANGED vars => CloseInv'
<1> SUFFICES ASSUME CloseInv, UNCHANGED vars PROVE CloseInv'
  OBVIOUS
<1>1. UNCHANGED <<heap_id, heaps, next_heap, heap, at, span_cache, defer, why, p>>
  BY DEF vars, lifeVars, spanVars, callVars
<1>2. Closing' <=> Closing
  BY <1>1 DEF Closing
<1>3. \A h \in Heap : Emptied(h) => Emptied(h)'
  BY <1>1 DEF Emptied, SpanUnits
<1>4. Linked' = Linked
  BY <1>1 DEF Linked, Links
<1>5. UnlinkedEmpty => UnlinkedEmpty'
  BY <1>3, <1>4, SameSets DEF UnlinkedEmpty
<1>6. ASSUME AllRemaining PROVE AllRemaining'
  <2>1. \A b \in Bucket : \A c : Remaining(b, c) =>
          \A h \in Heap : BucketOf(h) = b /\ h \notin Range(c) => Emptied(h)'
    BY <1>3 DEF Remaining
  <2> QED BY <1>1, <1>6, <2>1, RemainingKept
<1>7. ASSUME NEW t \in Thread, Settled(t) PROVE Settled(t)'
  <2>1. ToClose' = ToClose
    BY <1>1, ToCloseStays
  <2> QED BY <1>1, <1>7, <2>1 DEF Settled
<1> QED BY <1>2, <1>5, <1>6, <1>7 DEF CloseInv
-----------------------------------------------------------------------------
\* While no two threads have one heap, rpmalloc_finalize leaves no span mapped
\* when it returns, wherever spans are cached and whatever is still on a list of
\* deferred frees (rpmalloc.c:1562-1667).
THEOREM FinalizeUnmapsAllAlways == Spec /\ []Life!OneOwner => FinalizeUnmapsAll
<1>1. PlacesInv /\ Life!OneOwner /\ [Next]_vars => PlacesInv'
  BY PlacesStep, PlacesStutter
<1>2. PlacesInv /\ CloseInv /\ [Next]_vars => CloseInv'
  BY CloseStep, CloseStutter
<1>3. PlacesInv /\ CloseInv /\ [Next]_vars =>
        [\A t \in Thread : at[t] = "closing" /\ at'[t] = "closed" => mapped' = {}]_vars
  <2> SUFFICES ASSUME PlacesInv, CloseInv, Next, NEW t \in Thread, at[t] = "closing", at'[t] = "closed"
               PROVE  mapped' = {}
    OBVIOUS
  <2>1. Closing /\ FinalizeEnds(t)
    BY ClosedBy
  <2>2. PICK L, T : Placement(L, T)
    BY DEF PlacesInv
  <2>3. Phases /\ Calls
    BY DEF PlacesInv, HeapsInv
  <2>4. Before(t, L, T)
    BY <2>1, <2>2, <2>3, StepsAlone DEF Before, Continue
  <2> QED BY <2>1, <2>4, FinalizeUnmaps DEF CloseInv
<1> QED BY <1>1, <1>2, <1>3, PlacesStart, CloseStart, PTL DEF Spec, FinalizeUnmapsAll
-----------------------------------------------------------------------------
(* Who has which heap, while no thread ends *)

NoneEnds ==
  /\ orphan_heaps = NoHeap
  /\ \A t \in Thread : at[t] \notin {"next", "pop", "push", "release"} /\ why[t] # "end"
LastingInv == ~workload.ends /\ Life!OneOwner /\ (Closing \/ NoneEnds)

\* No thread comes to its end by this step.
NoNewEnd == \A u \in Thread : /\ why'[u] = "end" => why[u] = "end"
                              /\ at'[u] = "release" => at[u] = "release" \/ why[u] = "end"

\* A step of t that does not bring it there.
LEMMA NotToEnd ==
  ASSUME Phases, NEW t \in Thread, NEW l, NEW r, at' = [at EXCEPT ![t] = l], why' = [why EXCEPT ![t] = r],
         l = "release" => at[t] = "release" \/ why[t] = "end", r = "end" => why[t] = "end"
  PROVE  NoNewEnd
BY DEF Phases, NoNewEnd

\* No step changes what the program may ask for, and only rpmalloc_thread_finalize
\* ends a thread.
LEMMA ReasonsKept ==
  ASSUME Phases, NEW t \in Thread, LifeStep(t) \/ Call(t) \/ Continue(t)
  PROVE  workload' = workload /\ (workload.ends \/ NoNewEnd)
<1> USE DEF Goto, Life!Goto
<1>1. /\ why = [why EXCEPT ![t] = why[t]] /\ at = [at EXCEPT ![t] = at[t]]
      /\ why[t] \in {"none", "alloc", "collect", "end", "close"}
      /\ at[t] \in {"take", "drain"} => why[t] # "none"
  BY DEF Phases
<1>2. ASSUME NEW r \in {"alloc", "collect", "end", "close"}, Caller(r) = "release" PROVE r = "end"
  BY <1>2 DEF Caller
<1>3. ASSUME NEW l, l # "release", UNCHANGED why, at' = [at EXCEPT ![t] = l] PROVE NoNewEnd
  <2>1. PICK r : r = why[t]
    OBVIOUS
  <2> QED BY <1>1, <1>3, <2>1, NotToEnd
<1>4. ASSUME NEW h, NEW r \in {"alloc", "collect", "close"}, LoadDeferred(t, h, r)
      PROVE  workload' = workload /\ NoNewEnd
  <2>1. PICK l : l = IF defer[h] = Null THEN Caller(r) ELSE "take"
    OBVIOUS
  <2>2. workload' = workload /\ why' = [why EXCEPT ![t] = r] /\ at' = [at EXCEPT ![t] = l]
    BY <1>4, <2>1 DEF LoadDeferred
  <2>3. l # "release"
    BY <1>2, <2>1
  <2> QED BY <2>2, <2>3, NotToEnd
<1>5. ASSUME UNCHANGED <<at, why>> PROVE NoNewEnd
  BY <1>5 DEF NoNewEnd
<1>6. CASE LifeStep(t)
  <2>1. workload' = workload /\ UNCHANGED why
    BY <1>6 DEF LifeStep, callVars
  <2>2. \E l : l # "release" /\ at' = [at EXCEPT ![t] = l]
    BY <1>6 DEF LifeStep, Life!ThreadInitialize, Life!HeapStep, Life!LoadOrphan, Life!ReadNextOrphan,
                Life!PopOrphan, Life!PopFails, Life!MapHeap, Life!LinkHeap, Life!SwapBucket,
                Life!SwapBucketFails, Life!PushOrphan, Life!PushFails, Life!LinkOrphan, Life!Owns
  <2> QED BY <1>3, <2>1, <2>2
<1>7. ASSUME NEW c, Alloc(t, c) PROVE workload' = workload /\ NoNewEnd
  <2>1. CASE AllocActive(t, c) \/ AllocLargeCached(t, c) \/ AllocOversized(t, c)
    <3>1. workload' = workload /\ UNCHANGED <<at, why>>
      BY <2>1 DEF AllocActive, AllocLargeCached, AllocOversized, callVars
    <3> QED BY <1>5, <3>1
  <2>2. CASE AllocSmall(t, c) \/ AllocLarge(t, c)
    <3>1. LoadDeferred(t, thread_heap[t], "alloc")
      BY <2>2 DEF AllocSmall, AllocLarge
    <3> QED BY <1>4, <3>1
  <2> QED BY <1>7, <2>1, <2>2 DEF Alloc
<1>8. ASSUME NEW b, Free(t, b) \/ FreeDeferred(t, b) \/ FreeOversized(t, b)
      PROVE  workload' = workload /\ NoNewEnd
  <2>1. CASE Free(t, b) \/ FreeOversized(t, b)
    <3>1. workload' = workload /\ UNCHANGED <<at, why>>
      BY <2>1 DEF Free, FreeOversized, callVars
    <3> QED BY <1>5, <3>1
  <2>2. CASE FreeDeferred(t, b)
    <3>1. workload' = workload /\ UNCHANGED why /\ at' = [at EXCEPT ![t] = "defer"]
      BY <2>2 DEF FreeDeferred, LoadDefer
    <3> QED BY <1>3, <3>1
  <2> QED BY <1>8, <2>1, <2>2
<1>9. CASE Collect(t) \/ Finalize(t) \/ NextToClose(t)
  <2>1. \/ LoadDeferred(t, thread_heap[t], "collect")
        \/ LoadDeferred(t, ToClose, "close")
    BY <1>9 DEF Collect, Finalize, NextToClose
  <2> QED BY <1>4, <2>1
<1>10. CASE ThreadFinalize(t)
  BY <1>10 DEF ThreadFinalize, LoadDeferred
<1>11. CASE DeferRetries(t) \/ Release(t)
  <2>1. workload' = workload /\ UNCHANGED <<at, why>>
    BY <1>11 DEF DeferRetries, LoadDefer, Release, callVars
  <2> QED BY <1>5, <2>1
<1>12. CASE DeferSwaps(t) \/ TakeDeferred(t) \/ UnmapHeap(t) \/ FinalizeEnds(t)
  <2>1. workload' = workload /\ UNCHANGED why
    BY <1>12 DEF DeferSwaps, TakeDeferred, UnmapHeap, FinalizeEnds, callVars
  <2>2. \E l : l # "release" /\ at' = [at EXCEPT ![t] = l]
    BY <1>12 DEF DeferSwaps, TakeDeferred, UnmapHeap, FinalizeEnds
  <2> QED BY <1>3, <2>1, <2>2
<1>13. CASE TakeFails(t) \/ Drain(t)
  <2>1. /\ at[t] \in {"take", "drain"} /\ workload' = workload /\ UNCHANGED why
        /\ \E l : l \in {Caller(why[t]), "drain"} /\ at' = [at EXCEPT ![t] = l]
    BY <1>13 DEF TakeFails, Drain, DrainTo
  <2>2. PICK l : l \in {Caller(why[t]), "drain"} /\ at' = [at EXCEPT ![t] = l]
    BY <2>1
  <2>3. PICK r : r = why[t]
    OBVIOUS
  <2>4. l = "release" => r = "end"
    BY <1>1, <1>2, <2>1, <2>2, <2>3
  <2> QED BY <1>1, <2>1, <2>2, <2>3, <2>4, NotToEnd
<1>14. CASE Promote(t) \/ NewSpan(t) \/ LargeAgain(t) \/ LargeNew(t)
  <2>1. PICK l, r : /\ workload' = workload /\ l = "idle" /\ r = "none"
                    /\ why' = [why EXCEPT ![t] = r] /\ at' = [at EXCEPT ![t] = l]
    BY <1>14 DEF Promote, NewSpan, LargeAgain, LargeNew, Returns
  <2> QED BY <2>1, NotToEnd
<1>15. CASE ReleaseEnds(t)
  <2>1. PICK l, r : /\ workload' = workload /\ l = "push" /\ r = "none"
                    /\ why' = [why EXCEPT ![t] = r] /\ at' = [at EXCEPT ![t] = l]
    BY <1>15 DEF ReleaseEnds, Life!LinkOrphan
  <2> QED BY <2>1, NotToEnd
<1>16. CASE Call(t)
  BY <1>7, <1>8, <1>9, <1>10, <1>16 DEF Call
<1>17. CASE Continue(t)
  BY <1>9, <1>11, <1>12, <1>13, <1>14, <1>15, <1>17 DEF Continue
<1> QED BY <1>6, <1>16, <1>17

\* Every step keeps one owner, and the list of orphans empty.
LEMMA LastingStep ==
  ASSUME PlacesInv, LastingInv, Next
  PROVE  LastingInv'
<1>1. PICK t \in Thread : LifeStep(t) \/ Call(t) \/ Continue(t)
  BY DEF Next
<1>2. HeapsInv /\ Phases /\ Calls
  BY DEF PlacesInv, HeapsInv
<1>3. ~workload'.ends /\ NoNewEnd
  BY <1>1, <1>2, ReasonsKept DEF LastingInv
<1> SUFFICES Life!OneOwner' /\ (Closing' \/ NoneEnds')
  BY <1>3 DEF LastingInv
<1>4. CASE Closing
  <2>1. /\ ~LifeStep(t)
        /\ ~ReleaseEnds(t)
    BY <1>2, <1>4, IdleFacts DEF LifeStep, ReleaseEnds, Closing, Calls, ClosesAlone
  <2>2. CASE UnmapHeap(t) \/ FinalizeEnds(t)
    <3>1. UNCHANGED <<thread_heap, why>>
      BY <2>2 DEF UnmapHeap, FinalizeEnds, callVars
    <3> QED BY <1>4, <3>1 DEF Closing, Life!OneOwner, LastingInv
  <2>3. CASE ~UnmapHeap(t) /\ ~FinalizeEnds(t)
    <3>1. Elsewhere(t) /\ UNCHANGED lifeVars
      BY <1>1, <1>2, <2>1, <2>3, CallSteps, ContinueSteps
    <3>2. Closing' /\ thread_heap' = thread_heap
      BY <1>4, <3>1 DEF Elsewhere, lifeVars
    <3> QED BY <3>2 DEF Life!OneOwner, LastingInv
  <2> QED BY <2>2, <2>3
<1>5. CASE ~Closing
  <2>1. HeapsLinked /\ Life!OneOwner /\ NoneEnds
    BY <1>2, <1>5 DEF HeapsInv, LastingInv
  <2>2. /\ at \in [Thread -> Label] /\ thread_heap \in [Thread -> HeapOrNone] /\ NoHeap = 0
        /\ Life!NoHeap = NoHeap /\ HeapTypes /\ AllKnown /\ NewHeaps /\ heap_id \in Nat
    <3>1. NoHeap = 0 /\ Life!NoHeap = NoHeap
      BY HeapSets DEF NoHeap
    <3> QED BY <1>2, <2>1, <3>1, Parts
  <2>3. CASE LifeStep(t)
    <3> USE DEF Life!Goto, Life!sharedHeapVars, Life!Owns
    <3>1. Life!ThreadInitialize(t) \/ Life!HeapStep(t)
      BY <2>3 DEF LifeStep
    <3>2. at[t] \notin {"next", "pop", "push"} /\ orphan_heaps = NoHeap
      BY <2>1 DEF NoneEnds
    <3>3. CASE \/ Life!ThreadInitialize(t) \/ Life!MapHeap(t) \/ Life!LinkHeap(t)
               \/ Life!SwapBucketFails(t)
      <4>1. \E l \in {"map", "link", "swap"} : at' = [at EXCEPT ![t] = l]
        BY <2>2, <3>2, <3>3
           DEF Life!ThreadInitialize, Life!LoadOrphan, Life!MapHeap, Life!LinkHeap, Life!SwapBucketFails
      <4>2. UNCHANGED <<orphan_heaps, thread_heap>>
        BY <3>3 DEF Life!ThreadInitialize, Life!LoadOrphan, Life!MapHeap, Life!LinkHeap,
                    Life!SwapBucketFails
      <4>3. NoneEnds'
        BY <1>3, <2>1, <2>2, <4>1, <4>2, SameSets DEF NoneEnds, NoNewEnd
      <4> QED BY <2>1, <4>2, <4>3 DEF Life!OneOwner
    <3>4. CASE Life!SwapBucket(t)
      <4>1. /\ at[t] = "swap" /\ thread_heap' = [thread_heap EXCEPT ![t] = heap[t]]
            /\ at' = [at EXCEPT ![t] = "idle"] /\ orphan_heaps' = orphan_heaps
        BY <3>4 DEF Life!SwapBucket
      <4>2. heap[t] \in 1..heap_id /\ heap[t] \notin Linked
        BY <2>2, <4>1 DEF NewHeaps, Links, Linked
      <4>3. heap[t] # 0
        BY <2>2, <4>2
      <4>4. \A v \in Thread : thread_heap[v] # heap[t]
        BY <2>2, <4>2, <4>3, HeapSets DEF AllKnown, Known
      <4>5. NoneEnds'
        BY <1>3, <2>1, <2>2, <4>1, SameSets DEF NoneEnds, NoNewEnd
      <4>6. Life!OneOwner'
        BY <2>1, <2>2, <4>1, <4>4 DEF Life!OneOwner
      <4> QED BY <4>5, <4>6
    <3> QED BY <3>1, <3>2, <3>3, <3>4
        DEF Life!HeapStep, Life!ReadNextOrphan, Life!PopOrphan, Life!PopFails, Life!PushOrphan, Life!PushFails
  <2>4. CASE (Call(t) \/ Continue(t)) /\ ~ReleaseEnds(t)
    <3>1. ~UnmapHeap(t) /\ ~FinalizeEnds(t)
      BY <1>2, <1>5 DEF UnmapHeap, FinalizeEnds, Phases, Closing, CloseLabel
    <3>2. Elsewhere(t) /\ UNCHANGED lifeVars
      BY <1>2, <2>4, <3>1, CallSteps, ContinueSteps
    <3>3. PICK l \in Label \ HeapLabel : at' = [at EXCEPT ![t] = l]
      BY <3>2 DEF Elsewhere
    <3>4. UNCHANGED <<orphan_heaps, thread_heap>>
      BY <3>2 DEF lifeVars
    <3>5. l \notin {"next", "pop", "push"}
      BY <3>3 DEF HeapLabel
    <3>6. NoneEnds'
      BY <1>3, <2>1, <2>2, <3>3, <3>4, <3>5, SameSets DEF NoneEnds, NoNewEnd
    <3> QED BY <2>1, <3>4, <3>6 DEF Life!OneOwner
  <2>5. ~ReleaseEnds(t)
    BY <2>1 DEF ReleaseEnds, NoneEnds
  <2> QED BY <1>1, <2>3, <2>4, <2>5
<1> QED BY <1>4, <1>5

\* This invariant too is about the state alone.
LEMMA LastingStutter == LastingInv /\ UNCHANGED vars => LastingInv'
<1> SUFFICES ASSUME LastingInv, UNCHANGED vars PROVE LastingInv'
  OBVIOUS
<1>1. UNCHANGED <<orphan_heaps, thread_heap, at, why, workload>>
  BY DEF vars, lifeVars, callVars
<1> QED BY <1>1, SameSets DEF LastingInv, NoneEnds, Closing, Life!OneOwner

\* While no thread ends, no heap gets two owners, with any number of threads:
\* only a thread that ends leaves an orphan (rpmalloc.c:1686-1790).
THEOREM LastingThreadsOneOwner == Spec /\ ~workload.ends => []Life!OneOwner
<1>1. Init /\ ~workload.ends => PlacesInv /\ LastingInv
  <2>1. Init /\ ~workload.ends => LastingInv
    <3> SUFFICES ASSUME Init, ~workload.ends PROVE LastingInv
      OBVIOUS
    <3>1. /\ orphan_heaps = NoHeap /\ thread_heap = [t \in Thread |-> NoHeap]
          /\ at = [t \in Thread |-> "idle"] /\ why = [t \in Thread |-> "none"]
      BY DEF Init, Life!HeapsInit, NoHeap
    <3> QED BY <3>1 DEF LastingInv, NoneEnds, Life!OneOwner, NoHeap
  <2> QED BY <2>1, PlacesStart
<1>2. PlacesInv /\ LastingInv /\ [Next]_vars => (PlacesInv /\ LastingInv)'
  BY PlacesStep, PlacesStutter, LastingStep, LastingStutter DEF LastingInv
<1>3. LastingInv => Life!OneOwner
  BY DEF LastingInv
<1> QED BY <1>1, <1>2, <1>3, PTL DEF Spec

\* So each span has one place, each block is free or in use once, and rpmalloc
\* implements the abstract pool, while no thread ends (rpmalloc.c:693-832, 1118-1172,
\* 1187-1298); rpmalloc_finalize is called when all have ended.
THEOREM LastingThreadsSafe ==
  /\ Spec /\ ~workload.ends => []SpanPlacement
  /\ Spec /\ ~workload.ends => []BlocksIntact
  /\ Spec /\ ~workload.ends => IsBlockPool
<1>1. Spec /\ ~workload.ends => []SpanPlacement
  BY LastingThreadsOneOwner, SpanPlacementAlways, PTL
<1>2. Spec /\ ~workload.ends => []BlocksIntact
  BY LastingThreadsOneOwner, BlocksIntactAlways, PTL
<1>3. Spec /\ ~workload.ends => IsBlockPool
  BY LastingThreadsOneOwner, ImplementsBlockPool, PTL
<1> QED BY <1>1, <1>2, <1>3
=============================================================================
