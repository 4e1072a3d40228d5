------------------------- MODULE RpSpanCacheProofs -------------------------
(***************************************************************************)
(* Proofs that no interleaving of threads that allocate, end and clean up  *)
(* loses a span, hands it to two of them or breaks a chain, for any number *)
(* of threads and spans and any sublist length, and that the caches        *)
(* implement the pool of spans.                                            *)
(***************************************************************************)
EXTENDS RpSpanCache, SequenceFacts
-----------------------------------------------------------------------------
(* The inductive invariant *)

\* What a thread has, it has once.
OnceEach(t) ==
  /\ IsFiniteSet(used[t])
  /\ NoRepeat(local[t]) /\ NoRepeat(moving[t])
  /\ used[t] \cap Range(local[t]) = {}
  /\ used[t] \cap Range(moving[t]) = {}
  /\ Range(local[t]) \cap Range(moving[t]) = {}

Finalizing == {"cut", "insert", "swap", "release"}

\* The heap's own chain, which thread_finalize takes from it.
LocalHead(t) == IF pc[t] \in Finalizing THEN rest[t] ELSE span_cache[t]

LocalOK(t) ==
  /\ Chained(LocalHead(t), local[t])
  /\ LocalHead(t) # Null => list_size[LocalHead(t)] = Len(local[t])
  /\ pc[t] # "idle" => span_cache[t] = Null

\* The sublist on its way into the global cache, or out of it, and what the
\* thread has read or written about it.
MovingOK(t) ==
  /\ pc[t] \notin {"insert", "swap", "release", "publish"} => moving[t] = <<>>
  /\ pc[t] \in {"insert", "swap", "release"} =>
       moving[t] # <<>> /\ Chained(first[t], moving[t]) /\ size[t] = Len(moving[t])
  /\ pc[t] = "swap" => /\ seen[t] # Token
                       /\ list_size[first[t]] = size[t]
                       /\ prev_span[first[t]] = seen[t].span
                       /\ seen[t].count + size[t] <= MaxCount
  /\ pc[t] = "grab" => seen[t] # Empty
  /\ pc[t] = "publish" => /\ seen[t] # Token
                          /\ moving[t] # <<>> /\ Chained(seen[t].span, moving[t])
                          /\ list_size[seen[t].span] = Len(moving[t])

ThreadOK(t) == OnceEach(t) /\ LocalOK(t) /\ MovingOK(t)

\* The global cache holds each of its spans once.
CachedOnce ==
  /\ \A i, j \in 1..Len(batches) : i # j => Range(batches[i]) \cap Range(batches[j]) = {}
  /\ \A i \in 1..Len(batches) : NoRepeat(batches[i])

\* A span is in one place.
Apart ==
  /\ mapped = (UNION {Has(t) : t \in Thread}) \cup SpansIn(batches)
  /\ \A t \in Thread : Has(t) \cap SpansIn(batches) = {}
  /\ \A t, u \in Thread : t # u => Has(t) \cap Has(u) = {}

\* The thread that holds the token is about to install what is left.
TokenHeld ==
  /\ global = Token => \E t \in Thread : pc[t] = "publish"
  /\ \A t \in Thread : pc[t] = "publish" =>
       /\ global = Token
       /\ prev_span[seen[t].span] = FirstOf(1)
       /\ seen[t].count = Len(moving[t]) + CachedCount
       /\ \A u \in Thread : pc[u] = "publish" => u = t

\* rpmalloc_finalize runs alone, and knows how much of the cache is left.
CleansAlone ==
  \A t \in Thread : pc[t] = "cleanup" =>
    /\ seen[t] = Packed(FirstOf(1), CachedCount)
    /\ \A u \in Thread : /\ used[u] = {} /\ span_cache[u] = Null
                         /\ u # t => pc[u] = "idle"

IInv ==
  /\ TypeOK
  /\ \A t \in Thread : ThreadOK(t)
  /\ BatchesLinked
  /\ CachedOnce
  /\ Apart
  /\ HeadExact
  /\ TokenHeld
  /\ CleansAlone
-----------------------------------------------------------------------------
(* Chains *)

\* A chain is empty or starts with its head.
LEMMA ChainHead ==
  ASSUME NEW s \in Seq(Span), NEW h, Chained(h, s)
  PROVE  /\ s = <<>> <=> h = Null
         /\ s # <<>> => /\ h = s[1] /\ h = Head(s) /\ h \in Range(s) /\ h \in Span
                        /\ Len(s) \in Nat \ {0}
                        /\ next_span[h] = SpanAt(s, 2)
<1>1. h = SpanAt(s, 1) /\ \A i \in 1..Len(s) : next_span[s[i]] = SpanAt(s, i + 1)
  BY DEF Chained
<1>2. CASE s = <<>>
  BY <1>1, <1>2, EmptyFacts, NullAssumption DEF SpanAt
<1>3. CASE s # <<>>
  <2>1. Len(s) \in Nat \ {0} /\ 1 \in 1..Len(s) /\ s[1] \in Span /\ s[1] = Head(s)
    BY <1>3
  <2>2. s[1] \in Range(s)
    BY <2>1, RangeFacts
  <2>3. h = s[1]
    BY <1>1, <2>1 DEF SpanAt
  <2>4. next_span[s[1]] = SpanAt(s, 2)
    BY <1>1, <2>1
  <2> QED BY <1>3, <2>1, <2>2, <2>3, <2>4, NullAssumption
<1> QED BY <1>2, <1>3

\* Without its first span a chain is one from the next span on.
LEMMA ChainTail ==
  ASSUME NEW s \in Seq(Span), s # <<>>, NEW h, Chained(h, s)
  PROVE  /\ Chained(next_span[h], Tail(s))
         /\ Tail(s) \in Seq(Span) /\ Len(Tail(s)) = Len(s) - 1
<1>1. /\ h = s[1] /\ next_span[h] = SpanAt(s, 2)
      /\ \A i \in 1..Len(s) : next_span[s[i]] = SpanAt(s, i + 1)
  BY ChainHead DEF Chained
<1>2. /\ Tail(s) \in Seq(Span) /\ Len(s) \in Nat \ {0}
      /\ Len(Tail(s)) = Len(s) - 1
      /\ \A i \in 1..(Len(s) - 1) : Tail(s)[i] = s[i + 1]
  BY TailFacts
<1>3. \A i \in 1..Len(s) : SpanAt(Tail(s), i) = SpanAt(s, i + 1)
  BY <1>2 DEF SpanAt
<1>4. 1 \in 1..Len(s) /\ 1 + 1 = 2
  BY <1>2
<1>5. ASSUME NEW i \in 1..Len(Tail(s)) PROVE next_span[Tail(s)[i]] = SpanAt(Tail(s), i + 1)
  <2>1. i + 1 \in 1..Len(s) /\ i \in 1..(Len(s) - 1)
    BY <1>2
  <2> QED BY <2>1, <1>1, <1>2, <1>3
<1> QED BY <1>1, <1>2, <1>3, <1>4, <1>5 DEF Chained

\* Only the links of its own spans matter to a chain.
LEMMA ChainFrame ==
  ASSUME NEW s \in Seq(Span), NEW h, Chained(h, s),
         \A x \in Range(s) : next_span'[x] = next_span[x]
  PROVE  /\ h = SpanAt(s, 1)
         /\ \A i \in 1..Len(s) : next_span'[s[i]] = SpanAt(s, i + 1)
  BY RangeFacts DEF Chained

\* Following the links from the head of a chain leads along it.
LEMMA AlongChain ==
  ASSUME NEW s \in Seq(Span), NEW h, Chained(h, s)
  PROVE  \A k \in 0..Len(s) : Along(h, k) = SpanAt(s, k + 1)
<1>1. ASSUME NEW k \in 0..Len(s) PROVE Along(h, k) = SpanAt(s, k + 1)
  <2> DEFINE Rec(f, i) == IF i = 0 THEN h ELSE next_span[f[i - 1]]
             w == [i \in 0..k |-> SpanAt(s, i + 1)]
             f == CHOOSE q : q = [i \in 0..k |-> Rec(q, i)]
  <2>0. Len(s) \in Nat /\ k \in Nat /\ k <= Len(s)
    OBVIOUS
  <2>1. ASSUME NEW i \in 0..k PROVE w[i] = Rec(w, i)
    <3>1. CASE i = 0
      BY <3>1, <2>0 DEF Chained
    <3>2. CASE i # 0
      <4>1. i \in 1..Len(s) /\ i - 1 \in 0..k /\ (i - 1) + 1 = i
        BY <3>2, <2>0
      <4>2. w[i - 1] = s[i]
        BY <4>1 DEF SpanAt
      <4>3. next_span[s[i]] = SpanAt(s, i + 1)
        BY <4>1 DEF Chained
      <4> QED BY <3>2, <4>2, <4>3
    <3> QED BY <3>1, <3>2
  <2>2. Along(h, k) = f[k]
    BY DEF Along
  <2>3. w = [i \in 0..k |-> Rec(w, i)]
    BY <2>1
  <2>4. f = [i \in 0..k |-> Rec(f, i)]
    BY <2>3
  <2> HIDE DEF f, w
  <2>5. ASSUME NEW i \in 1..k, f[i - 1] = w[i - 1] PROVE f[i] = w[i]
    <3>1. i \in 0..k /\ i # 0
      BY <2>0
    <3>2. f[i] = Rec(f, i) /\ w[i] = Rec(w, i)
      BY <2>1, <2>4, <3>1
    <3> QED BY <3>1, <3>2, <2>5
  <2>6. f[0] = w[0]
    <3>1. 0 \in 0..k
      BY <2>0
    <3> QED BY <3>1, <2>1, <2>4
  <2>7. \A i \in 0..k : f[i] = w[i]
    <3> DEFINE T == {i \in 0..k : f[i] # w[i]}
    <3>1. SUFFICES ASSUME T # {} PROVE FALSE
      OBVIOUS
    <3>2. T \subseteq Nat
      BY <2>0
    <3>3. T \subseteq 0..k /\ \A i \in 0..k : i \in T <=> f[i] # w[i]
      OBVIOUS
    <3> HIDE DEF T
    <3>4. PICK i \in T : \A j \in T : i <= j
      BY <3>1, <3>2, LeastElement
    <3>5. i \in 1..k /\ i - 1 \in 0..k /\ ~(i <= i - 1)
      BY <3>3, <2>0, <2>6
    <3>6. i - 1 \notin T
      BY <3>4, <3>5
    <3> QED BY <3>3, <3>5, <3>6, <2>5
  <2>8. k \in 0..k
    BY <2>0
  <2>9. w[k] = SpanAt(s, k + 1)
    BY <2>8 DEF w
  <2> QED BY <2>2, <2>7, <2>8, <2>9
<1> QED BY <1>1
-----------------------------------------------------------------------------
(* What a step of one thread leaves as it is *)

\* The step writes to no headers but those of W and to no variables of another
\* thread.
Writes(t, W) ==
  /\ \A x \in Span \ W : /\ next_span'[x] = next_span[x]
                         /\ prev_span'[x] = prev_span[x]
                         /\ list_size'[x] = list_size[x]
  /\ \A u \in Thread : u # t =>
       /\ span_cache'[u] = span_cache[u] /\ used'[u] = used[u] /\ pc'[u] = pc[u]
       /\ seen'[u] = seen[u] /\ first'[u] = first[u] /\ size'[u] = size[u]
       /\ rest'[u] = rest[u] /\ local'[u] = local[u] /\ moving'[u] = moving[u]

StepOf(t, W) == Writes(t, W) /\ \A u \in Thread : u # t => W \cap Has(u) = {}

\* The types, by name.
LEMMA Types ==
  ASSUME IInv
  PROVE  /\ next_span \in [Span -> SpanOrNull]
         /\ prev_span \in [Span -> SpanOrNull]
         /\ list_size \in [Span -> Nat]
         /\ span_cache \in [Thread -> SpanOrNull]
         /\ used \in [Thread -> SUBSET Span]
         /\ seen \in [Thread -> CacheHead \cup {Token}]
         /\ first \in [Thread -> SpanOrNull]
         /\ size \in [Thread -> Nat]
         /\ rest \in [Thread -> SpanOrNull]
         /\ local \in [Thread -> Seq(Span)]
         /\ moving \in [Thread -> Seq(Span)]
         /\ batches \in Seq(Seq(Span))
         /\ TypeOK
         /\ Null \notin Span
  BY NullAssumption DEF IInv, TypeOK

\* The other threads' chains stay as they are.
LEMMA OthersKept ==
  ASSUME IInv, NEW t \in Thread, NEW W, StepOf(t, W), NEW u \in Thread, u # t
  PROVE  ThreadOK(u)' /\ Has(u)' = Has(u)
<1>1. /\ local[u] \in Seq(Span) /\ moving[u] \in Seq(Span) /\ ThreadOK(u)
      /\ Range(local[u]) \subseteq Has(u) /\ Range(moving[u]) \subseteq Has(u)
  BY Types DEF IInv, Has
<1>2. /\ span_cache'[u] = span_cache[u] /\ used'[u] = used[u] /\ pc'[u] = pc[u]
      /\ seen'[u] = seen[u] /\ first'[u] = first[u] /\ size'[u] = size[u]
      /\ rest'[u] = rest[u] /\ local'[u] = local[u] /\ moving'[u] = moving[u]
  BY DEF StepOf, Writes
<1>3. /\ Range(local[u]) \subseteq Span /\ Range(moving[u]) \subseteq Span
      /\ \A x \in Range(local[u]) \cup Range(moving[u]) :
           /\ next_span'[x] = next_span[x] /\ prev_span'[x] = prev_span[x]
           /\ list_size'[x] = list_size[x]
  <2>1. Range(local[u]) \subseteq Span /\ Range(moving[u]) \subseteq Span
    BY <1>1, RangeFacts
  <2> QED BY <2>1, <1>1 DEF StepOf, Writes
<1>4. Has(u)' = Has(u)
  BY <1>2 DEF Has
<1>5. OnceEach(u)'
  BY <1>1, <1>2 DEF ThreadOK, OnceEach
<1>6. LocalOK(u)'
  <2>1. LocalHead(u)' = LocalHead(u)
    BY <1>2 DEF LocalHead
  <2>2. Chained(LocalHead(u), local[u])
    BY <1>1 DEF ThreadOK, LocalOK
  <2>3. LocalHead(u) # Null => LocalHead(u) \in Range(local[u])
    BY <1>1, <2>2, ChainHead
  <2>4. Chained(LocalHead(u), local[u])'
    <3>1. /\ LocalHead(u) = SpanAt(local[u], 1)
          /\ \A i \in 1..Len(local[u]) : next_span'[local[u][i]] = SpanAt(local[u], i + 1)
      BY <1>1, <1>3, <2>2, ChainFrame
    <3> QED BY <3>1, <2>1, <1>2 DEF Chained, SpanAt
  <2> QED BY <2>1, <2>3, <2>4, <1>1, <1>2, <1>3 DEF ThreadOK, LocalOK
<1>7. MovingOK(u)'
  <2>1. ASSUME NEW h, Chained(h, moving[u])
        PROVE  /\ h = SpanAt(moving[u], 1)
               /\ \A i \in 1..Len(moving[u]) :
                    next_span'[moving[u][i]] = SpanAt(moving[u], i + 1)
               /\ moving[u] # <<>> => /\ list_size'[h] = list_size[h]
                                      /\ prev_span'[h] = prev_span[h]
    BY <1>1, <1>3, <2>1, ChainFrame, ChainHead
  <2>2. ASSUME Chained(first[u], moving[u]) PROVE Chained(first[u], moving[u])'
    BY <2>1, <2>2, <1>2 DEF Chained, SpanAt
  <2>3. ASSUME Chained(seen[u].span, moving[u]) PROVE Chained(seen[u].span, moving[u])'
    BY <2>1, <2>3, <1>2 DEF Chained, SpanAt
  <2>4. MovingOK(u)
    BY <1>1 DEF ThreadOK
  <2> QED BY <2>1, <2>2, <2>3, <2>4, <1>2 DEF MovingOK
<1> QED BY <1>4, <1>5, <1>6, <1>7 DEF ThreadOK

\* The sublists of the global cache, one by one.
LEMMA BatchFacts ==
  ASSUME IInv, NEW i \in 1..Len(batches)
  PROVE  /\ batches[i] \in Seq(Span) /\ batches[i] # <<>>
         /\ Chained(batches[i][1], batches[i])
         /\ batches[i][1] \in Range(batches[i]) /\ batches[i][1] \in Span
         /\ Range(batches[i]) \subseteq SpansIn(batches)
         /\ Range(batches[i]) \subseteq Span
         /\ list_size[batches[i][1]] = Len(batches[i])
         /\ prev_span[batches[i][1]] = FirstOf(i + 1)
         /\ NoRepeat(batches[i])
<1>1. batches[i] \in Seq(Span)
  BY Types
<1>2. /\ batches[i] # <<>>
      /\ Chained(batches[i][1], batches[i])
      /\ list_size[batches[i][1]] = Len(batches[i])
      /\ prev_span[batches[i][1]] = FirstOf(i + 1)
      /\ NoRepeat(batches[i])
  BY DEF IInv, BatchesLinked, CachedOnce
<1>3. Range(batches[i]) \subseteq SpansIn(batches)
  BY DEF SpansIn
<1> QED BY <1>1, <1>2, <1>3, ChainHead, RangeFacts

\* A step that keeps to its own headers and leaves the global cache alone
\* leaves its sublists and their number as they are.
LEMMA BatchesKept ==
  ASSUME IInv, NEW t \in Thread, NEW W, StepOf(t, W),
         W \cap SpansIn(batches) = {}, batches' = batches
  PROVE  /\ BatchesLinked' /\ CachedOnce'
         /\ FirstOf(1)' = FirstOf(1) /\ CachedCount' = CachedCount
         /\ SpansIn(batches)' = SpansIn(batches)
<1>1. ASSUME NEW i \in 1..Len(batches)
      PROVE  /\ batches[i] # <<>>
             /\ \A j \in 1..Len(batches[i]) :
                  next_span'[batches[i][j]] = SpanAt(batches[i], j + 1)
             /\ batches[i][1] = SpanAt(batches[i], 1)
             /\ list_size'[batches[i][1]] = Len(batches[i])
             /\ prev_span'[batches[i][1]] = FirstOf(i + 1)
  <2>1. \A x \in Range(batches[i]) : x \in Span \ W
    BY BatchFacts
  <2>2. \A x \in Range(batches[i]) : /\ next_span'[x] = next_span[x]
                                     /\ prev_span'[x] = prev_span[x]
                                     /\ list_size'[x] = list_size[x]
    BY <2>1 DEF StepOf, Writes
  <2> QED BY <2>2, BatchFacts, ChainFrame
<1>2. FirstOf(1)' = FirstOf(1) /\ CachedCount' = CachedCount
      /\ SpansIn(batches)' = SpansIn(batches)
  BY DEF FirstOf, CachedCount, SpansIn
<1>3. BatchesLinked'
  BY <1>1 DEF BatchesLinked, Chained, SpanAt, FirstOf
<1>4. CachedOnce'
  BY DEF CachedOnce, IInv
<1> QED BY <1>2, <1>3, <1>4

\* A step that only moves spans between one thread, the global cache and the
\* system keeps every span in one place.
LEMMA ApartStep ==
  ASSUME Apart, NEW t \in Thread,
         \A u \in Thread : u # t => Has(u)' = Has(u),
         Has(t)' \cap SpansIn(batches)' = {},
         \A u \in Thread : u # t => Has(t)' \cap Has(u) = {} /\ SpansIn(batches)' \cap Has(u) = {},
         mapped' = ((mapped \ Has(t)) \ SpansIn(batches)) \cup Has(t)' \cup SpansIn(batches)'
  PROVE  Apart'
<1> DEFINE all == UNION {Has(u) : u \in Thread}
           others == UNION {Has(u) : u \in Thread \ {t}}
           new == UNION {Has(u)' : u \in Thread}
<1>1. /\ \A x : x \in all <=> \E u \in Thread : x \in Has(u)
      /\ \A x : x \in others <=> \E u \in Thread \ {t} : x \in Has(u)
      /\ \A x : x \in new <=> \E u \in Thread : x \in Has(u)'
  OBVIOUS
<1>2. /\ mapped = all \cup SpansIn(batches)
      /\ \A u \in Thread : Has(u) \cap SpansIn(batches) = {}
      /\ \A u, v \in Thread : u # v => Has(u) \cap Has(v) = {}
  BY DEF Apart
<1> HIDE DEF all, others, new
<1>3. \A x : x \in others <=> x \in all /\ x \notin Has(t)
  BY <1>1, <1>2
<1>4. new = Has(t)' \cup others
  BY <1>1
<1>5. others = (mapped \ Has(t)) \ SpansIn(batches)
  <2>1. others \cap SpansIn(batches) = {}
    BY <1>1, <1>2
  <2> QED BY <1>2, <1>3, <2>1
<1>6. mapped' = new \cup SpansIn(batches)'
  BY <1>4, <1>5
<1>7. /\ \A u \in Thread : Has(u)' \cap SpansIn(batches)' = {}
      /\ \A u, v \in Thread : u # v => Has(u)' \cap Has(v)' = {}
  BY <1>2
<1> QED BY <1>6, <1>7 DEF Apart, new

\* A step outside rpmalloc_finalize that leaves the global cache alone, keeps
\* to the spans of its thread and keeps the thread's own chains in order.
LEMMA PrivateStep ==
  ASSUME IInv, NEW t \in Thread, NEW W, StepOf(t, W), W \cap SpansIn(batches) = {},
         batches' = batches, global' = global,
         TypeOK', ThreadOK(t)',
         Has(t)' \cap SpansIn(batches) = {},
         \A u \in Thread : u # t => Has(t)' \cap Has(u) = {},
         mapped' = (mapped \ Has(t)) \cup Has(t)',
         ~CleaningUp, pc'[t] \notin {"publish", "cleanup"}, pc[t] # "publish"
  PROVE  IInv'
<1>1. \A u \in Thread : u # t => ThreadOK(u)' /\ Has(u)' = Has(u) /\ pc'[u] = pc[u]
  <2>1. \A u \in Thread : u # t => ThreadOK(u)' /\ Has(u)' = Has(u)
    BY OthersKept
  <2>2. \A u \in Thread : u # t => pc'[u] = pc[u]
    BY DEF StepOf, Writes
  <2> QED BY <2>1, <2>2
<1>2. /\ BatchesLinked' /\ CachedOnce'
      /\ FirstOf(1)' = FirstOf(1) /\ CachedCount' = CachedCount
      /\ SpansIn(batches)' = SpansIn(batches)
  BY BatchesKept
<1>3. \A u \in Thread : ThreadOK(u)'
  BY <1>1
<1>4. Apart'
  <2>1. Apart
    BY DEF IInv
  <2>2. mapped' = ((mapped \ Has(t)) \ SpansIn(batches)) \cup Has(t)' \cup SpansIn(batches)'
    BY <1>2, <2>1 DEF Apart
  <2>3. /\ Has(t)' \cap SpansIn(batches)' = {}
        /\ \A u \in Thread : u # t =>
             Has(t)' \cap Has(u) = {} /\ SpansIn(batches)' \cap Has(u) = {}
    BY <1>2, <2>1 DEF Apart
  <2>4. \A u \in Thread : u # t => Has(u)' = Has(u)
    BY <1>1
  <2> QED BY <2>1, <2>2, <2>3, <2>4, ApartStep
<1>5. ~CleaningUp'
  BY <1>1 DEF CleaningUp
<1>6. HeadExact'
  BY <1>2 DEF HeadExact, IInv, Packed
<1>7. TokenHeld'
  <2>1. TokenHeld
    BY DEF IInv
  <2>2. ASSUME NEW u \in Thread, pc'[u] = "publish"
        PROVE  /\ u # t /\ pc[u] = "publish"
               /\ prev_span'[seen'[u].span] = FirstOf(1)
               /\ seen'[u].count = Len(moving'[u]) + CachedCount
    <3>1. u # t /\ pc[u] = "publish" /\ seen'[u] = seen[u] /\ moving'[u] = moving[u]
      BY <2>2, <1>1 DEF StepOf, Writes
    <3>2. moving[u] \in Seq(Span) /\ ThreadOK(u)
      BY Types DEF IInv
    <3>3. moving[u] # <<>> /\ Chained(seen[u].span, moving[u])
      BY <3>1, <3>2 DEF ThreadOK, MovingOK
    <3>4. seen[u].span \in Has(u) /\ seen[u].span \in Span
      BY <3>2, <3>3, ChainHead DEF Has
    <3>5. prev_span'[seen[u].span] = prev_span[seen[u].span]
      BY <3>1, <3>4 DEF StepOf, Writes
    <3> QED BY <3>1, <3>5, <2>1 DEF TokenHeld
  <2>3. \A u \in Thread : pc[u] = "publish" => pc'[u] = "publish"
    BY <1>1
  <2> QED BY <1>2, <2>1, <2>2, <2>3 DEF TokenHeld
<1>8. CleansAlone'
  BY <1>5 DEF CleansAlone, CleaningUp
<1> QED BY <1>2, <1>3, <1>4, <1>6, <1>7, <1>8 DEF IInv

\* A thread's own spans are nowhere else.
LEMMA OwnSpans ==
  ASSUME IInv, NEW t \in Thread, NEW W, W \subseteq Has(t), Writes(t, W)
  PROVE  StepOf(t, W) /\ W \cap SpansIn(batches) = {}
  BY DEF StepOf, IInv, Apart

\* While one thread cleans up the others are idle.
LEMMA NobodyCleans ==
  ASSUME IInv, NEW t \in Thread, pc[t] \notin {"idle", "cleanup"}
  PROVE  ~CleaningUp
  BY DEF IInv, CleansAlone, CleaningUp

\* A step that rearranges the spans a thread has.
LEMMA OwnStep ==
  ASSUME IInv, NEW t \in Thread, NEW W, W \subseteq Has(t), Writes(t, W),
         UNCHANGED <<global, mapped, batches>>,
         TypeOK', ThreadOK(t)', Has(t)' = Has(t),
         ~CleaningUp, pc'[t] \notin {"publish", "cleanup"}, pc[t] # "publish"
  PROVE  IInv'
<1>1. StepOf(t, W) /\ W \cap SpansIn(batches) = {}
  BY OwnSpans
<1>2. /\ Has(t) \cap SpansIn(batches) = {}
      /\ \A u \in Thread : u # t => Has(t) \cap Has(u) = {}
      /\ Has(t) \subseteq mapped
  BY DEF IInv, Apart
<1>3. mapped' = (mapped \ Has(t)) \cup Has(t)'
  BY <1>2
<1> QED BY <1>1, <1>2, <1>3, PrivateStep

\* A step that changes no header and moves no span.
LEMMA ControlStep ==
  ASSUME IInv, NEW t \in Thread, Writes(t, {}),
         UNCHANGED <<headers, global, mapped, used, histories>>,
         TypeOK', MovingOK(t)',
         LocalHead(t)' = LocalHead(t),
         pc'[t] # "idle" => span_cache'[t] = Null,
         ~CleaningUp, pc'[t] \notin {"publish", "cleanup"}, pc[t] # "publish"
  PROVE  IInv'
<1>1. ThreadOK(t)
  BY DEF IInv
<1>2. OnceEach(t)' /\ Has(t)' = Has(t)
  BY <1>1 DEF ThreadOK, OnceEach, Has, histories
<1>3. LocalOK(t)'
  BY <1>1 DEF ThreadOK, LocalOK, Chained, SpanAt, headers, histories
<1>4. ThreadOK(t)' /\ UNCHANGED <<global, mapped, batches>>
  BY <1>2, <1>3 DEF ThreadOK, histories
<1> QED BY <1>2, <1>4, OwnStep

\* Loading the head, yielding, giving up, trying again, and the two ends of
\* thread_finalize.
LEMMA ControlSteps ==
  ASSUME IInv, NEW t \in Thread,
         \/ Extract(t) \/ ExtractYields(t) \/ ExtractReloads(t)
         \/ Finalize(t) \/ FinalizeEnds(t)
         \/ InsertGivesUp(t) \/ InsertRetries(t)
  PROVE  IInv'
<1>1. ThreadOK(t)
  BY DEF IInv
<1>2. UNCHANGED <<headers, global, mapped, used, histories>>
  BY DEF Extract, ExtractLoads, ExtractYields, ExtractReloads, Finalize, FinalizeEnds,
         InsertGivesUp, InsertRetries
<1>3. Writes(t, {})
  BY Types DEF Extract, ExtractLoads, ExtractYields, ExtractReloads, Finalize,
         FinalizeEnds, InsertGivesUp, InsertRetries, Goto, Writes, headers, histories, TypeOK
<1>4. TypeOK'
  <2>1. TypeOK
    BY Types
  <2>2. CASE Extract(t) \/ ExtractReloads(t)
    BY <2>1, <2>2, ZenonT(40) DEF TypeOK, Extract, ExtractReloads, ExtractLoads, Goto, headers, histories
  <2>3. CASE ExtractYields(t) \/ InsertRetries(t)
    <3>1. Empty \in CacheHead
      BY BoundAssumption DEF Empty, CacheHead, SpanOrNull
    <3> QED BY <2>1, <2>3, <3>1, ZenonT(40) DEF TypeOK, ExtractYields, InsertRetries, Goto, headers, histories
  <2>4. CASE Finalize(t)
    <3>1. Null \in SpanOrNull
      BY DEF SpanOrNull
    <3> QED BY <2>1, <2>4, <3>1 DEF TypeOK, Finalize, Goto, headers, histories
  <2>5. CASE FinalizeEnds(t) \/ InsertGivesUp(t)
    BY <2>1, <2>5 DEF TypeOK, FinalizeEnds, InsertGivesUp, Goto, headers, histories
  <2> QED BY <2>2, <2>3, <2>4, <2>5
<1>5. ~CleaningUp /\ pc[t] # "publish" /\ pc'[t] \notin {"publish", "cleanup"}
  BY Types, NobodyCleans DEF Extract, ExtractLoads, ExtractYields, ExtractReloads, Finalize,
         FinalizeEnds, InsertGivesUp, InsertRetries, Goto, Idle, TypeOK
<1>6. /\ LocalHead(t)' = LocalHead(t)
      /\ pc'[t] # "idle" => span_cache'[t] = Null
  BY <1>1, Types DEF ThreadOK, LocalOK, LocalHead, Finalizing, Extract, ExtractLoads,
         ExtractYields, ExtractReloads, Finalize, FinalizeEnds, InsertGivesUp,
         InsertRetries, Goto, Idle, TypeOK
<1>7. MovingOK(t)'
  <2>1. moving' = moving /\ next_span' = next_span
    BY <1>2 DEF headers, histories
  <2>2. CASE pc'[t] \in {"insert", "release"}
    <3>1. /\ first' = first /\ size' = size /\ pc[t] \in {"insert", "swap"}
      BY <2>2, Types DEF Extract, ExtractLoads, ExtractYields, ExtractReloads,
         Finalize, FinalizeEnds, InsertGivesUp, InsertRetries, Goto, TypeOK
    <3> QED BY <2>1, <2>2, <3>1, <1>1 DEF ThreadOK, MovingOK, Chained, SpanAt
  <2>3. CASE pc'[t] \in {"idle", "map", "grab", "reload", "cut"}
    BY <2>1, <2>3, <1>1, Types DEF ThreadOK, MovingOK, Extract, ExtractLoads, ExtractYields,
         ExtractReloads, Finalize, FinalizeEnds, InsertGivesUp, InsertRetries, Goto, Idle, TypeOK
  <2>4. pc'[t] \in {"insert", "release", "idle", "map", "grab", "reload", "cut"}
    BY Types DEF Extract, ExtractLoads, ExtractYields,
         ExtractReloads, Finalize, FinalizeEnds, InsertGivesUp, InsertRetries, Goto, TypeOK
  <2> QED BY <2>2, <2>3, <2>4
<1> QED BY <1>2, <1>3, <1>4, <1>5, <1>6, <1>7, ControlStep

\* What taking the first span off a chain of the thread does: the rest is a
\* chain with its own length, and becomes the heap's.
LEMMA TakeHeadFacts ==
  ASSUME IInv, NEW t \in Thread, NEW s, NEW chain \in Seq(Span), chain # <<>>,
         Chained(s, chain), NoRepeat(chain), list_size[s] = Len(chain),
         TakeHead(t, s, chain)
  PROVE  /\ s \in Range(chain) /\ s \in Span
         /\ Tail(chain) \in Seq(Span) /\ NoRepeat(Tail(chain))
         /\ Range(Tail(chain)) = Range(chain) \ {s}
         /\ local'[t] = Tail(chain) /\ used'[t] = used[t] \cup {s}
         /\ span_cache'[t] = SpanAt(Tail(chain), 1)
         /\ \A i \in 1..Len(Tail(chain)) :
              next_span'[Tail(chain)[i]] = SpanAt(Tail(chain), i + 1)
         /\ span_cache'[t] # Null => list_size'[span_cache'[t]] = Len(Tail(chain))
         /\ \A x \in Span \ Range(chain) : /\ next_span'[x] = next_span[x]
                                           /\ prev_span'[x] = prev_span[x]
                                           /\ list_size'[x] = list_size[x]
         /\ \A u \in Thread : u # t =>
              span_cache'[u] = span_cache[u] /\ used'[u] = used[u] /\ local'[u] = local[u]
         /\ next_span' \in [Span -> SpanOrNull]
         /\ prev_span' \in [Span -> SpanOrNull]
         /\ list_size' \in [Span -> Nat]
         /\ span_cache' \in [Thread -> SpanOrNull]
         /\ used' \in [Thread -> SUBSET Span]
         /\ local' \in [Thread -> Seq(Span)]
<1> DEFINE n == next_span[s]
           rem == Tail(chain)
<1>1. /\ s = chain[1] /\ s = Head(chain) /\ s \in Range(chain) /\ s \in Span
      /\ n = SpanAt(chain, 2) /\ Len(chain) \in Nat \ {0}
  BY ChainHead
<1>2. Chained(n, rem) /\ rem \in Seq(Span) /\ Len(rem) = Len(chain) - 1
  BY ChainTail
<1>3. Range(rem) = Range(chain) \ {s} /\ NoRepeat(rem)
  BY <1>1, TailRange
<1>4. /\ next_span' = [next_span EXCEPT ![s] = Null]
      /\ prev_span' = [prev_span EXCEPT ![s] = Null]
      /\ local' = [local EXCEPT ![t] = rem]
      /\ used' = [used EXCEPT ![t] = @ \cup {s}]
  BY DEF TakeHead, UsedHeader
<1>5. n = SpanAt(rem, 1) /\ (n # Null <=> Len(chain) > 1) /\ (n # Null => n \in Range(rem))
  <2> HIDE DEF n, rem
  <2>1. n = SpanAt(rem, 1)
    BY <1>2 DEF Chained
  <2>2. rem = <<>> <=> Len(rem) = 0
    BY <1>2
  <2>3. (rem = <<>> <=> n = Null) /\ (rem # <<>> => n \in Range(rem))
    BY <1>2, ChainHead
  <2> QED BY <1>1, <1>2, <2>1, <2>2, <2>3
<1>6. Range(rem) \subseteq Span
  BY <1>2, RangeFacts
<1>7. /\ span_cache' = [span_cache EXCEPT ![t] = n]
      /\ n # Null => list_size' = [list_size EXCEPT ![n] = list_size[s] - 1, ![s] = 0]
      /\ n = Null => list_size' = [list_size EXCEPT ![s] = 0]
  BY <1>1, <1>5 DEF TakeHead
<1> HIDE DEF n, rem
<1>8. list_size[s] - 1 \in Nat
  BY <1>1
<1>9. /\ next_span' \in [Span -> SpanOrNull]
      /\ prev_span' \in [Span -> SpanOrNull]
      /\ span_cache' \in [Thread -> SpanOrNull]
      /\ used' \in [Thread -> SUBSET Span]
      /\ local' \in [Thread -> Seq(Span)]
  BY <1>1, <1>2, <1>4, <1>5, <1>6, <1>7, Types, SMTT(30) DEF SpanOrNull
<1>10. list_size' \in [Span -> Nat]
  <2>1. CASE n = Null
    <3>1. list_size' = [list_size EXCEPT ![s] = 0]
      BY <1>7, <2>1
    <3>2. list_size \in [Span -> Nat] /\ 0 \in Nat
      BY Types
    <3> QED BY <3>1, <3>2
  <2>2. CASE n # Null
    <3> DEFINE one == [list_size EXCEPT ![n] = list_size[s] - 1]
    <3>1. one \in [Span -> Nat]
      BY <1>5, <1>6, <1>8, <2>2, Types
    <3>2. list_size' = [one EXCEPT ![s] = 0]
      BY <1>7, <2>2
    <3> HIDE DEF one
    <3> QED BY <1>1, <3>1, <3>2
  <2> QED BY <2>1, <2>2
<1>11. \A x \in Span \ Range(chain) : /\ next_span'[x] = next_span[x]
                                      /\ prev_span'[x] = prev_span[x]
                                      /\ list_size'[x] = list_size[x]
  BY <1>1, <1>3, <1>4, <1>5, <1>7, Types
<1>12. span_cache'[t] = n /\ (n # Null => list_size'[n] = Len(rem))
  BY <1>1, <1>2, <1>3, <1>5, <1>6, <1>7, Types
<1>13. \A i \in 1..Len(rem) : next_span'[rem[i]] = SpanAt(rem, i + 1)
  <2>1. \A x \in Range(rem) : next_span'[x] = next_span[x]
    BY <1>1, <1>3, <1>4, <1>6, Types
  <2> QED BY <1>2, <2>1, ChainFrame
<1>14. /\ local'[t] = rem /\ used'[t] = used[t] \cup {s}
       /\ \A u \in Thread : u # t =>
            span_cache'[u] = span_cache[u] /\ used'[u] = used[u] /\ local'[u] = local[u]
  BY <1>4, <1>7, Types
<1> QED BY <1>1, <1>2, <1>3, <1>5, <1>9, <1>10, <1>11, <1>12, <1>13, <1>14 DEF rem

\* A heap takes the first span of its chain.
LEMMA TakeCachedStep ==
  ASSUME IInv, NEW t \in Thread, TakeCached(t)
  PROVE  IInv'
<1> DEFINE s == span_cache[t]
           chain == local[t]
<1>1. /\ ThreadOK(t) /\ pc[t] = "idle" /\ ~CleaningUp /\ s # Null
      /\ TakeHead(t, s, chain)
      /\ UNCHANGED <<global, mapped, locals, moving, batches>>
  BY DEF IInv, TakeCached, Idle
<1>2. chain \in Seq(Span) /\ Chained(s, chain) /\ list_size[s] = Len(chain)
  BY <1>1, Types DEF ThreadOK, LocalOK, LocalHead, Finalizing
<1>3. chain # <<>> /\ NoRepeat(chain) /\ moving[t] = <<>>
  BY <1>1, <1>2, ChainHead DEF ThreadOK, OnceEach, MovingOK
<1> HIDE DEF s, chain
<1>4. /\ s \in Range(chain) /\ s \in Span
      /\ Tail(chain) \in Seq(Span) /\ NoRepeat(Tail(chain))
      /\ Range(Tail(chain)) = Range(chain) \ {s}
      /\ local'[t] = Tail(chain) /\ used'[t] = used[t] \cup {s}
      /\ span_cache'[t] = SpanAt(Tail(chain), 1)
      /\ \A i \in 1..Len(Tail(chain)) :
           next_span'[Tail(chain)[i]] = SpanAt(Tail(chain), i + 1)
      /\ span_cache'[t] # Null => list_size'[span_cache'[t]] = Len(Tail(chain))
      /\ \A x \in Span \ Range(chain) : /\ next_span'[x] = next_span[x]
                                        /\ prev_span'[x] = prev_span[x]
                                        /\ list_size'[x] = list_size[x]
      /\ \A u \in Thread : u # t =>
           span_cache'[u] = span_cache[u] /\ used'[u] = used[u] /\ local'[u] = local[u]
      /\ next_span' \in [Span -> SpanOrNull]
      /\ prev_span' \in [Span -> SpanOrNull]
      /\ list_size' \in [Span -> Nat]
      /\ span_cache' \in [Thread -> SpanOrNull]
      /\ used' \in [Thread -> SUBSET Span]
      /\ local' \in [Thread -> Seq(Span)]
  BY <1>1, <1>2, <1>3, TakeHeadFacts
<1>5. Range(chain) \subseteq Has(t)
  BY DEF Has, chain
<1>6. Writes(t, Range(chain))
  BY <1>1, <1>4 DEF Writes, locals
<1>7. TypeOK'
  BY <1>1, <1>4, Types DEF TypeOK, locals
<1>8. OnceEach(t)' /\ Has(t)' = Has(t)
  <2>1. OnceEach(t) /\ moving'[t] = moving[t] /\ chain = local[t]
    BY <1>1 DEF ThreadOK, chain
  <2>2. IsFiniteSet(used[t] \cup {s})
    BY <2>1, FS_AddElement DEF OnceEach
  <2> QED BY <1>4, <2>1, <2>2 DEF OnceEach, Has
<1>9. LocalOK(t)'
  BY <1>1, <1>4, SMTT(30) DEF LocalOK, LocalHead, Finalizing, Chained, SpanAt, locals
<1>10. MovingOK(t)'
  BY <1>1, <1>3 DEF MovingOK, locals
<1>11. pc' = pc
  BY <1>1 DEF locals
<1> QED BY <1>1, <1>5, <1>6, <1>7, <1>8, <1>9, <1>10, <1>11, OwnStep DEF ThreadOK

\* A free span goes to the front of the heap's chain.
LEMMA CacheInsertStep ==
  ASSUME IInv, NEW t \in Thread, NEW s \in Span, CacheInsert(t, s)
  PROVE  IInv'
<1> DEFINE h == span_cache[t]
           chain == local[t]
           n == IF h # Null THEN list_size[h] + 1 ELSE 1
           c == <<s>> \o chain
<1>1. /\ ThreadOK(t) /\ pc[t] = "idle" /\ ~CleaningUp /\ s \in used[t]
      /\ next_span' = [next_span EXCEPT ![s] = h]
      /\ list_size' = [list_size EXCEPT ![s] = n]
      /\ span_cache' = [span_cache EXCEPT ![t] = s]
      /\ local' = [local EXCEPT ![t] = c]
      /\ used' = [used EXCEPT ![t] = @ \ {s}]
      /\ UNCHANGED <<prev_span, global, mapped, pc, seen, first, size, rest, moving, batches>>
  BY DEF IInv, CacheInsert, Idle, locals
<1>2. chain \in Seq(Span) /\ Chained(h, chain) /\ (h # Null => list_size[h] = Len(chain))
  BY <1>1, Types DEF ThreadOK, LocalOK, LocalHead, Finalizing
<1>3. OnceEach(t) /\ MovingOK(t) /\ NoRepeat(chain) /\ moving[t] = <<>> /\ s \notin Range(chain)
  BY <1>1 DEF ThreadOK, OnceEach, MovingOK
<1>4. chain = <<>> <=> h = Null
  BY <1>2, ChainHead
<1>5. n = Len(chain) + 1 /\ n \in Nat
  <2>1. Len(chain) \in Nat /\ (chain = <<>> <=> Len(chain) = 0)
    BY <1>2
  <2> QED BY <2>1, <1>2, <1>4
<1>6. h \in SpanOrNull
  BY Types
<1>7. /\ c \in Seq(Span) /\ Len(chain) \in Nat /\ Len(c) = Len(chain) + 1 /\ c[1] = s
      /\ \A i \in 2..(Len(chain) + 1) : c[i] = chain[i - 1]
  BY <1>2, ConsFacts
<1>8. Range(c) = {s} \cup Range(chain) /\ NoRepeat(c)
  BY <1>2, <1>3, ConsRange
<1> HIDE DEF n, c
<1>9. /\ next_span' \in [Span -> SpanOrNull] /\ list_size' \in [Span -> Nat]
      /\ span_cache' \in [Thread -> SpanOrNull] /\ local' \in [Thread -> Seq(Span)]
      /\ used' \in [Thread -> SUBSET Span]
  BY <1>1, <1>5, <1>6, <1>7, Types DEF SpanOrNull
<1>10. TypeOK'
  BY <1>1, <1>9, Types DEF TypeOK
<1>11. /\ next_span'[s] = h /\ list_size'[s] = n /\ span_cache'[t] = s
       /\ local'[t] = c /\ used'[t] = used[t] \ {s}
       /\ \A x \in Span \ {s} : next_span'[x] = next_span[x] /\ list_size'[x] = list_size[x]
       /\ \A u \in Thread : u # t =>
            span_cache'[u] = span_cache[u] /\ used'[u] = used[u] /\ local'[u] = local[u]
  BY <1>1, Types
<1>12. Writes(t, {s}) /\ {s} \subseteq Has(t)
  BY <1>1, <1>11 DEF Writes, Has
<1>13. OnceEach(t)' /\ Has(t)' = Has(t)
  <2>1. IsFiniteSet(used[t])
    BY <1>3 DEF OnceEach
  <2>2. IsFiniteSet(used[t] \ {s})
    BY <2>1, FS_RemoveElement
  <2>3. chain = local[t] /\ moving'[t] = moving[t]
    BY <1>1
  <2> QED BY <1>1, <1>3, <1>8, <1>11, <2>2, <2>3, EmptyFacts DEF OnceEach, Has
<1>14. LocalOK(t)'
  <2>1. \A i \in 1..Len(c) : next_span'[c[i]] = SpanAt(c, i + 1)
    <3>1. \A i \in 1..Len(c) : SpanAt(c, i + 1) = SpanAt(chain, i)
      BY <1>7 DEF SpanAt
    <3>2. next_span'[c[1]] = SpanAt(chain, 1)
      BY <1>2, <1>7, <1>11 DEF Chained
    <3>3. ASSUME NEW i \in 1..Len(c), i # 1 PROVE next_span'[c[i]] = SpanAt(chain, i)
      <4>1. i - 1 \in 1..Len(chain) /\ (i - 1) + 1 = i /\ c[i] = chain[i - 1]
        BY <1>7, <3>3
      <4>2. chain[i - 1] \in Range(chain) /\ Range(chain) \subseteq Span
        BY <1>2, <4>1, RangeFacts
      <4>3. next_span'[chain[i - 1]] = SpanAt(chain, i)
        <5>1. next_span[chain[i - 1]] = SpanAt(chain, i)
          BY <1>2, <4>1 DEF Chained
        <5> QED BY <1>3, <1>11, <4>2, <5>1
      <4> QED BY <4>1, <4>3
    <3> QED BY <3>1, <3>2, <3>3
  <2>2. s = SpanAt(c, 1)
    BY <1>7 DEF SpanAt
  <2>3. pc'[t] = "idle"
    BY <1>1
  <2> QED BY <1>5, <1>7, <1>11, <2>1, <2>2, <2>3 DEF LocalOK, LocalHead, Finalizing, Chained, SpanAt
<1>15. MovingOK(t)'
  BY <1>1, <1>3 DEF MovingOK
<1> QED BY <1>1, <1>10, <1>12, <1>13, <1>14, <1>15, OwnStep DEF ThreadOK

\* A span comes from the system.
LEMMA MapStep ==
  ASSUME IInv, NEW t \in Thread, Map(t)
  PROVE  IInv'
<1>1. PICK s \in Span \ mapped : /\ mapped' = mapped \cup {s}
                                 /\ used' = [used EXCEPT ![t] = @ \cup {s}]
  BY DEF Map
<1>2. /\ ThreadOK(t) /\ pc[t] = "map" /\ ~CleaningUp /\ Apart
      /\ pc' = [pc EXCEPT ![t] = "idle"]
      /\ UNCHANGED <<headers, span_cache, global, seen, first, size, rest, histories>>
  BY NobodyCleans DEF IInv, Map, Goto
<1>3. s \notin Has(t) /\ s \notin SpansIn(batches) /\ \A u \in Thread : s \notin Has(u)
  <2>1. mapped = (UNION {Has(u) : u \in Thread}) \cup SpansIn(batches)
    BY <1>2 DEF Apart
  <2> QED BY <2>1
<1>4. /\ used'[t] = used[t] \cup {s} /\ pc'[t] = "idle"
      /\ \A u \in Thread : u # t => used'[u] = used[u] /\ pc'[u] = pc[u]
  BY <1>1, <1>2, Types DEF TypeOK
<1>5. Writes(t, {}) /\ {} \subseteq Has(t)
  BY <1>2, <1>4 DEF Writes, headers, histories
<1>6. TypeOK'
  BY <1>1, <1>2, Types DEF TypeOK, headers, histories
<1>7. Has(t)' = Has(t) \cup {s}
  BY <1>2, <1>4 DEF Has, histories
<1>8. OnceEach(t)'
  <2>1. IsFiniteSet(used[t])
    BY <1>2 DEF ThreadOK, OnceEach
  <2>2. IsFiniteSet(used[t] \cup {s})
    BY <2>1, FS_AddElement
  <2> QED BY <1>2, <1>3, <1>4, <2>2 DEF ThreadOK, OnceEach, Has, histories
<1>9. LocalOK(t)'
  BY <1>2, <1>4 DEF ThreadOK, LocalOK, LocalHead, Finalizing, Chained, SpanAt, headers, histories
<1>10. MovingOK(t)'
  BY <1>2, <1>4 DEF ThreadOK, MovingOK, histories
<1>11. StepOf(t, {}) /\ {} \cap SpansIn(batches) = {}
  BY <1>5, OwnSpans
<1>12. Has(t)' \cap SpansIn(batches) = {} /\ \A u \in Thread : u # t => Has(t)' \cap Has(u) = {}
  BY <1>2, <1>3, <1>7 DEF Apart
<1>13. mapped' = (mapped \ Has(t)) \cup Has(t)'
  <2>1. Has(t) \subseteq mapped
    BY <1>2 DEF Apart
  <2> QED BY <1>1, <1>7, <2>1
<1>14. UNCHANGED <<batches, global>>
  BY <1>2 DEF histories
<1> QED BY <1>2, <1>4, <1>6, <1>8, <1>9, <1>10, <1>11, <1>12, <1>13, <1>14, PrivateStep DEF ThreadOK

\* The links of a sublist are written before the swap.
LEMMA InsertLinksStep ==
  ASSUME IInv, NEW t \in Thread, InsertLinks(t)
  PROVE  IInv'
<1> DEFINE s == first[t]
<1>1. /\ ThreadOK(t) /\ pc[t] = "insert" /\ ~CleaningUp
      /\ global # Token /\ Fits(t, global.count)
      /\ seen' = [seen EXCEPT ![t] = global]
      /\ list_size' = [list_size EXCEPT ![s] = size[t]]
      /\ prev_span' = [prev_span EXCEPT ![s] = global.span]
      /\ pc' = [pc EXCEPT ![t] = "swap"]
      /\ UNCHANGED <<next_span, span_cache, global, mapped, used, first, size, rest, histories>>
  BY NobodyCleans DEF IInv, InsertLinks, Goto
<1>2. /\ OnceEach(t) /\ LocalOK(t) /\ moving[t] # <<>> /\ Chained(s, moving[t])
      /\ size[t] = Len(moving[t]) /\ moving[t] \in Seq(Span) /\ local[t] \in Seq(Span)
  BY <1>1, Types DEF ThreadOK, MovingOK
<1>3. s \in Range(moving[t]) /\ s \in Span /\ s \notin Range(local[t]) /\ s # Null
  BY <1>2, ChainHead, Types DEF OnceEach
<1>4. global \in CacheHead /\ global.span \in SpanOrNull /\ global.count \in 0..MaxCount
  BY <1>1, Types DEF TypeOK, CacheHead
<1> HIDE DEF s
<1>5. /\ seen'[t] = global /\ list_size'[s] = size[t] /\ prev_span'[s] = global.span
      /\ pc'[t] = "swap"
      /\ \A x \in Span \ {s} : prev_span'[x] = prev_span[x] /\ list_size'[x] = list_size[x]
      /\ \A u \in Thread : u # t => seen'[u] = seen[u] /\ pc'[u] = pc[u]
  BY <1>1, <1>3, Types DEF TypeOK
<1>6. Writes(t, {s}) /\ {s} \subseteq Has(t)
  BY <1>1, <1>3, <1>5 DEF Writes, Has, histories
<1>7. TypeOK'
  <2>1. seen' \in [Thread -> CacheHead \cup {Token}] /\ prev_span' \in [Span -> SpanOrNull]
    BY <1>1, <1>4, Types
  <2>2. list_size' \in [Span -> Nat]
    BY <1>1, Types
  <2> QED BY <1>1, <2>1, <2>2, Types DEF TypeOK, histories
<1>8. OnceEach(t)' /\ Has(t)' = Has(t)
  BY <1>1, <1>2 DEF OnceEach, Has, histories
<1>9. LocalOK(t)'
  <2>1. LocalHead(t)' = LocalHead(t) /\ span_cache'[t] = span_cache[t] /\ local'[t] = local[t]
    BY <1>1, <1>5 DEF LocalHead, Finalizing, histories
  <2>2. LocalHead(t) # Null => LocalHead(t) \in Range(local[t]) /\ LocalHead(t) \in Span
    BY <1>2, ChainHead DEF LocalOK
  <2>3. LocalHead(t) # Null => list_size'[LocalHead(t)] = list_size[LocalHead(t)]
    BY <1>3, <1>5, <2>2
  <2> QED BY <1>1, <1>2, <2>1, <2>3 DEF LocalOK, Chained, SpanAt
<1>10. MovingOK(t)'
  <2>1. first'[t] = s /\ size'[t] = size[t] /\ moving'[t] = moving[t] /\ next_span' = next_span
    BY <1>1 DEF s, histories
  <2> QED BY <1>1, <1>2, <1>5, <2>1 DEF MovingOK, Chained, SpanAt, Fits
<1> QED BY <1>1, <1>5, <1>6, <1>7, <1>8, <1>9, <1>10, OwnStep DEF ThreadOK, histories

\* The rest of the chain, when it is short enough, is the last sublist.
LEMMA FinalizeRestStep ==
  ASSUME IInv, NEW t \in Thread, FinalizeRest(t)
  PROVE  IInv'
<1> DEFINE s == rest[t]
           chain == local[t]
<1>1. /\ ThreadOK(t) /\ pc[t] = "cut" /\ ~CleaningUp /\ s # Null
      /\ first' = [first EXCEPT ![t] = s]
      /\ size' = [size EXCEPT ![t] = list_size[s]]
      /\ rest' = [rest EXCEPT ![t] = Null]
      /\ moving' = [moving EXCEPT ![t] = chain]
      /\ local' = [local EXCEPT ![t] = <<>>]
      /\ pc' = [pc EXCEPT ![t] = "insert"]
      /\ UNCHANGED <<headers, span_cache, global, mapped, used, seen, batches>>
  BY NobodyCleans DEF IInv, FinalizeRest, Goto
<1>2. /\ OnceEach(t) /\ moving[t] = <<>> /\ Chained(s, chain) /\ list_size[s] = Len(chain)
      /\ chain \in Seq(Span) /\ span_cache[t] = Null
  BY <1>1, Types DEF ThreadOK, LocalOK, LocalHead, Finalizing, MovingOK
<1>3. s \in Span /\ chain # <<>>
  BY <1>1, <1>2, ChainHead
<1>4. list_size[s] \in Nat
  BY <1>3, Types
<1> HIDE DEF s, chain
<1>5. /\ first' \in [Thread -> SpanOrNull] /\ size' \in [Thread -> Nat]
      /\ rest' \in [Thread -> SpanOrNull]
      /\ moving' \in [Thread -> Seq(Span)] /\ local' \in [Thread -> Seq(Span)]
  <2>1. <<>> \in Seq(Span) /\ s \in SpanOrNull /\ Null \in SpanOrNull
    BY <1>3 DEF SpanOrNull
  <2> QED BY <1>1, <1>2, <1>4, <2>1, Types
<1>6. TypeOK'
  BY <1>1, <1>5, Types DEF TypeOK, headers
<1>7. /\ first'[t] = s /\ size'[t] = Len(chain) /\ rest'[t] = Null
      /\ moving'[t] = chain /\ local'[t] = <<>> /\ pc'[t] = "insert"
      /\ \A u \in Thread : u # t =>
           /\ first'[u] = first[u] /\ size'[u] = size[u] /\ rest'[u] = rest[u]
           /\ moving'[u] = moving[u] /\ local'[u] = local[u] /\ pc'[u] = pc[u]
  BY <1>1, <1>2, Types DEF TypeOK
<1>8. Writes(t, {}) /\ {} \subseteq Has(t)
  BY <1>1, <1>7 DEF Writes, headers
<1>9. OnceEach(t)' /\ Has(t)' = Has(t)
  BY <1>1, <1>2, <1>7, EmptyFacts DEF OnceEach, Has, chain
<1>10. LocalOK(t)'
  <2>1. Len(<<>>) = 0 /\ 1..0 = {}
    BY EmptyFacts
  <2> QED BY <1>1, <1>2, <1>7, <2>1 DEF LocalOK, LocalHead, Finalizing, Chained, SpanAt
<1>11. MovingOK(t)'
  <2>1. next_span' = next_span
    BY <1>1 DEF headers
  <2> QED BY <1>2, <1>3, <1>7, <2>1 DEF MovingOK, Chained, SpanAt
<1> QED BY <1>1, <1>6, <1>7, <1>8, <1>9, <1>10, <1>11, OwnStep DEF ThreadOK

\* The first MaxRelease spans of the chain become a sublist, the others the
\* chain.
LEMMA FinalizeSublistStep ==
  ASSUME IInv, NEW t \in Thread, FinalizeSublist(t)
  PROVE  IInv'
<1> DEFINE s == rest[t]
           chain == local[t]
           M == MaxRelease
           a == SubSeq(chain, 1, M)
           b == SubSeq(chain, M + 1, Len(chain))
           last == Along(s, M - 1)
           new == Along(s, M)
           n == list_size[s] - M
<1>1. /\ ThreadOK(t) /\ pc[t] = "cut" /\ ~CleaningUp /\ s # Null
      /\ list_size[s] > M
      /\ next_span' = [next_span EXCEPT ![last] = Null]
      /\ list_size' = [list_size EXCEPT ![new] = n]
      /\ first' = [first EXCEPT ![t] = s]
      /\ size' = [size EXCEPT ![t] = M]
      /\ rest' = [rest EXCEPT ![t] = new]
      /\ moving' = [moving EXCEPT ![t] = a]
      /\ local' = [local EXCEPT ![t] = b]
      /\ pc' = [pc EXCEPT ![t] = "insert"]
      /\ UNCHANGED <<prev_span, span_cache, global, mapped, used, seen, batches>>
  BY NobodyCleans DEF IInv, FinalizeSublist, Goto, Cut
<1>2. /\ OnceEach(t) /\ moving[t] = <<>> /\ Chained(s, chain) /\ list_size[s] = Len(chain)
      /\ chain \in Seq(Span) /\ span_cache[t] = Null /\ NoRepeat(chain)
  BY <1>1, Types DEF ThreadOK, LocalOK, LocalHead, Finalizing, MovingOK, OnceEach
<1>3. M \in Nat \ {0} /\ Len(chain) \in Nat /\ M < Len(chain) /\ n = Len(chain) - M /\ n \in Nat
  BY <1>1, <1>2, BoundAssumption
<1>4. s = chain[1] /\ s \in Span
  BY <1>1, <1>2, ChainHead
<1>5. last = chain[M] /\ new = chain[M + 1]
  <2>1. \A k \in 0..Len(chain) : Along(s, k) = SpanAt(chain, k + 1)
    BY <1>2, AlongChain
  <2>2. M - 1 \in 0..Len(chain) /\ (M - 1) + 1 = M /\ M \in 0..Len(chain)
    BY <1>3
  <2> QED BY <1>3, <2>1, <2>2 DEF SpanAt
<1> HIDE DEF s, chain, last, new, n, M
<1>6. /\ a \in Seq(Span) /\ Len(a) = M /\ \A i \in 1..M : a[i] = chain[i]
      /\ b \in Seq(Span) /\ Len(b) = n /\ \A i \in 1..n : b[i] = chain[i + M]
  <2>1. M \in 0..Len(chain)
    BY <1>3
  <2> QED BY <1>2, <1>3, <2>1, SplitFacts
<1>7. /\ NoRepeat(a) /\ NoRepeat(b) /\ Range(a) \cap Range(b) = {}
      /\ Range(a) \cup Range(b) = Range(chain)
  <2>1. M \in 0..Len(chain)
    BY <1>3
  <2> QED BY <1>2, <2>1, SplitRange
<1> HIDE DEF a, b
<1>8. /\ M \in 1..Len(chain) /\ M + 1 \in 1..Len(chain) /\ last # new
      /\ last \in Range(chain) /\ new \in Range(chain) /\ last \in Span /\ new \in Span
  <2>1. M \in 1..Len(chain) /\ M + 1 \in 1..Len(chain) /\ M # M + 1
    BY <1>3
  <2>2. last # new
    BY <1>2, <1>5, <2>1 DEF NoRepeat
  <2> QED BY <1>2, <1>5, <2>1, <2>2, RangeFacts
<1>9. /\ first' \in [Thread -> SpanOrNull] /\ size' \in [Thread -> Nat]
      /\ rest' \in [Thread -> SpanOrNull] /\ next_span' \in [Span -> SpanOrNull]
      /\ list_size' \in [Span -> Nat]
      /\ moving' \in [Thread -> Seq(Span)] /\ local' \in [Thread -> Seq(Span)]
  <2>1. new \in SpanOrNull /\ s \in SpanOrNull /\ Null \in SpanOrNull
    BY <1>4, <1>8 DEF SpanOrNull
  <2> QED BY <1>1, <1>3, <1>6, <2>1, Types
<1>10. TypeOK'
  BY <1>1, <1>9, Types DEF TypeOK
<1>11. /\ first'[t] = s /\ size'[t] = M /\ rest'[t] = new
       /\ moving'[t] = a /\ local'[t] = b /\ pc'[t] = "insert"
       /\ \A u \in Thread : u # t =>
            /\ first'[u] = first[u] /\ size'[u] = size[u] /\ rest'[u] = rest[u]
            /\ moving'[u] = moving[u] /\ local'[u] = local[u] /\ pc'[u] = pc[u]
  BY <1>1, <1>2, Types DEF TypeOK
<1>12. /\ next_span'[last] = Null /\ list_size'[new] = n
       /\ \A x \in Span \ {last} : next_span'[x] = next_span[x]
       /\ \A x \in Span \ {new} : list_size'[x] = list_size[x]
  BY <1>1, <1>8, Types
<1>13. Writes(t, Range(chain)) /\ Range(chain) \subseteq Has(t)
  BY <1>1, <1>8, <1>11, <1>12 DEF Writes, Has, chain
<1>14. OnceEach(t)' /\ Has(t)' = Has(t)
  BY <1>1, <1>2, <1>7, <1>11, EmptyFacts DEF OnceEach, Has, chain
<1>15. \A i \in 1..Len(chain) : i # M => next_span'[chain[i]] = SpanAt(chain, i + 1)
  <2>1. ASSUME NEW i \in 1..Len(chain), i # M PROVE next_span'[chain[i]] = SpanAt(chain, i + 1)
    <3>1. chain[i] # last
      BY <1>2, <1>5, <1>8, <2>1 DEF NoRepeat
    <3>2. chain[i] \in Span /\ next_span[chain[i]] = SpanAt(chain, i + 1)
      BY <1>2 DEF Chained
    <3> QED BY <3>1, <3>2, <1>12
  <2> QED BY <2>1
<1>16. LocalOK(t)'
  <2>1. \A i \in 1..Len(b) : next_span'[b[i]] = SpanAt(b, i + 1)
    <3>1. ASSUME NEW i \in 1..Len(b) PROVE next_span'[b[i]] = SpanAt(b, i + 1)
      <4>1. i + M \in 1..Len(chain) /\ i + M # M /\ b[i] = chain[i + M]
        BY <1>3, <1>6
      <4>2. next_span'[b[i]] = SpanAt(chain, i + M + 1)
        BY <1>15, <4>1
      <4>3. SpanAt(chain, i + M + 1) = SpanAt(b, i + 1)
        <5>1. CASE i = n
          <6>1. i + M + 1 > Len(chain) /\ i + 1 > Len(b)
            BY <1>3, <1>6, <5>1
          <6> QED BY <1>3, <1>6, <6>1 DEF SpanAt
        <5>2. CASE i # n
          <6>1. i + 1 \in 1..n /\ (i + 1) + M = i + M + 1 /\ i + M + 1 <= Len(chain)
            BY <1>3, <1>6, <5>2
          <6> QED BY <1>6, <6>1 DEF SpanAt
        <5> QED BY <5>1, <5>2
      <4> QED BY <4>2, <4>3
    <3> QED BY <3>1
  <2>2. new = SpanAt(b, 1)
    <3>1. 1 \in 1..n /\ 1 + M = M + 1
      BY <1>3
    <3> QED BY <1>5, <1>6, <3>1 DEF SpanAt
  <2>3. span_cache'[t] = Null
    BY <1>1, <1>2
  <2> QED BY <1>6, <1>11, <1>12, <2>1, <2>2, <2>3 DEF LocalOK, LocalHead, Finalizing, Chained, SpanAt
<1>17. MovingOK(t)'
  <2>1. \A i \in 1..Len(a) : next_span'[a[i]] = SpanAt(a, i + 1)
    <3>1. ASSUME NEW i \in 1..Len(a) PROVE next_span'[a[i]] = SpanAt(a, i + 1)
      <4>1. CASE i = M
        <5>1. ~(M + 1 <= Len(a)) /\ a[i] = last
          BY <1>3, <1>5, <1>6, <4>1
        <5> QED BY <1>12, <4>1, <5>1 DEF SpanAt
      <4>2. CASE i # M
        <5>1. i \in 1..Len(chain) /\ i + 1 \in 1..M /\ i + 1 <= Len(a) /\ i + 1 <= Len(chain)
          BY <1>3, <1>6, <4>2
        <5> QED BY <1>6, <1>15, <4>2, <5>1 DEF SpanAt
      <4> QED BY <4>1, <4>2
    <3> QED BY <3>1
  <2>2. s = SpanAt(a, 1) /\ a # <<>>
    <3>1. 1 \in 1..M /\ 1 <= M
      BY <1>3
    <3> QED BY <1>4, <1>6, <3>1 DEF SpanAt
  <2> QED BY <1>6, <1>11, <2>1, <2>2 DEF MovingOK, Chained, SpanAt
<1> QED BY <1>1, <1>10, <1>11, <1>13, <1>14, <1>16, <1>17, OwnStep DEF ThreadOK

\* A sublist that does not fit is unmapped, a span at a time.
LEMMA ReleaseStep ==
  ASSUME IInv, NEW t \in Thread, Release(t)
  PROVE  IInv'
<1> DEFINE s == first[t]
           chain == moving[t]
           n == next_span[s]
           rem == Tail(chain)
<1>1. /\ ThreadOK(t) /\ pc[t] = "release" /\ ~CleaningUp /\ Apart
      /\ mapped' = mapped \ {s}
      /\ next_span' = [x \in Span |-> IF x \in {s} THEN Null ELSE next_span[x]]
      /\ prev_span' = [x \in Span |-> IF x \in {s} THEN Null ELSE prev_span[x]]
      /\ list_size' = [x \in Span |-> IF x \in {s} THEN 0 ELSE list_size[x]]
      /\ first' = [first EXCEPT ![t] = n]
      /\ size' = [size EXCEPT ![t] = size[t] - 1]
      /\ moving' = [moving EXCEPT ![t] = rem]
      /\ pc' = [pc EXCEPT ![t] = IF size[t] = 1 THEN "cut" ELSE "release"]
      /\ UNCHANGED <<span_cache, global, used, seen, rest, local, batches>>
  BY NobodyCleans, Types DEF IInv, Release, Goto, Unmapped
<1>2. /\ OnceEach(t) /\ LocalOK(t) /\ Chained(s, chain) /\ size[t] = Len(chain)
      /\ chain \in Seq(Span) /\ chain # <<>> /\ NoRepeat(chain) /\ local[t] \in Seq(Span)
  BY <1>1, Types DEF ThreadOK, MovingOK, OnceEach
<1>3. s = Head(chain) /\ s \in Span /\ s \in Range(chain) /\ Len(chain) \in Nat \ {0}
  BY <1>2, ChainHead
<1>4. Chained(n, rem) /\ rem \in Seq(Span) /\ Len(rem) = Len(chain) - 1
  BY <1>2, ChainTail
<1>5. Range(rem) = Range(chain) \ {s} /\ NoRepeat(rem)
  BY <1>2, <1>3, TailRange
<1>6. n \in SpanOrNull
  BY <1>3, Types
<1>7. s \notin used[t] /\ s \notin Range(local[t])
  BY <1>2, <1>3 DEF OnceEach
<1> HIDE DEF s, chain, n, rem
<1>8. /\ next_span' \in [Span -> SpanOrNull] /\ prev_span' \in [Span -> SpanOrNull]
      /\ list_size' \in [Span -> Nat]
  BY <1>1, Types DEF SpanOrNull
<1>9. /\ first' \in [Thread -> SpanOrNull] /\ size' \in [Thread -> Nat]
      /\ moving' \in [Thread -> Seq(Span)]
  <2>1. size[t] - 1 \in Nat
    BY <1>2, <1>3
  <2> QED BY <1>1, <1>4, <1>6, <2>1, Types
<1>10. TypeOK'
  BY <1>1, <1>8, <1>9, Types DEF TypeOK
<1>11. /\ first'[t] = n /\ size'[t] = Len(rem) /\ moving'[t] = rem
       /\ pc'[t] = IF rem = <<>> THEN "cut" ELSE "release"
       /\ \A u \in Thread : u # t =>
            /\ first'[u] = first[u] /\ size'[u] = size[u]
            /\ moving'[u] = moving[u] /\ pc'[u] = pc[u]
  <2>1. size[t] = 1 <=> rem = <<>>
    BY <1>2, <1>3, <1>4
  <2> QED BY <1>1, <1>2, <1>4, <2>1, Types DEF TypeOK
<1>12. \A x \in Span \ {s} : /\ next_span'[x] = next_span[x]
                             /\ prev_span'[x] = prev_span[x]
                             /\ list_size'[x] = list_size[x]
  BY <1>1
<1>13. Writes(t, {s}) /\ {s} \subseteq Has(t)
  BY <1>1, <1>3, <1>11, <1>12 DEF Writes, Has, chain
<1>14. OnceEach(t)' /\ Has(t)' = Has(t) \ {s}
  BY <1>1, <1>2, <1>3, <1>5, <1>7, <1>11 DEF OnceEach, Has, chain
<1>15. LocalOK(t)'
  <2>1. LocalHead(t)' = LocalHead(t) /\ span_cache'[t] = span_cache[t] /\ local'[t] = local[t]
    BY <1>1, <1>11 DEF LocalHead, Finalizing
  <2>2. Range(local[t]) \subseteq Span \ {s}
    BY <1>2, <1>7, RangeFacts
  <2>3. \A x \in Range(local[t]) : next_span'[x] = next_span[x] /\ list_size'[x] = list_size[x]
    BY <1>12, <2>2
  <2>4. Chained(LocalHead(t), local[t])
    BY <1>2 DEF LocalOK
  <2>5. LocalHead(t) # Null => LocalHead(t) \in Range(local[t])
    BY <1>2, <2>4, ChainHead
  <2>6. /\ LocalHead(t) = SpanAt(local[t], 1)
        /\ \A i \in 1..Len(local[t]) : next_span'[local[t][i]] = SpanAt(local[t], i + 1)
    BY <1>2, <2>3, <2>4, ChainFrame
  <2>7. Chained(LocalHead(t), local[t])'
    BY <2>1, <2>6 DEF Chained, SpanAt
  <2> QED BY <1>1, <1>2, <2>1, <2>3, <2>5, <2>7 DEF LocalOK
<1>16. MovingOK(t)'
  <2>1. \A x \in Range(rem) : next_span'[x] = next_span[x]
    <3>1. Range(rem) \subseteq Span \ {s}
      BY <1>4, <1>5, RangeFacts
    <3> QED BY <1>12, <3>1
  <2>2. n = SpanAt(rem, 1) /\ \A i \in 1..Len(rem) : next_span'[rem[i]] = SpanAt(rem, i + 1)
    BY <1>4, <2>1, ChainFrame
  <2> QED BY <1>11, <2>2 DEF MovingOK, Chained, SpanAt
<1>17. StepOf(t, {s}) /\ {s} \cap SpansIn(batches) = {}
  BY <1>13, OwnSpans
<1>18. Has(t)' \cap SpansIn(batches) = {} /\ \A u \in Thread : u # t => Has(t)' \cap Has(u) = {}
  BY <1>1, <1>14 DEF Apart
<1>19. mapped' = (mapped \ Has(t)) \cup Has(t)'
  <2>1. Has(t) \subseteq mapped
    BY <1>1 DEF Apart
  <2>2. s \in Has(t)
    BY <1>13
  <2> QED BY <1>1, <1>14, <2>1, <2>2
<1> QED BY <1>1, <1>10, <1>11, <1>14, <1>15, <1>16, <1>17, <1>18, <1>19, PrivateStep DEF ThreadOK
-----------------------------------------------------------------------------
(* Steps that move spans into and out of the global cache *)

\* Taking the first sublist away.
LEMMA DropSublist ==
  ASSUME NEW bs \in Seq(Seq(Span)), bs # <<>>,
         \A i, j \in 1..Len(bs) : i # j => Range(bs[i]) \cap Range(bs[j]) = {},
         \A i \in 1..Len(bs) : NoRepeat(bs[i])
  PROVE  /\ bs[1] \in Seq(Span) /\ bs[1] = Head(bs)
         /\ Tail(bs) \in Seq(Seq(Span)) /\ Len(bs) \in Nat \ {0} /\ Len(Tail(bs)) = Len(bs) - 1
         /\ \A i \in 1..(Len(bs) - 1) : Tail(bs)[i] = bs[i + 1]
         /\ SpansIn(bs) = Range(bs[1]) \cup SpansIn(Tail(bs))
         /\ Range(bs[1]) \cap SpansIn(Tail(bs)) = {}
         /\ Cardinality(SpansIn(Tail(bs))) \in Nat
         /\ Cardinality(SpansIn(bs)) = Len(bs[1]) + Cardinality(SpansIn(Tail(bs)))
<1> DEFINE rem == Tail(bs)
<1>1. /\ rem \in Seq(Seq(Span)) /\ Len(bs) \in Nat \ {0} /\ Len(rem) = Len(bs) - 1
      /\ \A i \in 1..(Len(bs) - 1) : rem[i] = bs[i + 1]
      /\ bs[1] \in Seq(Span) /\ bs[1] = Head(bs)
  BY TailFacts
<1> HIDE DEF rem
<1>2. /\ \A x : x \in SpansIn(bs) <=> \E i \in 1..Len(bs) : x \in Range(bs[i])
      /\ \A x : x \in SpansIn(rem) <=> \E i \in 1..Len(rem) : x \in Range(rem[i])
  BY DEF SpansIn
<1>3. \A x : x \in SpansIn(rem) <=> \E i \in 2..Len(bs) : x \in Range(bs[i])
  <2>1. ASSUME NEW x, x \in SpansIn(rem) PROVE \E i \in 2..Len(bs) : x \in Range(bs[i])
    <3>1. PICK i \in 1..Len(rem) : x \in Range(rem[i])
      BY <1>2, <2>1
    <3>2. i + 1 \in 2..Len(bs) /\ rem[i] = bs[i + 1]
      BY <1>1
    <3> QED BY <3>1, <3>2
  <2>2. ASSUME NEW x, NEW i \in 2..Len(bs), x \in Range(bs[i]) PROVE x \in SpansIn(rem)
    <3>1. i - 1 \in 1..Len(rem) /\ rem[i - 1] = bs[i]
      BY <1>1
    <3> QED BY <1>2, <2>2, <3>1
  <2> QED BY <2>1, <2>2
<1>4. SpansIn(bs) = Range(bs[1]) \cup SpansIn(rem)
  <2>1. ASSUME NEW x PROVE x \in SpansIn(bs) <=> x \in Range(bs[1]) \/ x \in SpansIn(rem)
    <3>1. \A i : i \in 1..Len(bs) <=> i = 1 \/ i \in 2..Len(bs)
      BY <1>1
    <3> QED BY <1>2, <1>3, <3>1
  <2> QED BY <2>1
<1>5. Range(bs[1]) \cap SpansIn(rem) = {}
  <2>1. \A i \in 2..Len(bs) : i \in 1..Len(bs) /\ 1 \in 1..Len(bs) /\ i # 1
    BY <1>1
  <2>2. \A i \in 2..Len(bs) : Range(bs[1]) \cap Range(bs[i]) = {}
    BY <2>1
  <2> QED BY <1>3, <2>2
<1>6. IsFiniteSet(SpansIn(rem)) /\ Cardinality(SpansIn(rem)) \in Nat
  <2> DEFINE R == {Range(rem[i]) : i \in 1..Len(rem)}
  <2>1. IsFiniteSet(1..Len(rem))
    BY <1>1, FS_Interval
  <2>2. IsFiniteSet(R)
    <3> DEFINE f == [i \in 1..Len(rem) |-> Range(rem[i])]
    <3>1. f \in Surjection(1..Len(rem), R)
      BY DEF Surjection
    <3> HIDE DEF f, R
    <3> QED BY <2>1, <3>1, FS_Surjection
  <2>3. \A T \in R : IsFiniteSet(T)
    <3>1. ASSUME NEW i \in 1..Len(rem) PROVE IsFiniteSet(Range(rem[i]))
      <4>1. i + 1 \in 1..Len(bs) /\ rem[i] = bs[i + 1] /\ bs[i + 1] \in Seq(Span)
        BY <1>1
      <4>2. NoRepeat(bs[i + 1])
        BY <4>1
      <4> QED BY <4>1, <4>2, NoRepeatCardinality
    <3> QED BY <3>1
  <2> HIDE DEF R
  <2>4. IsFiniteSet(UNION R)
    BY <2>2, <2>3, FS_UNION
  <2>5. IsFiniteSet(SpansIn(rem))
    BY <2>4 DEF SpansIn, R
  <2> QED BY <2>5, FS_CardinalityType
<1>7. IsFiniteSet(Range(bs[1])) /\ Cardinality(Range(bs[1])) = Len(bs[1]) /\ Len(bs[1]) \in Nat
  <2>1. NoRepeat(bs[1])
    BY <1>1
  <2> QED BY <1>1, <2>1, NoRepeatCardinality
<1>8. Cardinality(SpansIn(bs)) = Len(bs[1]) + Cardinality(SpansIn(rem))
  <2>1. Cardinality(Range(bs[1]) \cap SpansIn(rem)) = 0
    BY <1>5, FS_EmptySet
  <2>2. Cardinality(Range(bs[1]) \cup SpansIn(rem))
           = Cardinality(Range(bs[1])) + Cardinality(SpansIn(rem))
                - Cardinality(Range(bs[1]) \cap SpansIn(rem))
    BY <1>6, <1>7, FS_Union
  <2> QED BY <1>4, <1>6, <1>7, <2>1, <2>2
<1> QED BY <1>1, <1>4, <1>5, <1>6, <1>8 DEF rem

\* An empty cache counts nothing, and any other something.
LEMMA CountsNothing ==
  ASSUME IInv
  PROVE  /\ CachedCount \in Nat
         /\ CachedCount = 0 <=> batches = <<>>
         /\ batches = <<>> => SpansIn(batches) = {} /\ FirstOf(1) = Null
         /\ batches # <<>> => FirstOf(1) = batches[1][1] /\ 1 \in 1..Len(batches)
<1>1. CASE batches = <<>>
  <2>1. Len(batches) = 0 /\ 1..0 = {}
    BY <1>1, EmptyFacts
  <2>2. SpansIn(batches) = {}
    BY <2>1 DEF SpansIn
  <2> QED BY <1>1, <2>1, <2>2, FS_EmptySet DEF CachedCount, FirstOf
<1>2. CASE batches # <<>>
  <2>1. /\ batches \in Seq(Seq(Span))
        /\ \A i, j \in 1..Len(batches) : i # j => Range(batches[i]) \cap Range(batches[j]) = {}
        /\ \A i \in 1..Len(batches) : NoRepeat(batches[i])
    BY Types DEF IInv, CachedOnce
  <2>2. /\ Len(batches) \in Nat \ {0}
        /\ Cardinality(SpansIn(Tail(batches))) \in Nat
        /\ CachedCount = Len(batches[1]) + Cardinality(SpansIn(Tail(batches)))
    BY <1>2, <2>1, DropSublist DEF CachedCount
  <2>3. 1 \in 1..Len(batches)
    BY <2>2
  <2>4. batches[1] \in Seq(Span) /\ batches[1] # <<>>
    BY <2>3, BatchFacts
  <2>5. Len(batches[1]) \in Nat \ {0}
    BY <2>4
  <2> QED BY <1>2, <2>2, <2>3, <2>5 DEF FirstOf
<1> QED BY <1>1, <1>2

\* What stays in the global cache when its first sublist goes.
LEMMA RestLinked ==
  ASSUME IInv, batches # <<>>, batches' = Tail(batches),
         \A x \in SpansIn(Tail(batches)) : /\ next_span'[x] = next_span[x]
                                           /\ prev_span'[x] = prev_span[x]
                                           /\ list_size'[x] = list_size[x]
  PROVE  /\ BatchesLinked' /\ CachedOnce'
         /\ FirstOf(1)' = FirstOf(2)
         /\ SpansIn(batches)' = SpansIn(Tail(batches))
         /\ CachedCount' = Cardinality(SpansIn(Tail(batches)))
<1> DEFINE rem == Tail(batches)
<1>1. CachedOnce /\ batches \in Seq(Seq(Span))
  BY Types DEF IInv
<1>2. /\ rem \in Seq(Seq(Span))
      /\ Len(batches) \in Nat \ {0} /\ Len(rem) = Len(batches) - 1
      /\ \A i \in 1..(Len(batches) - 1) : rem[i] = batches[i + 1]
  BY <1>1, TailFacts
<1>3. batches' = rem
  OBVIOUS
<1>4. \A x \in SpansIn(rem) : /\ next_span'[x] = next_span[x]
                              /\ prev_span'[x] = prev_span[x]
                              /\ list_size'[x] = list_size[x]
  OBVIOUS
<1> HIDE DEF rem
<1>5. \A i \in 1..Len(rem) : i + 1 \in 1..Len(batches) /\ rem[i] = batches[i + 1]
  BY <1>2
<1>6. FirstOf(1)' = FirstOf(2) /\ \A i \in 1..Len(rem) : FirstOf(i + 1)' = FirstOf(i + 2)
  <2>1. FirstOf(1)' = FirstOf(2)
    <3>1. CASE 1 <= Len(rem)
      BY <1>2, <1>3, <3>1 DEF FirstOf
    <3>2. CASE ~(1 <= Len(rem))
      BY <1>2, <1>3, <3>2 DEF FirstOf
    <3> QED BY <3>1, <3>2
  <2>2. ASSUME NEW i \in 1..Len(rem) PROVE FirstOf(i + 1)' = FirstOf(i + 2)
    <3>1. CASE i + 1 <= Len(rem)
      <4>1. i + 1 \in 1..(Len(batches) - 1) /\ (i + 1) + 1 = i + 2 /\ i + 2 <= Len(batches)
        BY <1>2, <3>1
      <4> QED BY <1>2, <1>3, <3>1, <4>1 DEF FirstOf
    <3>2. CASE ~(i + 1 <= Len(rem))
      BY <1>2, <1>3, <3>2 DEF FirstOf
    <3> QED BY <3>1, <3>2
  <2> QED BY <2>1, <2>2
<1>7. BatchesLinked'
  <2>1. ASSUME NEW i \in 1..Len(rem)
        PROVE  /\ rem[i] # <<>>
               /\ rem[i][1] = SpanAt(rem[i], 1)
               /\ \A j \in 1..Len(rem[i]) : next_span'[rem[i][j]] = SpanAt(rem[i], j + 1)
               /\ list_size'[rem[i][1]] = Len(rem[i])
               /\ prev_span'[rem[i][1]] = FirstOf(i + 1)'
    <3>1. (i + 1) + 1 = i + 2 /\ i + 1 \in 1..Len(batches) /\ rem[i] = batches[i + 1]
      BY <1>5
    <3>2. /\ rem[i] \in Seq(Span) /\ rem[i] # <<>> /\ Chained(rem[i][1], rem[i])
          /\ rem[i][1] \in Range(rem[i])
          /\ list_size[rem[i][1]] = Len(rem[i])
          /\ prev_span[rem[i][1]] = FirstOf(i + 1)'
      BY <1>6, <3>1, BatchFacts
    <3>3. Range(rem[i]) \subseteq SpansIn(rem)
      BY DEF SpansIn
    <3>4. \A x \in Range(rem[i]) : next_span'[x] = next_span[x]
      BY <1>4, <3>3
    <3> QED BY <1>4, <3>2, <3>3, <3>4, ChainFrame
  <2>2. ASSUME NEW i \in 1..Len(rem)
        PROVE  /\ batches'[i] # <<>> /\ Chained(batches[i][1], batches[i])'
               /\ list_size'[batches'[i][1]] = Len(batches'[i])
               /\ prev_span'[batches'[i][1]] = FirstOf(i + 1)'
    <3>1. Chained(batches[i][1], batches[i])'
      <4> DEFINE b == rem[i]
      <4>1. /\ b[1] = SpanAt(b, 1)
            /\ \A j \in 1..Len(b) : next_span'[b[j]] = SpanAt(b, j + 1)
        BY <2>1
      <4>2. batches'[i] = b
        BY <1>3
      <4> HIDE DEF b
      <4> QED BY <4>1, <4>2 DEF Chained, SpanAt
    <3> QED BY <1>3, <2>1, <3>1
  <2> QED BY <1>3, <2>2 DEF BatchesLinked
<1>8. CachedOnce'
  <2>1. ASSUME NEW i \in 1..Len(rem), NEW j \in 1..Len(rem), i # j
        PROVE  Range(rem[i]) \cap Range(rem[j]) = {}
    <3>1. i + 1 # j + 1
      BY <2>1
    <3> QED BY <1>1, <1>5, <3>1 DEF CachedOnce
  <2>2. \A i \in 1..Len(rem) : NoRepeat(rem[i])
    BY <1>1, <1>5 DEF CachedOnce
  <2> QED BY <1>3, <2>1, <2>2 DEF CachedOnce
<1>9. SpansIn(batches)' = SpansIn(rem) /\ CachedCount' = Cardinality(SpansIn(rem))
  BY <1>3 DEF CachedCount, SpansIn
<1> QED BY <1>6, <1>7, <1>8, <1>9 DEF rem

\* A thread that finds the head it has loaded takes the first sublist.
LEMMA ExtractGrabsStep ==
  ASSUME IInv, NEW t \in Thread, ExtractGrabs(t)
  PROVE  IInv'
<1> DEFINE b == batches[1]
           rem == Tail(batches)
<1>1. /\ ThreadOK(t) /\ pc[t] = "grab" /\ ~CleaningUp
      /\ global = seen[t] /\ global # Token /\ global' = Token
      /\ moving' = [moving EXCEPT ![t] = Head(batches)]
      /\ batches' = rem
      /\ pc' = [pc EXCEPT ![t] = "publish"]
      /\ UNCHANGED <<headers, span_cache, mapped, used, seen, first, size, rest, local>>
  BY NobodyCleans DEF IInv, ExtractGrabs, Goto
<1>2. /\ OnceEach(t) /\ LocalOK(t) /\ moving[t] = <<>> /\ seen[t] # Empty
      /\ Apart /\ TokenHeld /\ BatchesLinked /\ CachedOnce
      /\ seen[t] = Packed(FirstOf(1), CachedCount)
  BY <1>1 DEF ThreadOK, MovingOK, IInv, HeadExact
<1>3. batches # <<>> /\ FirstOf(1) = b[1] /\ 1 \in 1..Len(batches)
  BY <1>2, CountsNothing DEF Packed, Empty
<1>4. /\ b \in Seq(Span) /\ b # <<>> /\ Chained(b[1], b)
      /\ list_size[b[1]] = Len(b) /\ prev_span[b[1]] = FirstOf(2) /\ NoRepeat(b)
      /\ b[1] \in Span
  BY <1>3, BatchFacts
<1>5. /\ b = Head(batches) /\ rem \in Seq(Seq(Span))
      /\ Len(batches) \in Nat \ {0} /\ Len(rem) = Len(batches) - 1
      /\ \A i \in 1..(Len(batches) - 1) : rem[i] = batches[i + 1]
      /\ SpansIn(batches) = Range(b) \cup SpansIn(rem)
      /\ Range(b) \cap SpansIn(rem) = {}
      /\ CachedCount = Len(b) + Cardinality(SpansIn(rem))
  BY <1>2, <1>3, DropSublist, Types DEF CachedOnce, CachedCount
<1> HIDE DEF b, rem
<1>6. /\ moving'[t] = b /\ pc'[t] = "publish"
      /\ \A u \in Thread : u # t => moving'[u] = moving[u] /\ pc'[u] = pc[u]
  BY <1>1, <1>5, Types DEF TypeOK
<1>7. TypeOK'
  <2>1. moving' \in [Thread -> Seq(Span)]
    BY <1>1, <1>4, <1>5, Types
  <2> QED BY <1>1, <1>5, <2>1, Types DEF TypeOK, headers
<1>8. StepOf(t, {})
  BY <1>1, <1>6 DEF StepOf, Writes, headers
<1>9. \A u \in Thread : u # t => ThreadOK(u)' /\ Has(u)' = Has(u)
  BY <1>8, OthersKept
<1>10. Has(t)' = Has(t) \cup Range(b) /\ Range(b) \cap Has(t) = {}
  <2>1. Has(t) \cap Range(b) = {}
    BY <1>2, <1>5 DEF Apart
  <2> QED BY <1>1, <1>2, <1>6, <2>1, EmptyFacts DEF Has
<1>11. OnceEach(t)'
  BY <1>1, <1>2, <1>4, <1>6, <1>10 DEF OnceEach, Has
<1>12. LocalOK(t)'
  BY <1>1, <1>2, <1>6 DEF LocalOK, LocalHead, Finalizing, Chained, SpanAt, headers
<1>13. MovingOK(t)'
  <2>1. next_span' = next_span /\ list_size' = list_size /\ seen'[t] = seen[t] /\ seen[t].span = b[1]
    BY <1>1, <1>2, <1>3 DEF headers, Packed
  <2>2. seen[t] # Token
    BY <1>1
  <2> QED BY <1>4, <1>6, <2>1, <2>2 DEF MovingOK, Chained, SpanAt
<1>14. \A u \in Thread : ThreadOK(u)'
  BY <1>9, <1>11, <1>12, <1>13 DEF ThreadOK
<1>15. /\ BatchesLinked' /\ CachedOnce'
       /\ FirstOf(1)' = FirstOf(2)
       /\ SpansIn(batches)' = SpansIn(rem) /\ CachedCount' = Cardinality(SpansIn(rem))
  BY <1>1, <1>3, RestLinked DEF headers, rem
<1>16. Apart'
  <2>1. Has(t)' \cap SpansIn(batches)' = {}
    BY <1>2, <1>5, <1>10, <1>15 DEF Apart
  <2>2. \A u \in Thread : u # t =>
          Has(t)' \cap Has(u) = {} /\ SpansIn(batches)' \cap Has(u) = {}
    BY <1>2, <1>5, <1>10, <1>15 DEF Apart
  <2>3. mapped' = ((mapped \ Has(t)) \ SpansIn(batches)) \cup Has(t)' \cup SpansIn(batches)'
    <3>1. Has(t) \subseteq mapped /\ SpansIn(batches) \subseteq mapped
      BY <1>2 DEF Apart
    <3> QED BY <1>1, <1>5, <1>10, <1>15, <3>1
  <2>4. \A u \in Thread : u # t => Has(u)' = Has(u)
    BY <1>9
  <2> QED BY <1>2, <2>1, <2>2, <2>3, <2>4, ApartStep
<1>17. TokenHeld'
  <2>1. \A u \in Thread : pc[u] # "publish"
    BY <1>1, <1>2 DEF TokenHeld
  <2>2. prev_span'[seen'[t].span] = FirstOf(1)' /\ seen'[t].count = Len(moving'[t]) + CachedCount'
    BY <1>1, <1>2, <1>3, <1>4, <1>5, <1>6, <1>15 DEF Packed, headers
  <2>3. \A u \in Thread : pc'[u] = "publish" <=> u = t
    BY <1>6, <2>1
  <2> QED BY <1>1, <2>2, <2>3 DEF TokenHeld
<1>18. HeadExact' /\ CleansAlone'
  <2>1. \A u \in Thread : pc'[u] # "cleanup"
    BY <1>1, <1>6 DEF CleaningUp
  <2> QED BY <1>1, <2>1 DEF HeadExact, CleansAlone
<1> QED BY <1>7, <1>14, <1>15, <1>16, <1>17, <1>18 DEF IInv

\* The thread that holds the token puts the rest of the cache back and takes
\* the sublist it has extracted for its heap.
LEMMA ExtractPublishesStep ==
  ASSUME IInv, NEW t \in Thread, ExtractPublishes(t)
  PROVE  IInv'
<1> DEFINE s == seen[t].span
           chain == moving[t]
<1>1. /\ ThreadOK(t) /\ pc[t] = "publish" /\ ~CleaningUp
      /\ global' = HeadAfter(s, seen[t].count)
      /\ TakeHead(t, s, chain)
      /\ moving' = [moving EXCEPT ![t] = <<>>]
      /\ seen' = [seen EXCEPT ![t] = Empty]
      /\ pc' = [pc EXCEPT ![t] = "idle"]
      /\ UNCHANGED <<mapped, first, size, rest, batches>>
  BY NobodyCleans DEF IInv, ExtractPublishes, Goto
<1>2. /\ OnceEach(t) /\ seen[t] # Token /\ chain # <<>> /\ Chained(s, chain)
      /\ list_size[s] = Len(chain) /\ chain \in Seq(Span) /\ NoRepeat(chain)
      /\ span_cache[t] = Null /\ local[t] \in Seq(Span) /\ Chained(span_cache[t], local[t])
      /\ Apart /\ TokenHeld
  BY <1>1, Types DEF ThreadOK, OnceEach, MovingOK, LocalOK, LocalHead, Finalizing, IInv
<1>3. local[t] = <<>>
  BY <1>2, ChainHead
<1>4. /\ prev_span[s] = FirstOf(1) /\ seen[t].count = Len(chain) + CachedCount
      /\ \A u \in Thread : pc[u] = "publish" => u = t
  BY <1>1, <1>2 DEF TokenHeld
<1> HIDE DEF s, chain
<1>5. /\ s \in Range(chain) /\ s \in Span
      /\ Tail(chain) \in Seq(Span) /\ NoRepeat(Tail(chain))
      /\ Range(Tail(chain)) = Range(chain) \ {s}
      /\ local'[t] = Tail(chain) /\ used'[t] = used[t] \cup {s}
      /\ span_cache'[t] = SpanAt(Tail(chain), 1)
      /\ \A i \in 1..Len(Tail(chain)) :
           next_span'[Tail(chain)[i]] = SpanAt(Tail(chain), i + 1)
      /\ span_cache'[t] # Null => list_size'[span_cache'[t]] = Len(Tail(chain))
      /\ \A x \in Span \ Range(chain) : /\ next_span'[x] = next_span[x]
                                        /\ prev_span'[x] = prev_span[x]
                                        /\ list_size'[x] = list_size[x]
      /\ \A u \in Thread : u # t =>
           span_cache'[u] = span_cache[u] /\ used'[u] = used[u] /\ local'[u] = local[u]
      /\ next_span' \in [Span -> SpanOrNull]
      /\ prev_span' \in [Span -> SpanOrNull]
      /\ list_size' \in [Span -> Nat]
      /\ span_cache' \in [Thread -> SpanOrNull]
      /\ used' \in [Thread -> SUBSET Span]
      /\ local' \in [Thread -> Seq(Span)]
  BY <1>1, <1>2, TakeHeadFacts
<1>6. /\ moving'[t] = <<>> /\ pc'[t] = "idle" /\ seen'[t] = Empty
      /\ \A u \in Thread : u # t =>
           moving'[u] = moving[u] /\ pc'[u] = pc[u] /\ seen'[u] = seen[u]
  BY <1>1, Types DEF TypeOK
<1>7. Writes(t, Range(chain)) /\ Range(chain) \subseteq Has(t)
  BY <1>1, <1>5, <1>6 DEF Writes, Has, chain
<1>8. StepOf(t, Range(chain)) /\ Range(chain) \cap SpansIn(batches) = {}
  BY <1>7, OwnSpans
<1>9. \A u \in Thread : u # t => ThreadOK(u)' /\ Has(u)' = Has(u)
  BY <1>8, OthersKept
<1>10. /\ BatchesLinked' /\ CachedOnce'
       /\ FirstOf(1)' = FirstOf(1) /\ CachedCount' = CachedCount
       /\ SpansIn(batches)' = SpansIn(batches)
  BY <1>1, <1>8, BatchesKept
<1>11. global' = Packed(FirstOf(1), CachedCount) /\ CachedCount \in 0..MaxCount
  <2>1. CachedCount \in Nat /\ Len(chain) \in Nat \ {0}
    BY <1>2, CountsNothing
  <2>2. seen[t].count \in 0..MaxCount
    BY <1>2, Types DEF CacheHead
  <2>3. CachedCount \in 0..MaxCount
    BY <1>4, <2>1, <2>2, BoundAssumption
  <2>4. CASE CachedCount = 0
    <3>1. FirstOf(1) = Null
      BY <2>4, CountsNothing
    <3>2. seen[t].count = list_size[s]
      BY <1>2, <1>4, <2>1, <2>4
    <3>3. global' = Empty
      BY <1>1, <3>2 DEF HeadAfter
    <3> QED BY <2>3, <2>4, <3>1, <3>3 DEF Packed, Empty
  <2>5. CASE CachedCount # 0
    <3>1. seen[t].count # list_size[s] /\ seen[t].count - list_size[s] = CachedCount
      BY <1>2, <1>4, <2>1, <2>5
    <3> QED BY <1>1, <1>4, <2>3, <3>1 DEF HeadAfter
  <2> QED BY <2>3, <2>4, <2>5
<1>12. TypeOK'
  <2>1. FirstOf(1) \in SpanOrNull
    BY CountsNothing, BatchFacts DEF SpanOrNull
  <2>2. global' \in CacheHead /\ Empty \in CacheHead
    BY <1>11, <2>1, BoundAssumption DEF CacheHead, Packed, Empty, SpanOrNull
  <2>3. <<>> \in Seq(Span)
    OBVIOUS
  <2>4. moving' \in [Thread -> Seq(Span)] /\ seen' \in [Thread -> CacheHead \cup {Token}]
    BY <1>1, <2>2, <2>3, Types
  <2> QED BY <1>1, <1>5, <2>2, <2>4, Types DEF TypeOK
<1>13. OnceEach(t)' /\ Has(t)' = Has(t)
  <2>1. chain = moving[t]
    BY DEF chain
  <2>2. IsFiniteSet(used[t] \cup {s})
    BY <1>2, FS_AddElement DEF OnceEach
  <2> QED BY <1>2, <1>3, <1>5, <1>6, <2>1, <2>2, EmptyFacts DEF OnceEach, Has
<1>14. LocalOK(t)'
  BY <1>5, <1>6, SMTT(30) DEF LocalOK, LocalHead, Finalizing, Chained, SpanAt
<1>15. MovingOK(t)'
  BY <1>6 DEF MovingOK
<1>16. \A u \in Thread : ThreadOK(u)'
  BY <1>9, <1>13, <1>14, <1>15 DEF ThreadOK
<1>17. Apart'
  <2>1. /\ Has(t)' \cap SpansIn(batches)' = {}
        /\ \A u \in Thread : u # t =>
             Has(t)' \cap Has(u) = {} /\ SpansIn(batches)' \cap Has(u) = {}
    BY <1>2, <1>10, <1>13 DEF Apart
  <2>2. mapped' = ((mapped \ Has(t)) \ SpansIn(batches)) \cup Has(t)' \cup SpansIn(batches)'
    <3>1. Has(t) \subseteq mapped /\ SpansIn(batches) \subseteq mapped
      BY <1>2 DEF Apart
    <3> QED BY <1>1, <1>10, <1>13, <3>1
  <2>3. \A u \in Thread : u # t => Has(u)' = Has(u)
    BY <1>9
  <2> QED BY <1>2, <2>1, <2>2, <2>3, ApartStep
<1>18. \A u \in Thread : pc'[u] # "publish" /\ pc'[u] # "cleanup"
  BY <1>1, <1>4, <1>6 DEF CleaningUp
<1>19. global' # Token
  <2>1. FirstOf(1) \in Span \cup {Null}
    BY CountsNothing, BatchFacts
  <2>2. global' \in [span : Span \cup {Null}, count : Nat]
    BY <1>11, <2>1 DEF Packed
  <2> QED BY <2>2, TokenAssumption
<1>20. HeadExact'
  BY <1>10, <1>11 DEF HeadExact, Packed
<1>21. TokenHeld' /\ CleansAlone'
  BY <1>18, <1>19 DEF TokenHeld, CleansAlone
<1> QED BY <1>10, <1>12, <1>16, <1>17, <1>20, <1>21 DEF IInv

\* A sublist becomes the first of the global cache, whose head has not
\* changed since its links were written.
LEMMA InsertSwapsStep ==
  ASSUME IInv, NEW t \in Thread, InsertSwaps(t)
  PROVE  IInv'
<1> DEFINE s == first[t]
           b == moving[t]
           c == <<b>> \o batches
<1>1. /\ ThreadOK(t) /\ pc[t] = "swap" /\ ~CleaningUp
      /\ global = seen[t]
      /\ global' = Packed(s, seen[t].count + size[t])
      /\ batches' = c
      /\ moving' = [moving EXCEPT ![t] = <<>>]
      /\ seen' = [seen EXCEPT ![t] = Empty]
      /\ first' = [first EXCEPT ![t] = Null]
      /\ size' = [size EXCEPT ![t] = 0]
      /\ pc' = [pc EXCEPT ![t] = "cut"]
      /\ UNCHANGED <<headers, span_cache, mapped, used, rest, local>>
  BY NobodyCleans DEF IInv, InsertSwaps, Goto
<1>2. /\ OnceEach(t) /\ LocalOK(t) /\ NoRepeat(b) /\ b \in Seq(Span) /\ b # <<>>
      /\ Chained(s, b) /\ size[t] = Len(b) /\ list_size[s] = size[t]
      /\ global # Token /\ prev_span[s] = global.span
      /\ global.count + size[t] <= MaxCount
      /\ Apart /\ TokenHeld /\ BatchesLinked /\ CachedOnce
      /\ global = Packed(FirstOf(1), CachedCount)
  BY <1>1, Types DEF ThreadOK, OnceEach, MovingOK, IInv, HeadExact
<1>3. s = b[1] /\ s \in Span /\ Len(b) \in Nat \ {0}
  BY <1>2, ChainHead
<1>4. batches \in Seq(Seq(Span)) /\ CachedCount \in Nat /\ Range(b) \cap SpansIn(batches) = {}
  BY <1>2, Types, CountsNothing DEF Apart, Has
<1> HIDE DEF s, b, c
<1>5. /\ c \in Seq(Seq(Span)) /\ Len(batches) \in Nat /\ Len(c) = Len(batches) + 1
      /\ c[1] = b /\ \A i \in 2..(Len(batches) + 1) : c[i] = batches[i - 1]
      /\ Tail(c) = batches /\ c # <<>>
  BY <1>2, <1>4, ConsFacts, ConsTail DEF c
<1>6. \A i \in 2..Len(c) : i - 1 \in 1..Len(batches) /\ c[i] = batches[i - 1]
  BY <1>5
<1>7. \A i \in 1..Len(c) : NoRepeat(c[i])
  <2>1. \A i \in 1..Len(c) : i = 1 \/ i \in 2..Len(c)
    BY <1>5
  <2> QED BY <1>2, <1>5, <1>6, <2>1 DEF CachedOnce
<1>8. \A i, j \in 1..Len(c) : i # j => Range(c[i]) \cap Range(c[j]) = {}
  <2>1. \A i \in 1..Len(c) : i = 1 \/ i \in 2..Len(c)
    BY <1>5
  <2>2. \A i \in 1..Len(batches) : Range(batches[i]) \subseteq SpansIn(batches)
    BY DEF SpansIn
  <2>3. \A i \in 2..Len(c) : Range(c[1]) \cap Range(c[i]) = {}
    BY <1>4, <1>5, <1>6, <2>2
  <2>4. ASSUME NEW i \in 2..Len(c), NEW j \in 2..Len(c), i # j
        PROVE  Range(c[i]) \cap Range(c[j]) = {}
    <3>1. i - 1 # j - 1
      BY <2>4
    <3> QED BY <1>2, <1>6, <3>1 DEF CachedOnce
  <2> QED BY <2>1, <2>3, <2>4
<1>9. /\ SpansIn(c) = Range(b) \cup SpansIn(batches)
      /\ Cardinality(SpansIn(c)) = Len(b) + CachedCount
  BY <1>5, <1>7, <1>8, DropSublist DEF CachedCount
<1>10. SpansIn(batches)' = SpansIn(c) /\ CachedCount' = Len(b) + CachedCount
  BY <1>1, <1>9 DEF CachedCount, SpansIn
<1>11. FirstOf(1)' = s /\ \A i \in 1..Len(c) : FirstOf(i + 1)' = FirstOf(i)
  <2>1. FirstOf(1)' = s
    BY <1>1, <1>3, <1>5 DEF FirstOf
  <2>2. ASSUME NEW i \in 1..Len(c) PROVE FirstOf(i + 1)' = FirstOf(i)
    <3>1. CASE i = Len(c)
      BY <1>1, <1>5, <3>1 DEF FirstOf
    <3>2. CASE i # Len(c)
      <4>1. i + 1 \in 2..Len(c) /\ (i + 1) - 1 = i /\ i <= Len(batches) /\ i + 1 <= Len(c)
        BY <1>5, <3>2
      <4> QED BY <1>1, <1>6, <4>1 DEF FirstOf
    <3> QED BY <3>1, <3>2
  <2> QED BY <2>1, <2>2
<1>12. /\ moving'[t] = <<>> /\ pc'[t] = "cut" /\ seen'[t] = Empty
       /\ \A u \in Thread : u # t =>
            /\ moving'[u] = moving[u] /\ pc'[u] = pc[u] /\ seen'[u] = seen[u]
            /\ first'[u] = first[u] /\ size'[u] = size[u]
  BY <1>1, Types DEF TypeOK
<1>13. global' = Packed(FirstOf(1)', CachedCount') /\ global' \in CacheHead
  <2>1. global.count = CachedCount /\ seen[t].count = CachedCount
    BY <1>1, <1>2 DEF Packed
  <2>2. CachedCount + Len(b) = Len(b) + CachedCount /\ Len(b) + CachedCount \in 0..MaxCount
    BY <1>2, <1>3, <1>4, <2>1, BoundAssumption
  <2>3. global' = Packed(s, Len(b) + CachedCount)
    BY <1>1, <1>2, <2>1, <2>2
  <2> QED BY <1>3, <1>10, <1>11, <2>2, <2>3 DEF Packed, CacheHead, SpanOrNull
<1>14. TypeOK'
  <2>1. Null \in SpanOrNull /\ <<>> \in Seq(Span) /\ Empty \in CacheHead
    BY BoundAssumption DEF CacheHead, Empty, SpanOrNull
  <2>2. /\ moving' \in [Thread -> Seq(Span)] /\ seen' \in [Thread -> CacheHead \cup {Token}]
        /\ first' \in [Thread -> SpanOrNull] /\ size' \in [Thread -> Nat]
    BY <1>1, <2>1, Types
  <2> QED BY <1>1, <1>5, <1>13, <2>2, Types DEF TypeOK, headers
<1>15. StepOf(t, {})
  BY <1>1, <1>12 DEF StepOf, Writes, headers
<1>16. \A u \in Thread : u # t => ThreadOK(u)' /\ Has(u)' = Has(u)
  BY <1>15, OthersKept
<1>17. Has(t) = Has(t)' \cup Range(b) /\ Range(b) \cap Has(t)' = {}
  BY <1>1, <1>2, <1>12, EmptyFacts DEF Has, OnceEach, b
<1>18. OnceEach(t)'
  BY <1>1, <1>2, <1>12, EmptyFacts DEF OnceEach
<1>19. LocalOK(t)'
  <2>1. LocalHead(t)' = LocalHead(t)
    BY <1>1, <1>12 DEF LocalHead, Finalizing
  <2>2. span_cache'[t] = span_cache[t] /\ local'[t] = local[t]
    BY <1>1
  <2> QED BY <1>1, <1>2, <2>1, <2>2 DEF LocalOK, Chained, SpanAt, headers
<1>20. MovingOK(t)'
  BY <1>12 DEF MovingOK
<1>21. \A u \in Thread : ThreadOK(u)'
  BY <1>16, <1>18, <1>19, <1>20 DEF ThreadOK
<1>22. BatchesLinked'
  <2>1. ASSUME NEW i \in 1..Len(c)
        PROVE  /\ c[i] # <<>> /\ Chained(c[i][1], c[i])
               /\ list_size[c[i][1]] = Len(c[i])
               /\ prev_span[c[i][1]] = FirstOf(i)
    <3>1. CASE i = 1
      BY <1>2, <1>3, <1>5, <3>1 DEF Packed
    <3>2. CASE i # 1
      <4>1. i \in 2..Len(c) /\ (i - 1) + 1 = i
        BY <1>5, <3>2
      <4>2. i - 1 \in 1..Len(batches) /\ c[i] = batches[i - 1]
        BY <1>6, <4>1
      <4> QED BY <4>1, <4>2, BatchFacts
    <3> QED BY <3>1, <3>2
  <2> QED BY <1>1, <1>11, <2>1 DEF BatchesLinked, Chained, SpanAt, headers
<1>23. CachedOnce'
  BY <1>1, <1>7, <1>8 DEF CachedOnce
<1>24. Apart'
  <2>1. Has(t)' \cap SpansIn(batches)' = {}
    BY <1>2, <1>9, <1>10, <1>17 DEF Apart
  <2>2. \A u \in Thread : u # t =>
          Has(t)' \cap Has(u) = {} /\ SpansIn(batches)' \cap Has(u) = {}
    BY <1>2, <1>9, <1>10, <1>17 DEF Apart
  <2>3. mapped' = ((mapped \ Has(t)) \ SpansIn(batches)) \cup Has(t)' \cup SpansIn(batches)'
    <3>1. Has(t) \subseteq mapped /\ SpansIn(batches) \subseteq mapped
      BY <1>2 DEF Apart
    <3> QED BY <1>1, <1>9, <1>10, <1>17, <3>1
  <2>4. \A u \in Thread : u # t => Has(u)' = Has(u)
    BY <1>16
  <2> QED BY <1>2, <2>1, <2>2, <2>3, <2>4, ApartStep
<1>25. \A u \in Thread : pc'[u] # "publish" /\ pc'[u] # "cleanup"
  BY <1>1, <1>2, <1>12 DEF CleaningUp, TokenHeld
<1>26. global' # Token
  <2>1. FirstOf(1)' \in Span \cup {Null} /\ CachedCount' \in Nat
    BY <1>3, <1>4, <1>10, <1>11
  <2>2. global' \in [span : Span \cup {Null}, count : Nat]
    BY <1>13, <2>1 DEF Packed
  <2> QED BY <2>2, TokenAssumption
<1>27. HeadExact' /\ TokenHeld' /\ CleansAlone'
  BY <1>13, <1>25, <1>26 DEF HeadExact, Packed, TokenHeld, CleansAlone
<1> QED BY <1>14, <1>21, <1>22, <1>23, <1>24, <1>27 DEF IInv
-----------------------------------------------------------------------------
(* rpmalloc_finalize *)

\* What the thread that cleans up knows: it alone is busy and no thread has a
\* span.
LEMMA CleanupAlone ==
  ASSUME IInv, NEW t \in Thread, pc[t] = "cleanup"
  PROVE  /\ ThreadOK(t) /\ Apart /\ TokenHeld
         /\ seen[t] = Packed(FirstOf(1), CachedCount)
         /\ global # Token /\ CleaningUp
         /\ \A u \in Thread : /\ u # t => pc[u] = "idle"
                              /\ used[u] = {} /\ span_cache[u] = Null
                              /\ Has(u) = {} /\ moving[u] = <<>> /\ local[u] = <<>>
         /\ mapped = SpansIn(batches)
<1>1. /\ \A u \in Thread : ThreadOK(u)
      /\ Apart /\ TokenHeld
      /\ seen[t] = Packed(FirstOf(1), CachedCount)
      /\ \A u \in Thread : used[u] = {} /\ span_cache[u] = Null /\ (u # t => pc[u] = "idle")
  BY DEF IInv, CleansAlone
<1>2. ASSUME NEW u \in Thread PROVE Has(u) = {} /\ moving[u] = <<>> /\ local[u] = <<>>
  <2>1. pc[u] \in {"idle", "cleanup"}
    BY <1>1
  <2>2. moving[u] = <<>>
    BY <1>1, <2>1 DEF ThreadOK, MovingOK
  <2>3. local[u] \in Seq(Span) /\ Chained(Null, local[u])
    BY <1>1, <2>1, Types DEF ThreadOK, LocalOK, LocalHead, Finalizing
  <2>4. local[u] = <<>>
    BY <2>3, ChainHead
  <2> QED BY <1>1, <2>2, <2>4, EmptyFacts DEF Has
<1>3. global # Token
  BY <1>1 DEF TokenHeld
<1>4. mapped = SpansIn(batches)
  <2>1. UNION {Has(u) : u \in Thread} = {}
    BY <1>2
  <2>2. mapped = (UNION {Has(u) : u \in Thread}) \cup SpansIn(batches)
    BY <1>1 DEF Apart
  <2> QED BY <2>1, <2>2
<1> QED BY <1>1, <1>2, <1>3, <1>4 DEF CleaningUp

\* The last thread to leave starts to clean up.
LEMMA CleanupStep ==
  ASSUME IInv, NEW t \in Thread, Cleanup(t)
  PROVE  IInv'
<1>1. /\ \A u \in Thread : pc[u] = "idle" /\ span_cache[u] = Null /\ used[u] = {}
      /\ seen' = [seen EXCEPT ![t] = global]
      /\ pc' = [pc EXCEPT ![t] = "cleanup"]
      /\ UNCHANGED <<headers, span_cache, global, mapped, used, first, size, rest, histories>>
  BY DEF Cleanup, Goto
<1>2. ~CleaningUp /\ Apart /\ TokenHeld /\ BatchesLinked /\ CachedOnce
  BY <1>1 DEF CleaningUp, IInv
<1>3. global # Token /\ global = Packed(FirstOf(1), CachedCount)
  BY <1>1, <1>2 DEF TokenHeld, IInv, HeadExact
<1>4. /\ pc'[t] = "cleanup" /\ seen'[t] = global
      /\ \A u \in Thread : u # t => pc'[u] = "idle" /\ seen'[u] = seen[u]
  BY <1>1, Types DEF TypeOK
<1>5. TypeOK'
  <2>1. TypeOK
    BY Types
  <2>2. seen' \in [Thread -> CacheHead \cup {Token}]
    BY <1>1, <2>1 DEF TypeOK
  <2> QED BY <1>1, <2>1, <2>2 DEF TypeOK, headers, histories
<1>6. \A u \in Thread : ThreadOK(u)'
  <2>1. ASSUME NEW u \in Thread PROVE ThreadOK(u)'
    <3>1. ThreadOK(u)
      BY DEF IInv
    <3>2. OnceEach(u)'
      BY <1>1, <3>1 DEF ThreadOK, OnceEach, histories
    <3>3. pc'[u] \in {"idle", "cleanup"}
      BY <1>4
    <3>4. LocalOK(u)'
      BY <1>1, <3>1, <3>3 DEF ThreadOK, LocalOK, LocalHead, Finalizing, Chained, SpanAt,
                              headers, histories
    <3>5. MovingOK(u)'
      BY <1>1, <3>1, <3>3 DEF ThreadOK, MovingOK, histories
    <3> QED BY <3>2, <3>4, <3>5 DEF ThreadOK
  <2> QED BY <2>1
<1>7. BatchesLinked' /\ CachedOnce'
  BY <1>1, <1>2 DEF BatchesLinked, CachedOnce, FirstOf, Chained, SpanAt, headers, histories
<1>8. /\ \A u \in Thread : Has(u)' = Has(u)
      /\ SpansIn(batches)' = SpansIn(batches)
      /\ CachedCount' = CachedCount /\ FirstOf(1)' = FirstOf(1)
  BY <1>1 DEF Has, SpansIn, CachedCount, FirstOf, histories
<1>9. Apart'
  BY <1>1, <1>2, <1>8 DEF Apart
<1>10. HeadExact' /\ TokenHeld'
  BY <1>1, <1>3, <1>4 DEF HeadExact, TokenHeld, CleaningUp
<1>11. CleansAlone'
  BY <1>1, <1>3, <1>4, <1>8 DEF CleansAlone, Packed
<1> QED BY <1>5, <1>6, <1>7, <1>9, <1>10, <1>11 DEF IInv

\* One sublist is unmapped.
LEMMA CleanupSublistStep ==
  ASSUME IInv, NEW t \in Thread, CleanupSublist(t)
  PROVE  IInv' /\ CleaningUp'
<1> DEFINE s == seen[t].span
           b == batches[1]
           rem == Tail(batches)
           S == SublistOf(s)
<1>1. /\ pc[t] = "cleanup" /\ seen[t].count # 0
      /\ mapped' = mapped \ S
      /\ next_span' = [x \in Span |-> IF x \in S THEN Null ELSE next_span[x]]
      /\ prev_span' = [x \in Span |-> IF x \in S THEN Null ELSE prev_span[x]]
      /\ list_size' = [x \in Span |-> IF x \in S THEN 0 ELSE list_size[x]]
      /\ seen' = [seen EXCEPT ![t] = Packed(prev_span[s], seen[t].count - list_size[s])]
      /\ batches' = rem
      /\ UNCHANGED <<span_cache, global, used, pc, first, size, rest, local, moving>>
  BY Types DEF CleanupSublist, Unmapped
<1>2. /\ ThreadOK(t) /\ Apart /\ TokenHeld
      /\ seen[t] = Packed(FirstOf(1), CachedCount)
      /\ global # Token /\ CleaningUp
      /\ \A u \in Thread : /\ u # t => pc[u] = "idle"
                           /\ used[u] = {} /\ span_cache[u] = Null
                           /\ Has(u) = {} /\ moving[u] = <<>> /\ local[u] = <<>>
      /\ mapped = SpansIn(batches) /\ CachedOnce
  BY <1>1, CleanupAlone DEF IInv
<1>3. /\ batches # <<>> /\ s = b[1] /\ 1 \in 1..Len(batches)
      /\ CachedCount \in Nat /\ seen[t].count = CachedCount
  BY <1>1, <1>2, CountsNothing DEF Packed
<1>4. /\ b \in Seq(Span) /\ b # <<>> /\ Chained(s, b)
      /\ list_size[s] = Len(b) /\ prev_span[s] = FirstOf(2) /\ NoRepeat(b) /\ s \in Span
  BY <1>3, BatchFacts
<1>5. /\ rem \in Seq(Seq(Span))
      /\ SpansIn(batches) = Range(b) \cup SpansIn(rem)
      /\ Range(b) \cap SpansIn(rem) = {}
      /\ Cardinality(SpansIn(rem)) \in Nat
      /\ CachedCount = Len(b) + Cardinality(SpansIn(rem))
  BY <1>2, <1>3, DropSublist, Types DEF CachedOnce, CachedCount
<1>6. S = Range(b)
  <2>1. \A k \in 0..Len(b) : Along(s, k) = SpanAt(b, k + 1)
    BY <1>4, AlongChain
  <2>2. Range(b) = {b[i] : i \in 1..Len(b)} /\ Len(b) \in Nat
    BY <1>4, RangeFacts
  <2>3. ASSUME NEW k \in 0..(Len(b) - 1) PROVE Along(s, k) = b[k + 1] /\ k + 1 \in 1..Len(b)
    BY <2>1, <2>2 DEF SpanAt
  <2>4. ASSUME NEW i \in 1..Len(b) PROVE i - 1 \in 0..(Len(b) - 1) /\ Along(s, i - 1) = b[i]
    <3>1. i - 1 \in 0..(Len(b) - 1) /\ (i - 1) + 1 = i
      BY <2>2
    <3> QED BY <3>1, <2>3
  <2>5. S = {Along(s, k) : k \in 0..(Len(b) - 1)}
    BY <1>4 DEF SublistOf
  <2> HIDE DEF S, b, s
  <2>6. ASSUME NEW x PROVE x \in S <=> x \in Range(b)
    <3>1. ASSUME x \in S PROVE x \in Range(b)
      <4>1. PICK k \in 0..(Len(b) - 1) : x = Along(s, k)
        BY <2>5, <3>1
      <4> QED BY <2>2, <2>3, <4>1
    <3>2. ASSUME x \in Range(b) PROVE x \in S
      <4>1. PICK i \in 1..Len(b) : x = b[i]
        BY <2>2, <3>2
      <4> QED BY <2>4, <2>5, <4>1
    <3> QED BY <3>1, <3>2
  <2> QED BY <2>6
<1> HIDE DEF s, b, rem, S
<1>7. \A x \in Span \ S : /\ next_span'[x] = next_span[x]
                          /\ prev_span'[x] = prev_span[x]
                          /\ list_size'[x] = list_size[x]
  BY <1>1
<1>8. /\ BatchesLinked' /\ CachedOnce'
      /\ FirstOf(1)' = FirstOf(2)
      /\ SpansIn(batches)' = SpansIn(rem) /\ CachedCount' = Cardinality(SpansIn(rem))
  <2>1. SpansIn(rem) \subseteq Span \ S
    <3>1. mapped \subseteq Span
      BY Types DEF TypeOK
    <3> QED BY <1>2, <1>5, <1>6, <3>1
  <2>2. \A x \in SpansIn(rem) : /\ next_span'[x] = next_span[x]
                                /\ prev_span'[x] = prev_span[x]
                                /\ list_size'[x] = list_size[x]
    BY <1>7, <2>1
  <2> QED BY <1>1, <1>3, <2>2, RestLinked DEF rem
<1>9. /\ seen'[t] = Packed(FirstOf(2), Cardinality(SpansIn(rem)))
      /\ \A u \in Thread : u # t => seen'[u] = seen[u]
  <2>1. seen[t].count - list_size[s] = Cardinality(SpansIn(rem))
    BY <1>3, <1>4, <1>5
  <2> QED BY <1>1, <1>4, <2>1, Types
<1>10. TypeOK'
  <2>1. /\ next_span' \in [Span -> SpanOrNull] /\ prev_span' \in [Span -> SpanOrNull]
        /\ list_size' \in [Span -> Nat]
    BY <1>1, Types DEF SpanOrNull
  <2>2. CachedCount \in 0..MaxCount
    <3>1. seen[t] \in CacheHead
      <4>1. seen[t] # Token
        <5>1. FirstOf(1) \in Span \cup {Null}
          BY <1>3, <1>4, CountsNothing DEF b
        <5>2. seen[t] \in [span : Span \cup {Null}, count : Nat]
          BY <1>2, <1>3, <5>1 DEF Packed
        <5> QED BY <5>2, TokenAssumption
      <4> QED BY <4>1, Types
    <3> QED BY <1>3, <3>1 DEF CacheHead
  <2>3. Packed(FirstOf(2), Cardinality(SpansIn(rem))) \in CacheHead
    <3>1. Cardinality(SpansIn(rem)) \in 0..MaxCount
      <4>1. Len(b) \in Nat
        BY <1>4
      <4> QED BY <1>5, <2>2, <4>1, BoundAssumption
    <3>2. FirstOf(2) \in SpanOrNull
      BY <1>4, Types
    <3> QED BY <3>1, <3>2 DEF Packed, CacheHead
  <2>4. seen' \in [Thread -> CacheHead \cup {Token}]
    BY <1>1, <1>9, <2>3, Types
  <2> QED BY <1>1, <1>5, <2>1, <2>4, Types DEF TypeOK
<1>11. \A u \in Thread : ThreadOK(u)' /\ Has(u)' = Has(u)
  <2>1. StepOf(t, S)
    BY <1>1, <1>2, <1>7, <1>9 DEF StepOf, Writes
  <2>2. \A u \in Thread : u # t => ThreadOK(u)' /\ Has(u)' = Has(u)
    BY <2>1, OthersKept
  <2>3. OnceEach(t)' /\ Has(t)' = Has(t)
    BY <1>1, <1>2 DEF ThreadOK, OnceEach, Has
  <2>4. LocalOK(t)'
    <3>1. Len(<<>>) = 0 /\ 1..0 = {}
      BY EmptyFacts
    <3> QED BY <1>1, <1>2, <3>1 DEF LocalOK, LocalHead, Finalizing, Chained, SpanAt
  <2>5. MovingOK(t)'
    BY <1>1, <1>2 DEF MovingOK
  <2> QED BY <2>2, <2>3, <2>4, <2>5 DEF ThreadOK
<1>12. Apart'
  <2>1. mapped' = SpansIn(rem)
    BY <1>1, <1>2, <1>5, <1>6
  <2>2. /\ Has(t)' \cap SpansIn(batches)' = {}
        /\ \A u \in Thread : u # t =>
             Has(t)' \cap Has(u) = {} /\ SpansIn(batches)' \cap Has(u) = {}
    BY <1>2, <1>11
  <2>3. mapped' = ((mapped \ Has(t)) \ SpansIn(batches)) \cup Has(t)' \cup SpansIn(batches)'
    BY <1>2, <1>8, <1>11, <2>1
  <2>4. \A u \in Thread : u # t => Has(u)' = Has(u)
    BY <1>11
  <2> QED BY <1>2, <2>2, <2>3, <2>4, ApartStep
<1>13. CleaningUp' /\ HeadExact' /\ TokenHeld'
  BY <1>1, <1>2 DEF HeadExact, TokenHeld, CleaningUp
<1>14. CleansAlone'
  BY <1>1, <1>2, <1>8, <1>9 DEF CleansAlone, Packed
<1> QED BY <1>8, <1>10, <1>11, <1>12, <1>13, <1>14 DEF IInv

\* The cache is empty, and nothing is mapped.
LEMMA CleanupEndsStep ==
  ASSUME IInv, NEW t \in Thread, CleanupEnds(t)
  PROVE  IInv' /\ mapped' = {}
<1>1. /\ pc[t] = "cleanup" /\ seen[t].count = 0
      /\ global' = Empty
      /\ seen' = [seen EXCEPT ![t] = Empty]
      /\ pc' = [pc EXCEPT ![t] = "idle"]
      /\ UNCHANGED <<headers, span_cache, mapped, used, first, size, rest, histories>>
  BY DEF CleanupEnds, Goto
<1>2. /\ ThreadOK(t) /\ Apart /\ TokenHeld
      /\ seen[t] = Packed(FirstOf(1), CachedCount)
      /\ global # Token
      /\ \A u \in Thread : /\ u # t => pc[u] = "idle"
                           /\ used[u] = {} /\ span_cache[u] = Null
                           /\ Has(u) = {} /\ moving[u] = <<>> /\ local[u] = <<>>
      /\ mapped = SpansIn(batches)
  BY <1>1, CleanupAlone
<1>3. CachedCount = 0 /\ batches = <<>> /\ SpansIn(batches) = {} /\ FirstOf(1) = Null
  BY <1>1, <1>2, CountsNothing DEF Packed
<1>4. mapped' = {}
  BY <1>1, <1>2, <1>3
<1>5. \A u \in Thread : pc'[u] = "idle"
  BY <1>1, <1>2, Types DEF TypeOK
<1>6. /\ seen'[t] = Empty /\ \A u \in Thread : u # t => seen'[u] = seen[u]
  BY <1>1, Types
<1>7. Empty \in CacheHead /\ Empty # Token
  BY BoundAssumption, TokenAssumption DEF Empty, CacheHead, SpanOrNull
<1>8. TypeOK'
  <2>1. TypeOK
    BY Types
  <2>2. seen' \in [Thread -> CacheHead \cup {Token}]
    BY <1>1, <1>7, <2>1 DEF TypeOK
  <2> QED BY <1>1, <1>7, <2>1, <2>2 DEF TypeOK, headers, histories
<1>9. \A u \in Thread : ThreadOK(u)'
  <2>1. ASSUME NEW u \in Thread PROVE ThreadOK(u)'
    <3>1. ThreadOK(u) /\ pc[u] \in {"idle", "cleanup"} /\ pc'[u] = "idle" /\ moving[u] = <<>>
      BY <1>1, <1>2, <1>5 DEF IInv
    <3>2. OnceEach(u)'
      BY <1>1, <3>1 DEF ThreadOK, OnceEach, histories
    <3>3. LocalOK(u)'
      BY <1>1, <3>1 DEF ThreadOK, LocalOK, LocalHead, Finalizing, Chained, SpanAt,
                        headers, histories
    <3>4. MovingOK(u)'
      BY <1>1, <3>1 DEF MovingOK, histories
    <3> QED BY <3>2, <3>3, <3>4 DEF ThreadOK
  <2> QED BY <2>1
<1>10. BatchesLinked' /\ CachedOnce'
  <2>1. 1..Len(<<>>) = {}
    BY EmptyFacts
  <2> QED BY <1>1, <1>3, <2>1 DEF BatchesLinked, CachedOnce, histories
<1>11. /\ \A u \in Thread : Has(u)' = Has(u)
       /\ SpansIn(batches)' = SpansIn(batches)
       /\ CachedCount' = CachedCount /\ FirstOf(1)' = FirstOf(1)
  BY <1>1 DEF Has, SpansIn, CachedCount, FirstOf, histories
<1>12. Apart'
  BY <1>1, <1>2, <1>11 DEF Apart
<1>13. HeadExact' /\ TokenHeld' /\ CleansAlone'
  BY <1>1, <1>3, <1>5, <1>7, <1>11 DEF HeadExact, TokenHeld, CleansAlone, Packed, Empty
<1> QED BY <1>4, <1>8, <1>9, <1>10, <1>12, <1>13 DEF IInv
-----------------------------------------------------------------------------
(* The specification *)

\* Nobody has a span at the start.
LEMMA InitIInv == Init => IInv
<1> SUFFICES ASSUME Init PROVE IInv
  OBVIOUS
<1> USE DEF Init
<1>1. Range(<<>>) = {} /\ NoRepeat(<<>>) /\ Len(<<>>) = 0 /\ 1..0 = {}
  BY EmptyFacts
<1>2. TypeOK
  <2>1. Null \in SpanOrNull /\ <<>> \in Seq(Span) /\ <<>> \in Seq(Seq(Span))
        /\ Empty \in CacheHead
    BY BoundAssumption DEF CacheHead, Empty, SpanOrNull
  <2> HIDE DEF Empty, CacheHead, SpanOrNull
  <2> QED BY <2>1 DEF TypeOK
<1>3. \A t \in Thread : Has(t) = {}
  BY <1>1 DEF Has
<1>4. SpansIn(batches) = {} /\ FirstOf(1) = Null
  BY <1>1 DEF SpansIn, FirstOf
<1>5. ASSUME NEW t \in Thread PROVE ThreadOK(t)
  <2>1. OnceEach(t)
    BY <1>1, FS_EmptySet DEF OnceEach
  <2>2. LocalOK(t)
    BY <1>1 DEF LocalOK, LocalHead, Finalizing, Chained, SpanAt
  <2>3. MovingOK(t)
    BY DEF MovingOK
  <2> QED BY <2>1, <2>2, <2>3 DEF ThreadOK
<1>6. BatchesLinked /\ CachedOnce
  BY <1>1 DEF BatchesLinked, CachedOnce
<1>7. Apart
  BY <1>3, <1>4 DEF Apart
<1>8. CachedCount = 0
  BY <1>4, FS_EmptySet DEF CachedCount
<1>9. HeadExact
  BY <1>4, <1>8 DEF HeadExact, Packed, Empty
<1>10. TokenHeld
  <2>1. Empty # Token
    BY TokenAssumption DEF Empty
  <2> QED BY <2>1 DEF TokenHeld
<1>11. CleansAlone
  BY DEF CleansAlone
<1> QED BY <1>2, <1>5, <1>6, <1>7, <1>9, <1>10, <1>11 DEF IInv

\* Nothing changes.
LEMMA StutterIInv ==
  ASSUME IInv, UNCHANGED vars
  PROVE  IInv'
<1> USE DEF vars, headers, locals, histories
<1>1. TypeOK'
  BY DEF IInv, TypeOK
<1>2. ASSUME NEW t \in Thread PROVE ThreadOK(t)'
  <2>1. ThreadOK(t)
    BY DEF IInv
  <2> QED BY <2>1 DEF ThreadOK, OnceEach, LocalOK, LocalHead, MovingOK, Chained, SpanAt
<1>3. BatchesLinked' /\ CachedOnce'
  BY DEF IInv, BatchesLinked, CachedOnce, Chained, SpanAt, FirstOf
<1>4. Apart'
  <2>1. /\ \A t \in Thread : Has(t)' = Has(t)
        /\ SpansIn(batches)' = SpansIn(batches) /\ mapped' = mapped
    BY DEF Has, SpansIn
  <2>2. Apart
    BY DEF IInv
  <2> QED BY <2>1, <2>2 DEF Apart
<1>5. CachedCount' = CachedCount /\ FirstOf(1)' = FirstOf(1) /\ CleaningUp' = CleaningUp
  BY DEF CachedCount, SpansIn, FirstOf, CleaningUp
<1>6. HeadExact' /\ TokenHeld' /\ CleansAlone'
  BY <1>5 DEF IInv, HeadExact, TokenHeld, CleansAlone, Packed
<1> QED BY <1>1, <1>2, <1>3, <1>4, <1>6 DEF IInv

\* Every step keeps the invariant.
LEMMA StepIInv == IInv /\ [Next]_vars => IInv'
<1> SUFFICES ASSUME IInv, [Next]_vars PROVE IInv'
  OBVIOUS
<1>1. CASE UNCHANGED vars
  BY <1>1, StutterIInv
<1>2. ASSUME NEW t \in Thread, Call(t) PROVE IInv'
  <2>1. CASE \E s \in Span : CacheInsert(t, s)
    BY <2>1, CacheInsertStep
  <2> QED BY <1>2, <2>1, TakeCachedStep, ControlSteps, CleanupStep DEF Call
<1>3. ASSUME NEW t \in Thread, Continue(t) PROVE IInv'
  BY <1>3, ControlSteps, ExtractGrabsStep, ExtractPublishesStep, MapStep,
     FinalizeSublistStep, FinalizeRestStep, InsertLinksStep, InsertSwapsStep, ReleaseStep,
     CleanupSublistStep, CleanupEndsStep DEF Continue
<1> QED BY <1>1, <1>2, <1>3 DEF Next

\* The inductive invariant: every chain of free spans, wherever it is, is what
\* its links and its length say, every mapped span is in one place, and the
\* packed word in the global cache counts what the cache holds
\* (rpmalloc.c:471-571, 763-798, 1071-1087, 1698-1732).
THEOREM IInvInvariant == Spec => []IInv
  BY InitIInv, StepIInv, PTL DEF Spec

\* The inductive invariant says what the caches promise.
LEMMA IInvImpliesCachesIntact == IInv => CachesIntact
<1> SUFFICES ASSUME IInv PROVE CachesIntact
  OBVIOUS
<1>1. TypeOK /\ BatchesLinked /\ HeadExact /\ Apart /\ CachedOnce /\ TokenHeld
  BY DEF IInv
<1>2. LocalExact
  <2>1. ASSUME NEW t \in Thread,
               pc[t] \in {"idle", "cut", "insert", "swap", "release"}
        PROVE  /\ Chained(LocalHead(t), local[t])
               /\ LocalHead(t) # Null => list_size[LocalHead(t)] = Len(local[t])
               /\ LocalHead(t) = IF pc[t] = "idle" THEN span_cache[t] ELSE rest[t]
    <3>1. ThreadOK(t)
      BY DEF IInv
    <3> QED BY <2>1, <3>1 DEF ThreadOK, LocalOK, LocalHead, Finalizing
  <2> QED BY <2>1 DEF LocalExact
<1>3. ASSUME NEW t \in Thread
      PROVE  Cardinality(Has(t)) = Cardinality(used[t]) + Len(local[t]) + Len(moving[t])
  <2>1. OnceEach(t) /\ local[t] \in Seq(Span) /\ moving[t] \in Seq(Span)
    BY Types DEF IInv, ThreadOK
  <2>2. /\ IsFiniteSet(Range(local[t])) /\ Cardinality(Range(local[t])) = Len(local[t])
        /\ IsFiniteSet(Range(moving[t])) /\ Cardinality(Range(moving[t])) = Len(moving[t])
        /\ IsFiniteSet(used[t])
    BY <2>1, NoRepeatCardinality DEF OnceEach
  <2> DEFINE A == used[t]
             B == Range(local[t])
             C == Range(moving[t])
  <2>3. Cardinality(A) \in Nat /\ Cardinality(B) \in Nat /\ Cardinality(C) \in Nat
    BY <2>2, FS_CardinalityType
  <2>4. A \cap B = {} /\ (A \cup B) \cap C = {} /\ Cardinality({}) = 0
    BY <2>1, FS_EmptySet DEF OnceEach
  <2>5. Has(t) = (A \cup B) \cup C
    BY DEF Has
  <2>6. IsFiniteSet(A) /\ IsFiniteSet(B) /\ IsFiniteSet(C)
    BY <2>2
  <2> HIDE DEF A, B, C
  <2>7. IsFiniteSet(A \cup B) /\ Cardinality(A \cup B) = Cardinality(A) + Cardinality(B)
    <3>1. /\ IsFiniteSet(A \cup B)
          /\ Cardinality(A \cup B) = Cardinality(A) + Cardinality(B) - Cardinality(A \cap B)
      BY <2>6, FS_Union
    <3>2. Cardinality(A \cap B) = 0
      BY <2>4
    <3> QED BY <2>3, <3>1, <3>2
  <2>8. Cardinality((A \cup B) \cup C) = Cardinality(A \cup B) + Cardinality(C)
    <3>1. Cardinality((A \cup B) \cup C)
             = Cardinality(A \cup B) + Cardinality(C) - Cardinality((A \cup B) \cap C)
      BY <2>6, <2>7, FS_Union
    <3>2. Cardinality((A \cup B) \cap C) = 0
      BY <2>4
    <3> QED BY <2>3, <2>7, <3>1, <3>2
  <2> QED BY <2>2, <2>3, <2>5, <2>7, <2>8 DEF A, B, C
<1>4. OnePlace
  <2>1. \A t, u \in Thread : pc[t] = "publish" /\ pc[u] = "publish" => t = u
    BY <1>1 DEF TokenHeld
  <2> QED BY <1>1, <1>3, <2>1 DEF OnePlace, Apart, CachedOnce, Distinct, NoRepeat
<1> QED BY <1>1, <1>2, <1>4 DEF CachesIntact

\* The span caches stay intact for any number of threads and spans and any
\* sublist length, however the threads that allocate, end and clean up
\* interleave (rpmalloc.c:471-571, 763-798, 1071-1087, 1698-1732).
THEOREM CachesIntactAlways == Spec => []CachesIntact
  BY IInvInvariant, IInvImpliesCachesIntact, PTL

\* rpmalloc_finalize leaves the global cache only when nothing is mapped.
LEMMA StepReleasesAll ==
  IInv /\ [Next]_vars => [CleaningUp /\ ~CleaningUp' => mapped' = {}]_vars
<1> SUFFICES ASSUME IInv, Next, CleaningUp, ~CleaningUp' PROVE mapped' = {}
  OBVIOUS
<1>1. PICK t \in Thread : pc[t] = "cleanup"
  BY DEF CleaningUp
<1>2. /\ \A u \in Thread : u # t => pc[u] = "idle"
      /\ \A u \in Thread : pc[u] # "idle" => u = t
  BY <1>1, CleanupAlone
<1>3. PICK u \in Thread : Call(u) \/ Continue(u)
  BY DEF Next
<1>4. CASE Call(u)
  BY <1>1, <1>4, Types DEF Call, TakeCached, Extract, CacheInsert, Finalize, Cleanup, Idle, CleaningUp
<1>5. CASE Continue(u)
  <2>1. ~CleanupSublist(u)
    BY CleanupSublistStep
  <2>2. u = t
    BY <1>2, <1>5 DEF Continue, ExtractGrabs, ExtractYields, ExtractReloads,
       ExtractPublishes, Map, FinalizeSublist, FinalizeRest, FinalizeEnds, InsertLinks,
       InsertGivesUp, InsertSwaps, InsertRetries, Release, CleanupSublist, CleanupEnds
  <2>3. CleanupEnds(u)
    BY <1>1, <1>5, <2>1, <2>2 DEF Continue, ExtractGrabs, ExtractYields, ExtractReloads,
       ExtractPublishes, Map, FinalizeSublist, FinalizeRest, FinalizeEnds, InsertLinks,
       InsertGivesUp, InsertSwaps, InsertRetries, Release
  <2> QED BY <2>3, CleanupEndsStep
<1> QED BY <1>3, <1>4, <1>5

\* rpmalloc_finalize walks every sublist by its links and unmaps every span: it
\* is through only when nothing is mapped any more (rpmalloc.c:1698-1732).
THEOREM CleanupReleasesAllAlways == Spec => CleanupReleasesAll
  BY IInvInvariant, StepReleasesAll, PTL DEF Spec, CleanupReleasesAll
-----------------------------------------------------------------------------
(* The pool of spans *)

\* A span of a thread that is not in use is in use nowhere.
LEMMA SpareSpan ==
  ASSUME IInv, NEW t \in Thread, NEW s \in Range(local[t]) \cup Range(moving[t])
  PROVE  s \in mapped /\ s \notin Pool!InUse
<1>1. OnceEach(t) /\ Apart
  BY DEF IInv, ThreadOK
<1>2. s \in Has(t)
  BY DEF Has
<1>3. s \in mapped
  BY <1>1, <1>2 DEF Apart
<1>4. \A u \in Thread : used[u] \subseteq Has(u)
  BY DEF Has
<1>5. \A u \in Thread : s \notin used[u]
  BY <1>1, <1>2, <1>4 DEF Apart, OnceEach
<1> QED BY <1>3, <1>5 DEF Pool!InUse

\* Every step of the caches is a step of the pool or changes nothing the heaps
\* can see.
LEMMA StepIsPoolStep ==
  ASSUME IInv, [Next]_vars
  PROVE  [Pool!SPNext]_(Pool!spvars)
<1> DEFINE Goal == [Pool!SPNext]_(Pool!spvars)
<1>1. ASSUME UNCHANGED <<mapped, used>> PROVE Goal
  BY <1>1 DEF Pool!spvars
<1>2. ASSUME NEW t \in Thread, NEW s \in Span, s \notin Pool!InUse,
             mapped' = mapped \cup {s}, used' = [used EXCEPT ![t] = @ \cup {s}]
      PROVE  Goal
  BY <1>2 DEF Pool!SPNext, Pool!Obtain
<1>3. ASSUME NEW S, S \subseteq mapped, S \cap Pool!InUse = {},
             mapped' = mapped \ S, used' = used
      PROVE  Goal
  <2>1. S \in SUBSET Span /\ S \subseteq mapped \ Pool!InUse
    BY <1>3, Types DEF TypeOK
  <2> QED BY <1>3, <2>1 DEF Pool!SPNext, Pool!Unmap
<1> HIDE DEF Goal
<1>4. ASSUME UNCHANGED vars PROVE Goal
  <2>1. UNCHANGED <<mapped, used>>
    BY <1>4 DEF vars
  <2> QED BY <1>1, <2>1
<1>5. ASSUME NEW t \in Thread, TakeCached(t) PROVE Goal
  <2>1. /\ used' = [used EXCEPT ![t] = @ \cup {span_cache[t]}] /\ mapped' = mapped
        /\ pc[t] = "idle" /\ span_cache[t] # Null
    BY <1>5 DEF TakeCached, TakeHead, Idle
  <2>2. Chained(span_cache[t], local[t]) /\ local[t] \in Seq(Span)
    BY <2>1, Types DEF IInv, ThreadOK, LocalOK, LocalHead, Finalizing
  <2>3. span_cache[t] \in Range(local[t]) /\ span_cache[t] \in Span
    BY <2>1, <2>2, ChainHead
  <2>4. span_cache[t] \in mapped /\ span_cache[t] \notin Pool!InUse
    BY <2>3, SpareSpan
  <2>5. mapped' = mapped \cup {span_cache[t]}
    BY <2>1, <2>4
  <2> QED BY <1>2, <2>1, <2>3, <2>4, <2>5
<1>6. ASSUME NEW t \in Thread, ExtractPublishes(t) PROVE Goal
  <2>1. /\ used' = [used EXCEPT ![t] = @ \cup {seen[t].span}] /\ mapped' = mapped
        /\ pc[t] = "publish"
    BY <1>6 DEF ExtractPublishes, TakeHead
  <2>2. Chained(seen[t].span, moving[t]) /\ moving[t] \in Seq(Span) /\ moving[t] # <<>>
    BY <2>1, Types DEF IInv, ThreadOK, MovingOK
  <2>3. seen[t].span \in Range(moving[t]) /\ seen[t].span \in Span
    BY <2>2, ChainHead
  <2>4. seen[t].span \in mapped /\ seen[t].span \notin Pool!InUse
    BY <2>3, SpareSpan
  <2>5. mapped' = mapped \cup {seen[t].span}
    BY <2>1, <2>4
  <2> QED BY <1>2, <2>1, <2>3, <2>4, <2>5
<1>7. ASSUME NEW t \in Thread, Map(t) PROVE Goal
  <2>1. PICK s \in Span \ mapped : /\ mapped' = mapped \cup {s}
                                   /\ used' = [used EXCEPT ![t] = @ \cup {s}]
    BY <1>7 DEF Map
  <2>2. s \notin Pool!InUse
    <3>1. \A u \in Thread : used[u] \subseteq Has(u) /\ Has(u) \subseteq mapped
      BY DEF Has, IInv, Apart
    <3> QED BY <3>1 DEF Pool!InUse
  <2> QED BY <1>2, <2>1, <2>2
<1>8. ASSUME NEW t \in Thread, NEW s \in Span, CacheInsert(t, s) PROVE Goal
  <2>1. s \in used[t] /\ used' = [used EXCEPT ![t] = @ \ {s}] /\ mapped' = mapped
    BY <1>8 DEF CacheInsert
  <2> QED BY <2>1 DEF Goal, Pool!SPNext, Pool!Return
<1>9. ASSUME NEW t \in Thread, Release(t) PROVE Goal
  <2>1. mapped' = mapped \ {first[t]} /\ used' = used /\ pc[t] = "release"
    BY <1>9 DEF Release, Unmapped
  <2>2. Chained(first[t], moving[t]) /\ moving[t] \in Seq(Span) /\ moving[t] # <<>>
    BY <2>1, Types DEF IInv, ThreadOK, MovingOK
  <2>3. first[t] \in Range(moving[t])
    BY <2>2, ChainHead
  <2>4. {first[t]} \subseteq mapped /\ {first[t]} \cap Pool!InUse = {}
    BY <2>3, SpareSpan
  <2> QED BY <1>3, <2>1, <2>4
<1>10. ASSUME NEW t \in Thread, CleanupSublist(t) PROVE Goal
  <2> DEFINE S == mapped \cap SublistOf(seen[t].span)
  <2>1. pc[t] = "cleanup" /\ mapped' = mapped \ SublistOf(seen[t].span) /\ used' = used
    BY <1>10 DEF CleanupSublist, Unmapped
  <2>2. \A u \in Thread : used[u] = {}
    BY <2>1, CleanupAlone
  <2>3. Pool!InUse = {}
    BY <2>2 DEF Pool!InUse
  <2>4. S \subseteq mapped /\ S \cap Pool!InUse = {} /\ mapped' = mapped \ S
    BY <2>1, <2>3
  <2> HIDE DEF S
  <2> QED BY <1>3, <2>1, <2>4
<1>11. ASSUME NEW t \in Thread, Call(t) PROVE Goal
  <2>1. CASE Extract(t) \/ Finalize(t) \/ Cleanup(t)
    BY <1>1, <2>1 DEF Extract, ExtractLoads, Finalize, Cleanup
  <2>2. CASE \E s \in Span : CacheInsert(t, s)
    BY <1>8, <2>2
  <2> QED BY <1>5, <1>11, <2>1, <2>2 DEF Call
<1>12. ASSUME NEW t \in Thread, Continue(t) PROVE Goal
  <2>1. CASE \/ ExtractGrabs(t) \/ ExtractYields(t) \/ ExtractReloads(t)
             \/ FinalizeSublist(t) \/ FinalizeRest(t) \/ FinalizeEnds(t)
             \/ InsertLinks(t) \/ InsertGivesUp(t) \/ InsertSwaps(t) \/ InsertRetries(t)
             \/ CleanupEnds(t)
    BY <1>1, <2>1 DEF ExtractGrabs, ExtractYields, ExtractReloads, ExtractLoads,
       FinalizeSublist, FinalizeRest, FinalizeEnds, InsertLinks, InsertGivesUp,
       InsertSwaps, InsertRetries, CleanupEnds
  <2> QED BY <1>6, <1>7, <1>9, <1>10, <1>12, <2>1 DEF Continue
<1>13. ASSUME Next PROVE Goal
  BY <1>11, <1>12, <1>13 DEF Next
<1>14. Goal
  BY <1>4, <1>13
<1> QED BY <1>14 DEF Goal

\* The caches of every heap together with the global cache implement the pool:
\* a heap is only ever given a span that no other heap uses, and only spans
\* that nobody uses are unmapped.
THEOREM ImplementsSpanPool == Spec => IsSpanPool
<1>1. Init => Pool!SPInit
  BY DEF Init, Pool!SPInit
<1>2. IInv /\ [Next]_vars => [Pool!SPNext]_(Pool!spvars)
  BY StepIsPoolStep
<1> QED BY <1>1, <1>2, IInvInvariant, PTL DEF Spec, IsSpanPool, Pool!SPSpec
=============================================================================
