---------------------------- MODULE RpSpanCache ----------------------------
(***************************************************************************)
(* The span caches of src/rpmalloc/rpmalloc.c for one span class: each     *)
(* thread's heap has a private chain of free spans, and a finished thread  *)
(* gives its chain to the global cache in sublists of at most MaxRelease   *)
(* spans.  All links are words in the spans' headers.                      *)
(*                                                                         *)
(* The global cache is one word: the first span of the first sublist with  *)
(* the number of all cached spans packed into its low bits.  Inserting is  *)
(* a compare-and-swap; extracting first swaps in a lock token, so that it  *)
(* may read the header of the first span, and then stores the new head.    *)
(* An action makes one access to that word, with the thread's private work *)
(* before or after it.                                                     *)
(***************************************************************************)
EXTENDS Naturals, Sequences, FiniteSets, Functions, SequencesExt

CONSTANTS
  Thread,
  Span,        \* the spans the system can map
  Null,
  Token,       \* SPAN_LIST_LOCK_TOKEN
  MaxCount,    \* what the low bits can count: 0xFFFF
  MaxRelease   \* MIN_SPAN_CACHE_RELEASE

ASSUME NullAssumption == Null \notin Span
ASSUME TokenAssumption == Token \notin [span : Span \cup {Null}, count : Nat]
ASSUME BoundAssumption == MaxCount \in Nat /\ MaxRelease \in Nat \ {0}

VARIABLES
  next_span, prev_span, list_size,  \* words of the span headers
  span_cache,  \* span_cache[t]: the chain of the heap of thread t
  global,      \* the word _memory_span_cache[class]
  mapped,      \* the spans obtained from the system
  used,        \* used[t]: the spans with blocks of the heap of t
  pc,
  seen,        \* global_span_ptr
  first, size, \* the arguments of the insertion, or of the release
  rest,        \* what thread_finalize has still to give away
  local,       \* history: the spans of span_cache[t] (of `rest' in finalize)
  moving,      \* history: the sublist t inserts or has extracted
  batches      \* history: the sublists in the global cache, the head first

headers == <<next_span, prev_span, list_size>>
locals == <<pc, seen, first, size, rest>>
histories == <<local, moving, batches>>
vars == <<headers, span_cache, global, mapped, used, locals, histories>>

Empty == [span |-> Null, count |-> 0]
Packed(s, n) == [span |-> s, count |-> n]

Init ==
  /\ next_span = [s \in Span |-> Null]
  /\ prev_span = [s \in Span |-> Null]
  /\ list_size = [s \in Span |-> 0]
  /\ span_cache = [t \in Thread |-> Null]
  /\ global = Empty
  /\ mapped = {}
  /\ used = [t \in Thread |-> {}]
  /\ pc = [t \in Thread |-> "idle"]
  /\ seen = [t \in Thread |-> Empty]
  /\ first = [t \in Thread |-> Null]
  /\ size = [t \in Thread |-> 0]
  /\ rest = [t \in Thread |-> Null]
  /\ local = [t \in Thread |-> <<>>]
  /\ moving = [t \in Thread |-> <<>>]
  /\ batches = <<>>

Goto(t, label) == pc' = [pc EXCEPT ![t] = label]

\* rpmalloc_finalize runs when every other thread is done with the allocator.
CleaningUp == \E t \in Thread : pc[t] = "cleanup"
Idle(t) == pc[t] = "idle" /\ ~CleaningUp
-----------------------------------------------------------------------------
(* A heap takes a span: steps 4 to 6 of _memory_allocate_from_heap. *)

\* Once a span is used its heap writes other things into the same words of
\* the header: it links partly used spans and keeps the bookkeeping of blocks
\* where the length was.
UsedHeader(s) ==
  /\ next_span' = [next_span EXCEPT ![s] = Null]
  /\ prev_span' = [prev_span EXCEPT ![s] = Null]

\* Mutant (here and below, each before the definition it would replace): the
\* rest of the chain does not inherit the length.
TakeHeadKeepsSize(t, s, chain) ==
  /\ list_size' = [list_size EXCEPT ![s] = 0]
  /\ span_cache' = [span_cache EXCEPT ![t] = IF list_size[s] > 1 THEN next_span[s] ELSE Null]
  /\ UsedHeader(s)
  /\ local' = [local EXCEPT ![t] = Tail(chain)]
  /\ used' = [used EXCEPT ![t] = @ \cup {s}]

\* The first span of a chain goes into use and the remainder becomes the
\* heap's chain.
TakeHead(t, s, chain) ==
  /\ IF list_size[s] > 1
     THEN /\ list_size' = [list_size EXCEPT ![next_span[s]] = list_size[s] - 1, ![s] = 0]
          /\ span_cache' = [span_cache EXCEPT ![t] = next_span[s]]
     ELSE /\ list_size' = [list_size EXCEPT ![s] = 0]
          /\ span_cache' = [span_cache EXCEPT ![t] = Null]
  /\ UsedHeader(s)
  /\ local' = [local EXCEPT ![t] = Tail(chain)]
  /\ used' = [used EXCEPT ![t] = @ \cup {s}]

TakeCached(t) ==
  /\ Idle(t)
  /\ span_cache[t] # Null
  /\ TakeHead(t, span_cache[t], local[t])
  /\ UNCHANGED <<global, mapped, locals, moving, batches>>

\* The heap's chain is empty: _memory_global_cache_extract, and _memory_map
\* when that comes back with nothing.
ExtractLoads(t) ==
  /\ seen' = [seen EXCEPT ![t] = global]
  /\ Goto(t, IF global = Empty THEN "map" ELSE "grab")
  /\ UNCHANGED <<headers, span_cache, global, mapped, used, first, size, rest, histories>>

Extract(t) == Idle(t) /\ span_cache[t] = Null /\ ExtractLoads(t)

\* Mutant: the token is stored without comparing.
ExtractGrabsBlindly(t) ==
  /\ pc[t] = "grab"
  /\ seen[t] # Token
  /\ global' = Token
  /\ moving' = [moving EXCEPT ![t] = IF batches = <<>> THEN <<seen[t].span>> ELSE Head(batches)]
  /\ batches' = SubSeq(batches, 2, Len(batches))
  /\ Goto(t, "publish")
  /\ UNCHANGED <<headers, span_cache, mapped, used, seen, first, size, rest, local>>

ExtractGrabs(t) ==
  /\ pc[t] = "grab"
  /\ seen[t] # Token /\ global = seen[t]
  /\ global' = Token
  /\ moving' = [moving EXCEPT ![t] = Head(batches)]
  /\ batches' = Tail(batches)
  /\ Goto(t, "publish")
  /\ UNCHANGED <<headers, span_cache, mapped, used, seen, first, size, rest, local>>

\* List busy, or the swap failed: yield, then load again.
ExtractYields(t) ==
  /\ pc[t] = "grab"
  /\ seen[t] = Token \/ global # seen[t]
  /\ seen' = [seen EXCEPT ![t] = Empty]
  /\ Goto(t, "reload")
  /\ UNCHANGED <<headers, span_cache, global, mapped, used, first, size, rest, histories>>

ExtractReloads(t) == pc[t] = "reload" /\ ExtractLoads(t)

\* Mutant: the lock is kept.
HeadStaysLocked(s, count) == Token

\* The head that remains when the sublist of s goes: prev_span skips it.
HeadAfter(s, count) ==
  IF count # list_size[s] THEN Packed(prev_span[s], count - list_size[s]) ELSE Empty

ExtractPublishes(t) ==
  LET s == seen[t].span IN
  /\ pc[t] = "publish"
  /\ global' = HeadAfter(s, seen[t].count)
  /\ TakeHead(t, s, moving[t])
  /\ moving' = [moving EXCEPT ![t] = <<>>]
  /\ seen' = [seen EXCEPT ![t] = Empty]
  /\ Goto(t, "idle")
  /\ UNCHANGED <<mapped, first, size, rest, batches>>

\* The system has an unlimited supply; here a thread waits for a span.
Map(t) ==
  /\ pc[t] = "map"
  /\ \E s \in Span \ mapped :
       /\ mapped' = mapped \cup {s}
       /\ used' = [used EXCEPT ![t] = @ \cup {s}]
  /\ Goto(t, "idle")
  /\ UNCHANGED <<headers, span_cache, global, seen, first, size, rest, histories>>

\* The last block of a span is freed: _memory_heap_cache_insert.
CacheInsert(t, s) ==
  /\ Idle(t)
  /\ s \in used[t]
  /\ next_span' = [next_span EXCEPT ![s] = span_cache[t]]
  /\ list_size' = [list_size EXCEPT
       ![s] = IF span_cache[t] # Null THEN list_size[span_cache[t]] + 1 ELSE 1]
  /\ span_cache' = [span_cache EXCEPT ![t] = s]
  /\ local' = [local EXCEPT ![t] = <<s>> \o @]
  /\ used' = [used EXCEPT ![t] = @ \ {s}]
  /\ UNCHANGED <<prev_span, global, mapped, locals, moving, batches>>
-----------------------------------------------------------------------------
(* A thread ends: the loop of rpmalloc_thread_finalize. *)

\* The heap's pointer is cleared at the end of the loop in the code; nobody
\* reads it in between.
Finalize(t) ==
  /\ Idle(t)
  /\ span_cache[t] # Null
  /\ rest' = [rest EXCEPT ![t] = span_cache[t]]
  /\ span_cache' = [span_cache EXCEPT ![t] = Null]
  /\ Goto(t, "cut")
  /\ UNCHANGED <<headers, global, mapped, used, seen, first, size, histories>>

\* The span k links further along the chain from s.
Along(s, k) == LET f[i \in 0..k] == IF i = 0 THEN s ELSE next_span[f[i - 1]] IN f[k]

\* The first MaxRelease spans become a list of their own.
Cut(t, s) ==
  /\ next_span' = [next_span EXCEPT ![Along(s, MaxRelease - 1)] = Null]
  /\ list_size' = [list_size EXCEPT ![Along(s, MaxRelease)] = list_size[s] - MaxRelease]

FinalizeSublist(t) ==
  LET s == rest[t] IN
  /\ pc[t] = "cut" /\ s # Null
  /\ list_size[s] > MaxRelease
  /\ Cut(t, s)
  /\ first' = [first EXCEPT ![t] = s]
  /\ size' = [size EXCEPT ![t] = MaxRelease]
  /\ rest' = [rest EXCEPT ![t] = Along(s, MaxRelease)]
  /\ moving' = [moving EXCEPT ![t] = SubSeq(local[t], 1, MaxRelease)]
  /\ local' = [local EXCEPT ![t] = SubSeq(@, MaxRelease + 1, Len(@))]
  /\ Goto(t, "insert")
  /\ UNCHANGED <<prev_span, span_cache, global, mapped, used, seen, batches>>

FinalizeRest(t) ==
  LET s == rest[t] IN
  /\ pc[t] = "cut" /\ s # Null
  /\ list_size[s] <= MaxRelease
  /\ first' = [first EXCEPT ![t] = s]
  /\ size' = [size EXCEPT ![t] = list_size[s]]
  /\ rest' = [rest EXCEPT ![t] = Null]
  /\ moving' = [moving EXCEPT ![t] = local[t]]
  /\ local' = [local EXCEPT ![t] = <<>>]
  /\ Goto(t, "insert")
  /\ UNCHANGED <<headers, span_cache, global, mapped, used, seen, batches>>

FinalizeEnds(t) ==
  /\ pc[t] = "cut" /\ rest[t] = Null
  /\ Goto(t, "idle")
  /\ UNCHANGED <<headers, span_cache, global, mapped, used, seen, first, size, rest, histories>>
-----------------------------------------------------------------------------
(* _memory_global_cache_insert of the list `first' of length `size' *)

Fits(t, count) == count + size[t] <= MaxCount

\* The links are written into the thread's own span, before the swap.
InsertLinks(t) ==
  LET s == first[t] IN
  /\ pc[t] = "insert"
  /\ global # Token /\ Fits(t, global.count)
  /\ seen' = [seen EXCEPT ![t] = global]
  /\ list_size' = [list_size EXCEPT ![s] = size[t]]
  /\ prev_span' = [prev_span EXCEPT ![s] = global.span]
  /\ Goto(t, "swap")
  /\ UNCHANGED <<next_span, span_cache, global, mapped, used, first, size, rest, histories>>

\* We only have 16 bits for the size of the list.
InsertGivesUp(t) ==
  /\ pc[t] = "insert"
  /\ global # Token /\ ~Fits(t, global.count)
  /\ Goto(t, "release")
  /\ UNCHANGED <<headers, span_cache, global, mapped, used, seen, first, size, rest, histories>>

\* While the word holds the token the thread yields and loads again.
InsertSwaps(t) ==
  /\ pc[t] = "swap"
  /\ global = seen[t]
  /\ global' = Packed(first[t], seen[t].count + size[t])
  /\ batches' = <<moving[t]>> \o batches
  /\ moving' = [moving EXCEPT ![t] = <<>>]
  /\ seen' = [seen EXCEPT ![t] = Empty]
  /\ first' = [first EXCEPT ![t] = Null]
  /\ size' = [size EXCEPT ![t] = 0]
  /\ Goto(t, "cut")
  /\ UNCHANGED <<headers, span_cache, mapped, used, rest, local>>

InsertRetries(t) ==
  /\ pc[t] = "swap"
  /\ global # seen[t]
  /\ seen' = [seen EXCEPT ![t] = Empty]
  /\ Goto(t, "insert")
  /\ UNCHANGED <<headers, span_cache, global, mapped, used, first, size, rest, histories>>

\* The pages come back zeroed when they are mapped again.
Unmapped(S) ==
  /\ mapped' = mapped \ S
  /\ next_span' = [s \in Span |-> IF s \in S THEN Null ELSE next_span[s]]
  /\ prev_span' = [s \in Span |-> IF s \in S THEN Null ELSE prev_span[s]]
  /\ list_size' = [s \in Span |-> IF s \in S THEN 0 ELSE list_size[s]]

\* Global cache full: one round of the loop that unmaps the list, the last of
\* which has no next span.
Release(t) ==
  /\ pc[t] = "release"
  /\ Unmapped({first[t]})
  /\ first' = [first EXCEPT ![t] = next_span[first[t]]]
  /\ size' = [size EXCEPT ![t] = @ - 1]
  /\ moving' = [moving EXCEPT ![t] = Tail(@)]
  /\ Goto(t, IF size[t] = 1 THEN "cut" ELSE "release")
  /\ UNCHANGED <<span_cache, global, used, seen, rest, local, batches>>
-----------------------------------------------------------------------------
(* rpmalloc_finalize, when every thread has finalized and all is freed *)

Cleanup(t) ==
  /\ \A u \in Thread : pc[u] = "idle" /\ span_cache[u] = Null /\ used[u] = {}
  /\ global # Empty
  /\ seen' = [seen EXCEPT ![t] = global]
  /\ Goto(t, "cleanup")
  /\ UNCHANGED <<headers, span_cache, global, mapped, used, first, size, rest, histories>>

\* Mutant: only the first span of each sublist is unmapped.
SublistHeadOnly(s) == {s}

SublistOf(s) == {Along(s, k) : k \in 0..(list_size[s] - 1)}

\* One sublist: its spans by next_span, then on to the next by prev_span.
CleanupSublist(t) ==
  LET s == seen[t].span IN
  /\ pc[t] = "cleanup"
  /\ seen[t].count # 0
  /\ Unmapped(SublistOf(s))
  /\ seen' = [seen EXCEPT ![t] = Packed(prev_span[s], @.count - list_size[s])]
  /\ batches' = Tail(batches)
  /\ UNCHANGED <<span_cache, global, used, pc, first, size, rest, local, moving>>

CleanupEnds(t) ==
  /\ pc[t] = "cleanup"
  /\ seen[t].count = 0
  /\ global' = Empty
  /\ seen' = [seen EXCEPT ![t] = Empty]
  /\ Goto(t, "idle")
  /\ UNCHANGED <<headers, span_cache, mapped, used, first, size, rest, histories>>
-----------------------------------------------------------------------------
\* What a thread does without being asked: the rest of a call.
Continue(t) ==
  \/ ExtractGrabs(t) \/ ExtractYields(t) \/ ExtractReloads(t) \/ ExtractPublishes(t)
  \/ Map(t)
  \/ FinalizeSublist(t) \/ FinalizeRest(t) \/ FinalizeEnds(t)
  \/ InsertLinks(t) \/ InsertGivesUp(t) \/ InsertSwaps(t) \/ InsertRetries(t)
  \/ Release(t)
  \/ CleanupSublist(t) \/ CleanupEnds(t)

Call(t) ==
  \/ TakeCached(t)
  \/ Extract(t)
  \/ \E s \in Span : CacheInsert(t, s)
  \/ Finalize(t)
  \/ Cleanup(t)

Next == \E t \in Thread : Call(t) \/ Continue(t)

Spec == Init /\ [][Next]_vars

\* A thread inside a call keeps running.
FairSpec == Spec /\ \A t \in Thread : WF_vars(Continue(t))
-----------------------------------------------------------------------------
SpanOrNull == Span \cup {Null}
CacheHead == [span : SpanOrNull, count : 0..MaxCount]

\* Type invariant.
TypeOK ==
  /\ next_span \in [Span -> SpanOrNull]
  /\ prev_span \in [Span -> SpanOrNull]
  /\ list_size \in [Span -> Nat]
  /\ span_cache \in [Thread -> SpanOrNull]
  /\ global \in CacheHead \cup {Token}
  /\ mapped \subseteq Span
  /\ used \in [Thread -> SUBSET Span]
  /\ pc \in [Thread -> {"idle", "map", "grab", "reload", "publish", "cut", "insert",
                        "swap", "release", "cleanup"}]
  /\ seen \in [Thread -> CacheHead \cup {Token}]
  /\ first \in [Thread -> SpanOrNull]
  /\ size \in [Thread -> Nat]
  /\ rest \in [Thread -> SpanOrNull]
  /\ local \in [Thread -> Seq(Span)]
  /\ moving \in [Thread -> Seq(Span)]
  /\ batches \in Seq(Seq(Span))

SpanAt(s, i) == IF i <= Len(s) THEN s[i] ELSE Null

\* The chain from head h by next_span is exactly the sequence s.
Chained(h, s) ==
  /\ h = SpanAt(s, 1)
  /\ \A i \in 1..Len(s) : next_span[s[i]] = SpanAt(s, i + 1)

FirstOf(i) == IF i <= Len(batches) THEN batches[i][1] ELSE Null

SpansIn(bs) == UNION {Range(bs[i]) : i \in 1..Len(bs)}

\* The sublists in the global cache: each a chain of the length its first
\* span records, whose prev_span leads to the next sublist.
BatchesLinked ==
  \A i \in 1..Len(batches) :
     /\ batches[i] # <<>>
     /\ Chained(batches[i][1], batches[i])
     /\ list_size[batches[i][1]] = Len(batches[i])
     /\ prev_span[batches[i][1]] = FirstOf(i + 1)

CachedCount == Cardinality(SpansIn(batches))

\* The packed word: first span and number of all spans, as long as nobody is
\* extracting or cleaning up.
HeadExact ==
  global # Token /\ ~CleaningUp => global = Packed(FirstOf(1), CachedCount)

\* What a heap or a finalizing thread has of its own chain.
LocalExact ==
  \A t \in Thread :
     LET h == IF pc[t] = "idle" THEN span_cache[t] ELSE rest[t]
     IN pc[t] \in {"idle", "cut", "insert", "swap", "release"} =>
          /\ Chained(h, local[t])
          /\ h # Null => list_size[h] = Len(local[t])

Distinct(s) == \A i, j \in 1..Len(s) : s[i] = s[j] => i = j

\* Where a thread can have a span.
Has(t) == used[t] \cup Range(local[t]) \cup Range(moving[t])

OnePlace ==
  /\ mapped = (UNION {Has(t) : t \in Thread}) \cup SpansIn(batches)
  /\ \A t, u \in Thread : t # u => Has(t) \cap Has(u) = {}
  /\ \A t \in Thread :
       /\ Has(t) \cap SpansIn(batches) = {}
       /\ Cardinality(Has(t)) = Cardinality(used[t]) + Len(local[t]) + Len(moving[t])
  /\ \A i, j \in 1..Len(batches) : i # j => Range(batches[i]) \cap Range(batches[j]) = {}
  /\ \A i \in 1..Len(batches) : Distinct(batches[i])
  /\ \A t, u \in Thread : pc[t] = "publish" /\ pc[u] = "publish" => t = u

\* Every chain of free spans is what its links and its length say, in every
\* heap and in the global cache, and the number packed into the global head is
\* the number of cached spans.  Each mapped span is in one place: in use by one
\* heap, once in one chain, or on its way between them; one thread at most
\* holds the lock token.  So no interleaving of threads that end and threads
\* that allocate loses a sublist or gives it to two (rpmalloc.c:471-571,
\* 763-798, 1071-1087, 1698-1732).
CachesIntact == TypeOK /\ BatchesLinked /\ HeadExact /\ LocalExact /\ OnePlace

\* The caches implement the abstract pool of spans.
Pool == INSTANCE SpanPool
IsSpanPool == Pool!SPSpec

\* Whoever swapped the token in takes it out again: nobody spins for ever on
\* a lock whose holder has gone (rpmalloc.c:541-568).
TokenReleased == global = Token ~> global # Token

\* When rpmalloc_finalize is through the global cache nothing is mapped.
CleanupReleasesAll == [][CleaningUp /\ ~CleaningUp' => mapped' = {}]_vars
=============================================================================
