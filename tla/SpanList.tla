------------------------------ MODULE SpanList ------------------------------
(***************************************************************************)
(* The doubly linked list of rpmalloc.c, in which a heap keeps the partly  *)
(* used spans of a size class.  Unlike ForwardList it does not write the   *)
(* word prev of the node that comes first, which holds an old value.       *)
(***************************************************************************)
EXTENDS ListNodes

VARIABLES
  head,                  \* heap->size_cache[class_idx]
  next_span, prev_span,  \* the two words of every span
  spans                  \* the spans listed

spanVars == <<head, next_span, prev_span, spans>>

SpanInit ==
  /\ head = End
  /\ next_span \in [Node -> Garbage]
  /\ prev_span \in [Node -> Garbage]
  /\ spans = <<>>
-----------------------------------------------------------------------------
_memory_list_add(span) ==
  /\ ~Listed(span, spans)
  /\ prev_span' = [x \in Node |-> IF x = head THEN span ELSE prev_span[x]]
  /\ next_span' = [next_span EXCEPT ![span] = head]
  /\ head' = span
  /\ spans' = <<span>> \o spans

\* The two cases of _memory_list_remove.
TakeFirst ==
  /\ head # End
  /\ head' = next_span[head]
  /\ spans' = Tail(spans)
  /\ UNCHANGED <<next_span, prev_span>>

\* Mutant: the span after the removed one is not told.
RemoveLaterOneWay(span) ==
  /\ next_span' = [next_span EXCEPT ![prev_span[span]] = next_span[span]]
  /\ UNCHANGED <<head, prev_span>>

RemoveLater(span) ==
  /\ prev_span' = [x \in Node |-> IF x = next_span[span] THEN prev_span[span] ELSE prev_span[x]]
  /\ next_span' = [next_span EXCEPT ![prev_span[span]] = next_span[span]]
  /\ UNCHANGED head

_memory_list_remove(span) ==
  \E i \in 1..Len(spans) :
    /\ spans[i] = span
    /\ IF head = span
       THEN TakeFirst
       ELSE RemoveLater(span) /\ spans' = RemoveAt(spans, i)

\* The first span becomes the active one.
PromoteFirst == TakeFirst

\* The owner of an unlisted node writes over its words.
SpanClientWrites(n) ==
  /\ ~Listed(n, spans)
  /\ \E x, y \in Garbage : /\ next_span' = [next_span EXCEPT ![n] = x]
                           /\ prev_span' = [prev_span EXCEPT ![n] = y]
  /\ UNCHANGED <<head, spans>>

SpanNext ==
  \/ PromoteFirst
  \/ \E n \in Node : \/ _memory_list_add(n)
                     \/ _memory_list_remove(n)
                     \/ SpanClientWrites(n)

SpanListSpec == SpanInit /\ [][SpanNext]_spanVars
-----------------------------------------------------------------------------
\* Type invariant.
SpanListTypeOK ==
  /\ head \in Address
  /\ next_span \in [Node -> Address]
  /\ prev_span \in [Node -> Address]
  /\ spans \in Seq(Node)

\* The chain spells the spans, and every span but the first knows the one
\* before it, though the first one's word is left as it was and the second
\* span may become the first at any time (rpmalloc.c:1035-1067, 749-760).
SpanListIntact ==
  /\ Distinct(spans)
  /\ head = At(spans, 1)
  /\ \A i \in 1..Len(spans) : /\ next_span[spans[i]] = At(spans, i + 1)
                              /\ i > 1 => prev_span[spans[i]] = At(spans, i - 1)
=============================================================================
