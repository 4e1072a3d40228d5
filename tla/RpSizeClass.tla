---------------------------- MODULE RpSizeClass ----------------------------
(***************************************************************************)
(* The sizes of rpmalloc.c: the table of small and medium size classes     *)
(* that rpmalloc_initialize computes, the spans or pages of a larger       *)
(* block, and what reallocate and usable_size make of the numbers.         *)
(***************************************************************************)
EXTENDS Request

VARIABLES
  _memory_size_class,
  iclass  \* the class that rpmalloc_initialize sets up next

PAGE_SIZE == 4096
SPAN_MAX_SIZE == 65536
SPAN_MAX_PAGE_COUNT == SPAN_MAX_SIZE \div PAGE_SIZE
SPAN_CLASS_GRANULARITY == 4
SPAN_HEADER_SIZE == 32

SMALL_GRANULARITY == 16
SMALL_CLASS_COUNT == ((PAGE_SIZE - SPAN_HEADER_SIZE) \div 2) \div SMALL_GRANULARITY
SMALL_SIZE_LIMIT == SMALL_CLASS_COUNT * SMALL_GRANULARITY
MEDIUM_GRANULARITY == 512
MEDIUM_CLASS_COUNT == 60
MEDIUM_SIZE_LIMIT == SMALL_SIZE_LIMIT + MEDIUM_GRANULARITY * MEDIUM_CLASS_COUNT - SPAN_HEADER_SIZE
SIZE_CLASS_COUNT == SMALL_CLASS_COUNT + MEDIUM_CLASS_COUNT
LARGE_CLASS_COUNT == 32
LARGE_SIZE_LIMIT == SPAN_MAX_PAGE_COUNT * LARGE_CLASS_COUNT * PAGE_SIZE - SPAN_HEADER_SIZE

DividedUp(n, d) == (n + d - 1) \div d
Smaller(m, n) == IF m < n THEN m ELSE n
-----------------------------------------------------------------------------
(* The table of size classes *)

\* The two loops of rpmalloc_initialize in one.
SizeOfClass(c) ==
  IF c < SMALL_CLASS_COUNT
  THEN (c + 1) * SMALL_GRANULARITY
  ELSE Smaller(SMALL_SIZE_LIMIT + (c - SMALL_CLASS_COUNT + 1) * MEDIUM_GRANULARITY,
               MEDIUM_SIZE_LIMIT)

\* Pages for 255 blocks, at most a span and in steps of the granularity.
PageCount(block_size) ==
  LET pages == (block_size * 255) \div PAGE_SIZE
      at_least_one == IF pages = 0 THEN 1 ELSE pages
  IN Smaller(DividedUp(at_least_one, SPAN_CLASS_GRANULARITY) * SPAN_CLASS_GRANULARITY,
             SPAN_MAX_PAGE_COUNT)

BlocksIn(page_count, block_size) == (page_count * PAGE_SIZE - SPAN_HEADER_SIZE) \div block_size

ClassEntry(c) ==
  LET block_size == SizeOfClass(c)
      page_count == PageCount(block_size)
  IN [size |-> block_size, page_count |-> page_count,
      block_count |-> BlocksIn(page_count, block_size), class_idx |-> c]

Merges(a, b) == a.page_count = b.page_count /\ a.block_count = b.block_count

\* The classes before iclass that are like it, up to the first that is not.
MergedInto(entry) ==
  {c \in 0..(iclass - 1) : \A d \in c..(iclass - 1) : Merges(_memory_size_class[d], entry)}

\* One round of the loops of rpmalloc_initialize: the merged classes become
\* copies of the new one.
_memory_adjust_size_class ==
  LET entry == ClassEntry(iclass)
      copies == MergedInto(entry) \cup {iclass}
  IN /\ iclass < SIZE_CLASS_COUNT
     /\ _memory_size_class' = [c \in DOMAIN _memory_size_class |->
                                IF c \in copies THEN entry ELSE _memory_size_class[c]]
     /\ iclass' = iclass + 1
     /\ UNCHANGED size

Initialized == iclass = SIZE_CLASS_COUNT

RpInit ==
  /\ RequestInit
  /\ iclass = 0
  /\ _memory_size_class =
       [c \in 0..(SIZE_CLASS_COUNT - 1) |->
          [size |-> 0, page_count |-> 0, block_count |-> 0, class_idx |-> 0]]

ServeRequest == Initialized /\ NextRequest /\ UNCHANGED <<iclass, _memory_size_class>>

RpNext == _memory_adjust_size_class \/ ServeRequest

RpSpec == RpInit /\ [][RpNext]_<<size, iclass, _memory_size_class>>
-----------------------------------------------------------------------------
(* From a size to a class, to spans and to pages *)

\* Mutant (here and below, each before the definition it would replace): a size
\* between two classes goes down.
BaseClassRoundedDown(n) ==
  IF n <= SMALL_SIZE_LIMIT
  THEN DividedUp(n, SMALL_GRANULARITY) - 1
  ELSE SMALL_CLASS_COUNT + (n - SMALL_SIZE_LIMIT) \div MEDIUM_GRANULARITY - 1

BaseClass(n) ==
  IF n <= SMALL_SIZE_LIMIT
  THEN DividedUp(n, SMALL_GRANULARITY) - 1
  ELSE SMALL_CLASS_COUNT + DividedUp(n - SMALL_SIZE_LIMIT, MEDIUM_GRANULARITY) - 1

\* _memory_allocate_from_heap; a request of no bytes would read before the
\* table.
class_idx(n) == _memory_size_class[BaseClass(n)].class_idx

\* _memory_allocate_large_from_heap, and the same in _memory_reallocate.
num_spans(n) == DividedUp(n + SPAN_HEADER_SIZE, SPAN_MAX_SIZE)

\* The oversized case of _memory_allocate and _memory_reallocate.
num_pages(n) == DividedUp(n + SPAN_HEADER_SIZE, PAGE_SIZE)

\* What the span's header says of a block of n bytes, and the units of it.
Tier(n) == IF n <= MEDIUM_SIZE_LIMIT THEN "class"
           ELSE IF n <= LARGE_SIZE_LIMIT THEN "spans" ELSE "pages"

Units(tier, n) == CASE tier = "class" -> class_idx(n)
                    [] tier = "spans" -> num_spans(n)
                    [] tier = "pages" -> num_pages(n)

_memory_allocate(n) == [tier |-> Tier(n), units |-> Units(Tier(n), n)]

_memory_usable_size(block) ==
  CASE block.tier = "class" -> _memory_size_class[block.units].size
    [] block.tier = "spans" -> block.units * SPAN_MAX_SIZE - SPAN_HEADER_SIZE
    [] block.tier = "pages" -> block.units * PAGE_SIZE - SPAN_HEADER_SIZE
-----------------------------------------------------------------------------
(* _memory_reallocate *)

\* Mutant: a large block is kept for a request of as many bytes as its spans.
StaysInPlaceNoHeader(block, n) ==
  IF block.tier = "class"
  THEN _memory_usable_size(block) >= n
  ELSE LET needed == IF block.tier = "spans" THEN DividedUp(n, SPAN_MAX_SIZE)
                                             ELSE DividedUp(n, PAGE_SIZE)
       IN block.units >= needed /\ needed >= block.units \div 2

\* The block is kept: it holds n bytes, and a large one is half used.
StaysInPlace(block, n) ==
  IF block.tier = "class"
  THEN _memory_usable_size(block) >= n
  ELSE LET needed == Units(block.tier, n)
       IN block.units >= needed /\ needed >= block.units \div 2

\* Otherwise the contents move to a new block, which is larger than asked for
\* when it grows a little, and also when it should shrink; oldsize is what
\* rprealloc finds out itself.
NewSize(oldsize, n) ==
  LET lower_bound == oldsize + oldsize \div 4 + oldsize \div 8
  IN IF n > lower_bound THEN n ELSE lower_bound

_memory_reallocate(block, n) ==
  IF StaysInPlace(block, n)
  THEN block
  ELSE _memory_allocate(NewSize(_memory_usable_size(block), n))
-----------------------------------------------------------------------------
\* A small or medium request gets a block that holds it and lies in its span
\* with all the others of the class; the class it is led to through merged
\* classes is led to itself, and merging costs no block of a span: the span
\* has the pages and the blocks of the class the size itself calls for
\* (rpmalloc.c:680-684, 1461-1501, 1536-1555).
RpClassServes ==
  Initialized /\ size <= MEDIUM_SIZE_LIMIT =>
  LET entry == _memory_size_class[class_idx(size)]
      own == ClassEntry(BaseClass(size))
  IN /\ entry.class_idx = class_idx(size)
     /\ entry.size >= size
     /\ SPAN_HEADER_SIZE + entry.block_count * entry.size <= entry.page_count * PAGE_SIZE
     /\ <<entry.page_count, entry.block_count>> = <<own.page_count, own.block_count>>
     /\ entry.block_count >= 2
     /\ entry.page_count \in {4 * k : k \in 1..4}

\* Sizes of all tiers, those on either side of a whole number of pages or
\* spans with their header among them.
Sizes == {size, 128 * size - SPAN_HEADER_SIZE, 128 * size - SPAN_HEADER_SIZE + 1}

\* A block of any tier has the bytes asked for, and after a reallocate to
\* about its size, to half or twice as much, or to its whole spans, it has the
\* new number; a block that must grow grows by a third at least, so that
\* growing byte by byte does not copy each time (rpmalloc.c:1300-1322, 838-845,
\* 1356-1431, 1433-1458).
ReallocFits ==
  Initialized =>
  \A m \in Sizes :
    LET block == _memory_allocate(m)
        usable == _memory_usable_size(block)
    IN /\ usable >= m
       /\ \A n \in {1, m \div 2, usable, usable + 1, usable + SPAN_HEADER_SIZE, 2 * m} :
            LET new_usable == _memory_usable_size(_memory_reallocate(block, n))
            IN /\ new_usable >= n
               /\ n > usable => 3 * new_usable >= 4 * usable
=============================================================================
