--------------------------- MODULE SlabSizeClass ---------------------------
(***************************************************************************)
(* The tables of include/SlabSizeClass.h and what the allocators make of   *)
(* them: Heap chooses a slab allocator by size_to_sizeclass[size - 1], and *)
(* builds each one with the object and page size of its class.             *)
(***************************************************************************)
EXTENDS Request

NUM_SIZE_CLASSES == 99
SizeClass == 0..(NUM_SIZE_CLASSES - 1)

\* size_to_sizeclass lists the classes in order; this is how often it lists
\* each.
TimesListed ==
  <<40, 8, 8, 8, 8, 8, 8, 8, 8, 8, 8, 8, 8, 8, 8, 8, 8, 8, 8, 8, 8, 8, 8,
    8, 8, 8, 8, 8, 8, 8, 16, 16, 16, 16, 16, 16, 16, 24, 24, 24, 24,
    24, 24, 24, 24, 32, 32, 32, 32, 40, 40, 40, 40, 40, 48, 48, 48,
    56, 56, 56, 64, 64, 64, 72, 72, 80, 80, 88, 96, 96, 104, 104, 112,
    112, 120, 128, 136, 144, 152, 152, 160, 176, 184, 192, 200, 208,
    216, 232, 240, 256, 264, 280, 296, 304, 320, 336, 256, 384, 384>>

\* Where the entries of each class begin.
FirstIndex ==
  LET first[c \in 0..NUM_SIZE_CLASSES] == IF c = 0 THEN 0 ELSE first[c - 1] + TimesListed[c]
  IN  [c \in 0..NUM_SIZE_CLASSES |-> first[c]]

TableLength == FirstIndex[NUM_SIZE_CLASSES]

size_to_sizeclass ==
  [i \in 0..(TableLength - 1) |->
     CHOOSE c \in SizeClass : FirstIndex[c] <= i /\ i < FirstIndex[c + 1]]

AllocSizes ==
  <<40, 48, 56, 64, 72, 80, 88, 96, 104, 112, 120, 128, 136, 144, 152,
    160, 168, 176, 184, 192, 200, 208, 216, 224, 232, 240, 248, 256,
    264, 272, 288, 304, 320, 336, 352, 368, 384, 408, 432, 456, 480,
    504, 528, 552, 576, 608, 640, 672, 704, 744, 784, 824, 864, 904,
    952, 1000, 1048, 1104, 1160, 1216, 1280, 1344, 1408, 1480, 1552,
    1632, 1712, 1800, 1896, 1992, 2096, 2200, 2312, 2424, 2544, 2672,
    2808, 2952, 3104, 3256, 3416, 3592, 3776, 3968, 4168, 4376, 4592,
    4824, 5064, 5320, 5584, 5864, 6160, 6464, 6784, 7120, 7376, 7760,
    8144>>

sizeclass_to_allocsize == [c \in SizeClass |-> AllocSizes[c + 1]]

\* Mutant (each before the definition it would replace): every page is of the
\* smallest size.
SmallPages == [c \in SizeClass |-> 4096]

sizeclass_to_pagesize ==
  [c \in SizeClass |-> CASE c < 19 -> 4096
                         [] c \in 19..35 -> 8192
                         [] c \in 36..49 -> 16384
                         [] c \in 50..63 -> 32768
                         [] c \in 64..77 -> 65536
                         [] c \in 78..91 -> 131072
                         [] c > 91 -> 262144]
-----------------------------------------------------------------------------
(* What the slab allocator makes of an object and a page size. *)

\* SLAB_PAGE_SKIP_SIZE: the header of 16 bytes and the list node, two words.
SkipSize == 16 + 2 * 8

max_alloc_count(c) == (sizeclass_to_pagesize[c] - SkipSize) \div sizeclass_to_allocsize[c]

\* ADDRESS_OF, from the start of the page.
AddressOf(c, index) == SkipSize + index * sizeclass_to_allocsize[c]

\* The header's fields are uint16_t.
UINT16_MAX == 65535
FitsField(n) == n \in 0..UINT16_MAX
-----------------------------------------------------------------------------
\* Mutant: sizes are not counted from 1.
class_of_uncorrected(n) == size_to_sizeclass[n]

\* HeapImpl::alloc and free.
class_of(n) == size_to_sizeclass[n - 1]

\* Every request is given the smallest object that holds it: the two tables
\* agree, at every boundary between classes (Heap.cpp:61-72).
BestClass ==
  size <= TableLength =>
  LET fitting == {c \in SizeClass : size <= sizeclass_to_allocsize[c]}
  IN /\ class_of(size) \in fitting
     /\ \A c \in fitting : class_of(size) <= c

\* Powers of two, from a system page to a chunk.
PageSizes ==
  {4096 * n : n \in {1, 2, 4, 8, 16, 32, 64, 128, 256, 512, 1024}}

\* The pages asked for are pages the buddy allocator can serve, aligned to
\* their size as get_page masks pointers by it (BuddyManager.h:52-53,
\* SlabAllocator.cpp:50-53), and they are large enough for a slab: two
\* objects at least, the last one inside the page, and counters and indexes,
\* the end-of-list index included, that fit their 16 bits.
PageServesClass ==
  size <= TableLength =>
  LET c == class_of(size)
      count == max_alloc_count(c)
  IN /\ sizeclass_to_pagesize[c] \in PageSizes
     /\ count >= 2
     /\ AddressOf(c, count) <= sizeclass_to_pagesize[c]
     /\ AddressOf(c, count + 1) > sizeclass_to_pagesize[c]
     /\ FitsField(count) /\ FitsField(sizeclass_to_allocsize[c])
=============================================================================
