----------------------- MODULE StandAloneBuddyManager -----------------------
(***************************************************************************)
(* include/BuddyManager/StandAloneBuddyManager.h: a buddy allocator over   *)
(* one chunk given to its constructor.  Its alloc and free call themselves *)
(* with twice the size; here every recursive call, and every return of     *)
(* alloc, is an action, so that what each level relies on can be stated.   *)
(* One thread calls it.                                                    *)
(***************************************************************************)
EXTENDS BuddyManagerMeta, SequencesExt

CONSTANT RequestSizes  \* the sizes clients ask for

\* Whole blocks, as in the test: get_sizeclass rounds down.
ASSUME RequestAssumption ==
  RequestSizes \subseteq {get_size(szc) : szc \in SizeClass}

Cell == {i * MinAllocSize : i \in 0..(PageSize \div MinAllocSize - 1)}

VARIABLES
  m_freelist,  \* m_freelist[szc]: offsets of the free blocks, top first
  m_bitmap,    \* m_meta.m_bitmap: the bits that are 1
  allocated,   \* the <<offset, class>> clients have
  pc,          \* "idle"; "alloc" going up, "split" coming back; "free"
  want,        \* alloc: the class of the outermost call
  szc,         \* the class of the call that runs
  ptr,         \* the block that call has in hand
  reclaim      \* what the last free returned

vars == <<m_freelist, m_bitmap, allocated, pc, want, szc, ptr, reclaim>>

Init ==
  /\ m_freelist = [s \in SizeClass |-> IF s = TopClass THEN <<0>> ELSE <<>>]
  /\ m_bitmap = {}
  /\ allocated = {}
  /\ pc = "idle"
  /\ want = 0 /\ szc = 0 /\ ptr = 0
  /\ reclaim = FALSE

Buddy == get_buddy(ptr, szc)

Free(offset, s) == block_is_free(m_bitmap, offset, s)
-----------------------------------------------------------------------------
(* alloc *)

CallAlloc(size) ==
  /\ pc = "idle"
  /\ pc' = "alloc"
  /\ want' = get_sizeclass(size)
  /\ szc' = want'
  /\ UNCHANGED <<m_freelist, m_bitmap, allocated, ptr, reclaim>>

AllocPops ==
  /\ pc = "alloc"
  /\ m_freelist[szc] # <<>>
  /\ ptr' = Head(m_freelist[szc])
  /\ m_freelist' = [m_freelist EXCEPT ![szc] = Tail(@)]
  /\ m_bitmap' = m_bitmap \cup {get_bitmap_index(ptr', szc)}
  /\ pc' = "split"
  /\ UNCHANGED <<allocated, want, szc, reclaim>>

ClassAbove == szc + 1

\* alloc(size * 2)
AllocGoesUp ==
  /\ pc = "alloc"
  /\ m_freelist[szc] = <<>>
  /\ szc # TopClass
  /\ szc' = ClassAbove
  /\ UNCHANGED <<m_freelist, m_bitmap, allocated, pc, want, ptr, reclaim>>

\* The size is beyond the page: every call on the way up returns nullptr.
AllocFails ==
  /\ pc = "alloc"
  /\ m_freelist[szc] = <<>>
  /\ szc = TopClass
  /\ pc' = "idle"
  /\ want' = 0 /\ szc' = 0
  /\ UNCHANGED <<m_freelist, m_bitmap, allocated, ptr, reclaim>>

\* Mutant (each before the definition it would replace): the half that is kept
\* is not marked.
BitsOfHalfForgotten == m_bitmap

BitsOfHalf == m_bitmap \cup {get_bitmap_index(ptr, szc - 1)}

\* A call returns to the one of half the size, which frees the upper half.
AllocSplits ==
  /\ pc = "split"
  /\ szc # want
  /\ szc' = szc - 1
  /\ m_freelist' = [m_freelist EXCEPT ![szc - 1] = <<get_buddy(ptr, szc - 1)>> \o @]
  /\ m_bitmap' = BitsOfHalf
  /\ UNCHANGED <<allocated, pc, want, ptr, reclaim>>

AllocReturns ==
  /\ pc = "split"
  /\ szc = want
  /\ allocated' = allocated \cup {<<ptr, szc>>}
  /\ pc' = "idle"
  /\ want' = 0 /\ szc' = 0 /\ ptr' = 0
  /\ UNCHANGED <<m_freelist, m_bitmap, reclaim>>
-----------------------------------------------------------------------------
(* free *)

CallFree(offset, s) ==
  /\ pc = "idle"
  /\ <<offset, s>> \in allocated
  /\ allocated' = allocated \ {<<offset, s>>}
  /\ pc' = "free"
  /\ ptr' = offset
  /\ szc' = s
  /\ UNCHANGED <<m_freelist, m_bitmap, want, reclaim>>

\* Mutant: the bit of the merged half stays 1.
BitsNotCleared == m_bitmap

BitsAfterFree == m_bitmap \ {get_bitmap_index(ptr, szc)}

BuddyRemoved(list) == RemoveFirst(list, Buddy)

MergesAlways == szc # TopClass  \* mutant: the buddy's bit is not asked

Merges == szc # TopClass /\ Free(Buddy, szc)

\* free(min(ptr, buddy), size * 2)
FreeMerges ==
  /\ pc = "free"
  /\ Merges
  /\ m_bitmap' = BitsAfterFree
  /\ m_freelist' = [m_freelist EXCEPT ![szc] = BuddyRemoved(@)]
  /\ ptr' = IF ptr < Buddy THEN ptr ELSE Buddy
  /\ szc' = szc + 1
  /\ UNCHANGED <<allocated, pc, want, reclaim>>

FreeEnds ==
  /\ pc = "free"
  /\ ~Merges
  /\ m_bitmap' = BitsAfterFree
  /\ m_freelist' = [m_freelist EXCEPT ![szc] = <<ptr>> \o @]
  /\ reclaim' = (szc = TopClass)
  /\ pc' = "idle"
  /\ szc' = 0 /\ ptr' = 0
  /\ UNCHANGED <<allocated, want>>
-----------------------------------------------------------------------------
Recursion ==
  AllocPops \/ AllocGoesUp \/ AllocFails \/ AllocSplits \/ AllocReturns \/ FreeMerges \/ FreeEnds

Next ==
  \/ \E size \in RequestSizes : CallAlloc(size)
  \/ \E b \in allocated : CallFree(b[1], b[2])
  \/ Recursion

Spec == Init /\ [][Next]_vars
-----------------------------------------------------------------------------
InList(s) == Range(m_freelist[s])

CellsOf(offset, s) == {u \in Cell : offset <= u /\ u < offset + get_size(s)}

\* The blocks that are free, in use or in the hand of a running call.
InHand == IF pc \in {"split", "free"} THEN {<<ptr, szc>>} ELSE {}
Blocks == allocated \cup InHand \cup UNION {InList(s) \X {s} : s \in SizeClass}

\* Type invariant: the fields and the locals of the running call.
TypeOK ==
  /\ m_freelist \in [SizeClass -> Seq(Cell)]
  /\ m_bitmap \subseteq BitIndex
  /\ allocated \subseteq Cell \X SizeClass
  /\ pc \in {"idle", "alloc", "split", "free"}
  /\ want \in SizeClass /\ szc \in SizeClass /\ ptr \in Cell
  /\ reclaim \in BOOLEAN

\* At every depth of both recursions the chunk is covered exactly once by
\* free blocks, clients' blocks and the block in hand: nothing is handed out
\* twice, listed twice or lost (StandAloneBuddyManager.h:65-103).
MemoryTiled ==
  /\ \A a, b \in Blocks : a # b => CellsOf(a[1], a[2]) \cap CellsOf(b[1], b[2]) = {}
  /\ UNION {CellsOf(b[1], b[2]) : b \in Blocks} = Cell
  /\ \A s \in SizeClass : IsInjective(m_freelist[s])

\* A bit is 0 exactly for free blocks, listed or inside a larger one: the
\* asserts of BuddyManagerMeta.h:149,162 hold at every depth, and the buddy
\* that free removes is in the list it is removed from.
BitsMatchLists ==
  \A s \in SizeClass : \A offset \in OffsetsOf(s) :
    (pc = "free" => <<ptr, szc>> # <<offset, s>>) =>
      (~Free(offset, s) <=>
         \E b \in allocated \cup InHand : CellsOf(offset, s) \cap CellsOf(b[1], b[2]) # {}
                                          /\ b[2] <= s)

\* Lists, bits and blocks describe one and the same division of the chunk.
ChunkConsistent == TypeOK /\ MemoryTiled /\ BitsMatchLists

\* free says that the whole chunk is free exactly when it is
\* (test/testBuddyManager.cpp:56-62 relies on it).
FreeTellsReclaim ==
  [][(pc = "free" /\ pc' = "idle") => (reclaim' <=> allocated = {})]_vars

\* alloc fails only when no aligned range of the size is free.
FailsOnlyWhenFull ==
  [][AllocFails =>
       \A offset \in OffsetsOf(want) :
         \E b \in allocated : CellsOf(offset, want) \cap CellsOf(b[1], b[2]) # {}]_vars
=============================================================================
