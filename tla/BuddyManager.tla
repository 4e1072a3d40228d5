---------------------------- MODULE BuddyManager ----------------------------
(***************************************************************************)
(* The buddy allocator of src/BuddyManager.cpp: chunks of PageSize from a  *)
(* supplier, split and merged in powers of two.  The free lists run        *)
(* through the free blocks themselves, and each free block also stores the *)
(* address of its chunk's bookkeeping node (BuddyFreeNode::meta), in       *)
(* memory the last client has written over.  It has no locks: one thread   *)
(* calls it, so alloc, free and the destructor are one action each.        *)
(***************************************************************************)
EXTENDS BuddyManagerMeta, SequencesExt, FiniteSets

CONSTANTS
  Chunk,        \* chunk addresses the supplier can hand out
  Meta,         \* addresses it can hand out for bookkeeping nodes
  Null,         \* nullptr
  AllocLimit,   \* the constructor's alloc_limit
  Modulus,      \* 2^64 in the code: m_alloc_limit is unsigned
  RequestSizes  \* the sizes clients ask for

ASSUME NullAssumption == Null \notin Chunk \cup Meta
ASSUME LimitAssumption == Modulus \in Nat /\ AllocLimit \in 0..(Modulus - 1)

\* Clients ask for whole blocks: the page sizes of SlabSizeClass.h and the
\* sizes of the tests are all powers of two.
ASSUME RequestAssumption ==
  RequestSizes \subseteq {get_size(szc) : szc \in SizeClass}

Cell == {i * MinAllocSize : i \in 0..(PageSize \div MinAllocSize - 1)}
Node == Chunk \X Cell   \* a block, by its chunk and its offset in it

VARIABLES
  m_freelist,       \* m_freelist[szc]: the free blocks of the class, top first
  node_meta,        \* node_meta[n]: the word BuddyFreeNode::meta at address n
  bitmap,           \* bitmap[m]: m->meta.m_bitmap, the bits that are 1
  m_managed_chunk,  \* m_managed_chunk[m]: m->m_managed_chunk
  m_chunk_meta_map, \* the hash map from chunks to bookkeeping nodes
  m_alloc_limit,
  m_chunk_count,
  supplied,         \* what the supplier handed out and has not got back
  allocated,        \* the <<chunk, offset, size>> clients have not freed
  alive             \* FALSE once the destructor has run

vars == <<m_freelist, node_meta, bitmap, m_managed_chunk, m_chunk_meta_map,
          m_alloc_limit, m_chunk_count, supplied, allocated, alive>>

Init ==
  /\ m_freelist = [szc \in SizeClass |-> <<>>]
  /\ node_meta = [n \in Node |-> Null]
  /\ bitmap = [m \in Meta |-> {}]
  /\ m_managed_chunk = [m \in Meta |-> Null]
  /\ m_chunk_meta_map = [c \in Chunk |-> Null]
  /\ m_alloc_limit = AllocLimit
  /\ m_chunk_count = 0
  /\ supplied = {}
  /\ allocated = {}
  /\ alive = TRUE

CellsOf(c, offset, size) == {<<c, u>> : u \in {v \in Cell : offset <= v /\ v < offset + size}}
-----------------------------------------------------------------------------
(* alloc *)

\* The class alloc_internal finds a block in: the first, from szc upwards,
\* whose list is not empty.
ClassFound(freelist, szc, l) ==
  /\ l \in szc..TopClass
  /\ freelist[l] # <<>>
  /\ \A s \in szc..(l - 1) : freelist[s] = <<>>

CanAlloc(freelist, szc) == \E l \in SizeClass : ClassFound(freelist, szc, l)

\* alloc_internal: take the block of class l and, on the way back down to
\* szc, give the upper half to the list of each class.  `freelist', `metas'
\* and `bits' are the state it starts from.
AllocInternal(freelist, metas, bits, szc, l) ==
  LET n == Head(freelist[l])
      c == n[1]
      offset == n[2]
      m == metas[n]
      split == szc..(l - 1)
      half(s) == <<c, get_buddy(offset, s)>>
      halves == {half(s) : s \in split}
      taken == CellsOf(c, offset, get_size(szc))
  IN /\ m_freelist' = [s \in SizeClass |->
                         IF s = l THEN Tail(freelist[s])
                         ELSE IF s \in split THEN <<half(s)>> \o freelist[s]
                         ELSE freelist[s]]
     \* The block's own words are the client's from now on.
     /\ node_meta' = [x \in Node |-> IF x \in halves THEN m
                                     ELSE IF x \in taken THEN Null
                                     ELSE metas[x]]
     /\ bitmap' = [bits EXCEPT ![m] = @ \cup {get_bitmap_index(offset, s) : s \in szc..l}]

AllocFromFreeBlock(size) ==
  LET szc == get_sizeclass(size) IN
  /\ alive
  /\ \E l \in SizeClass :
       /\ ClassFound(m_freelist, szc, l)
       /\ AllocInternal(m_freelist, node_meta, bitmap, szc, l)
       /\ allocated' = allocated \cup {<<Head(m_freelist[l])[1], Head(m_freelist[l])[2], size>>}
  /\ UNCHANGED <<m_managed_chunk, m_chunk_meta_map, m_alloc_limit, m_chunk_count,
                 supplied, alive>>

\* Mutant (each before the definition it would replace): no limit.
NeedsChunkNoLimit(size) ==
  /\ alive
  /\ ~CanAlloc(m_freelist, get_sizeclass(size))

NeedsChunk(size) ==
  /\ alive
  /\ ~CanAlloc(m_freelist, get_sizeclass(size))
  /\ m_alloc_limit # 0

\* alloc_chunk gets a bookkeeping node m and a chunk c; the chunk becomes the
\* one free block of the top class and is split at once.
AllocFromNewChunk(size, m, c) ==
  LET szc == get_sizeclass(size)
      freelist == [m_freelist EXCEPT ![TopClass] = <<<<c, 0>>>> \o @]
      metas == [node_meta EXCEPT ![<<c, 0>>] = m]
      bits == [bitmap EXCEPT ![m] = {}]
  IN /\ NeedsChunk(size)
     /\ m # c /\ {m, c} \cap supplied = {}
     /\ supplied' = supplied \cup {m, c}
     /\ m_chunk_meta_map' = [m_chunk_meta_map EXCEPT ![c] = m]
     /\ m_managed_chunk' = [m_managed_chunk EXCEPT ![m] = c]
     /\ m_alloc_limit' = (m_alloc_limit - PageSize) % Modulus  \* may wrap
     /\ m_chunk_count' = m_chunk_count + 1
     /\ AllocInternal(freelist, metas, bits, szc, TopClass)
     /\ allocated' = allocated \cup {<<c, 0, size>>}
     /\ UNCHANGED alive

\* The supplier has memory for the bookkeeping node but no chunk: the node
\* goes back.  (With no memory for the node either, nothing happens at all.)
KeepNode(outstanding, m) == outstanding  \* mutant: the node is forgotten

GiveBack(outstanding, m) == outstanding \ {m}

AllocChunkRefused(size, m) ==
  /\ NeedsChunk(size)
  /\ m \notin supplied
  /\ supplied' = GiveBack(supplied \cup {m}, m)
  /\ UNCHANGED <<m_freelist, node_meta, bitmap, m_managed_chunk, m_chunk_meta_map,
                 m_alloc_limit, m_chunk_count, allocated, alive>>
-----------------------------------------------------------------------------
(* free *)

ClassNoMerge(m, offset, szc, t) == t = szc  \* mutant: nothing is merged

\* The class free_internal ends at: it merges as long as the buddy is free.
ClassReached(m, offset, szc, t) ==
  LET buddyFree(s) ==
        block_is_free(bitmap[m], get_buddy(EnclosingBlock(offset, s), s), s)
  IN /\ t \in szc..TopClass
     /\ \A s \in szc..(t - 1) : buddyFree(s)
     /\ t # TopClass => ~buddyFree(t)

\* free_internal up to the push: the buddies merged with leave their lists.
\* The merged block's first words are written only where the merging stops.
FreeInternal(m, c, offset, szc, t) ==
  /\ bitmap' = [bitmap EXCEPT ![m] =
                  @ \ {get_bitmap_index(EnclosingBlock(offset, s), s) : s \in szc..t}]
  /\ node_meta' = [node_meta EXCEPT ![<<c, EnclosingBlock(offset, t)>>] = m]

ListsKeepBuddies(c, offset, szc, t) == m_freelist  \* mutant: no remove()

MergedLists(c, offset, szc, t) ==
  [s \in SizeClass |->
     IF s \in szc..(t - 1)
     THEN RemoveFirst(m_freelist[s], <<c, get_buddy(EnclosingBlock(offset, s), s)>>)
     ELSE m_freelist[s]]

\* A chunk with nothing in use is given back unless it is the only one.
ReleasesChunk == m_chunk_count > 1

\* free_chunk.  The memory of both is the supplier's, who may write over it.
FreeChunk(m) ==
  LET c == m_managed_chunk[m] IN
  /\ bitmap' = [bitmap EXCEPT ![m] = {}]
  /\ node_meta' = [n \in Node |-> IF n[1] = c THEN Null ELSE node_meta[n]]
  /\ m_managed_chunk' = [m_managed_chunk EXCEPT ![m] = Null]
  /\ supplied' = supplied \ {c, m}
  /\ m_chunk_meta_map' = [m_chunk_meta_map EXCEPT ![c] = Null]
  /\ m_alloc_limit' = (m_alloc_limit + PageSize) % Modulus
  /\ m_chunk_count' = m_chunk_count - 1

\* The block that free_internal ends with goes onto the list of its class.
KeepBlock(lists, n, t) ==
  /\ m_freelist' = [lists EXCEPT ![t] = <<n>> \o @]
  /\ UNCHANGED <<supplied, m_chunk_meta_map, m_managed_chunk, m_alloc_limit, m_chunk_count>>

Free(c, offset, size) ==
  LET szc == get_sizeclass(size)
      m == m_chunk_meta_map[c]
  IN /\ alive
     /\ <<c, offset, size>> \in allocated
     /\ allocated' = allocated \ {<<c, offset, size>>}
     /\ \E t \in SizeClass :
          LET lists == MergedLists(c, offset, szc, t)
              chunk == IF t = TopClass THEN m_managed_chunk[m] ELSE c
          IN
          /\ ClassReached(m, offset, szc, t)
          /\ IF t = TopClass /\ ReleasesChunk
             THEN FreeChunk(m) /\ m_freelist' = lists
             ELSE /\ FreeInternal(m, c, offset, szc, t)
                  /\ KeepBlock(lists, <<chunk, EnclosingBlock(offset, t)>>, t)
     /\ UNCHANGED alive
-----------------------------------------------------------------------------
\* ~BuddyManager: every chunk in the map goes back, with its node.
Destroy ==
  /\ alive
  /\ alive' = FALSE
  /\ supplied' = supplied \ UNION {{c, m_chunk_meta_map[c]} :
                                     c \in {d \in Chunk : m_chunk_meta_map[d] # Null}}
  /\ allocated' = {}
  /\ UNCHANGED <<m_freelist, node_meta, bitmap, m_managed_chunk, m_chunk_meta_map,
                 m_alloc_limit, m_chunk_count>>

Alloc(size) ==
  \/ AllocFromFreeBlock(size)
  \/ \E m \in Meta, c \in Chunk : AllocFromNewChunk(size, m, c)
  \/ \E m \in Meta : AllocChunkRefused(size, m)

Next ==
  \/ \E size \in RequestSizes : Alloc(size)
  \/ \E b \in allocated : Free(b[1], b[2], b[3])
  \/ Destroy

Spec == Init /\ [][Next]_vars
-----------------------------------------------------------------------------
LiveChunks == {c \in Chunk : m_chunk_meta_map[c] # Null}

InList(szc) == Range(m_freelist[szc])

\* Type invariant: the fields of BuddyManager.h:86-92 and the chunks' words.
TypeOK ==
  /\ m_freelist \in [SizeClass -> Seq(Node)]
  /\ node_meta \in [Node -> Meta \cup {Null}]
  /\ bitmap \in [Meta -> SUBSET BitIndex]
  /\ m_managed_chunk \in [Meta -> Chunk \cup {Null}]
  /\ m_chunk_meta_map \in [Chunk -> Meta \cup {Null}]
  /\ m_alloc_limit \in 0..(Modulus - 1)
  /\ m_chunk_count \in Nat
  /\ supplied \subseteq Chunk \cup Meta
  /\ allocated \subseteq Chunk \X Cell \X RequestSizes
  /\ alive \in BOOLEAN

\* A block is in the list of its class exactly when its bit says free and the
\* block it is half of is split (in use, and not handed out whole): remove()
\* is only ever called on a node that is linked, however blocks were split and
\* merged before (BuddyManager.cpp:111-161; asserts BuddyManagerMeta.h:149,162).
ListsMatchBitmap ==
  alive =>
  \A szc \in SizeClass :
     /\ \A i, j \in 1..Len(m_freelist[szc]) :
          m_freelist[szc][i] = m_freelist[szc][j] => i = j
     /\ InList(szc) \subseteq LiveChunks \X OffsetsOf(szc)
     /\ \A c \in LiveChunks, offset \in OffsetsOf(szc) :
          LET bits == bitmap[m_chunk_meta_map[c]]
              split(s) == /\ ~block_is_free(bits, EnclosingBlock(offset, s), s)
                          /\ <<c, EnclosingBlock(offset, s), get_size(s)>> \notin allocated
          IN <<c, offset>> \in InList(szc)
               <=> /\ block_is_free(bits, offset, szc)
                   /\ szc # TopClass => split(szc + 1)

\* Free blocks and clients' blocks tile every chunk: no memory is handed out
\* twice, none is lost, and none of a chunk already given back is in use.
MemoryTiled ==
  alive =>
  LET blocks == {<<b[1], b[2], b[3]>> : b \in allocated}
        \cup UNION {{<<n[1], n[2], get_size(szc)>> : n \in InList(szc)} : szc \in SizeClass}
  IN /\ UNION {CellsOf(b[1], b[2], b[3]) : b \in blocks} = LiveChunks \X Cell
     /\ \A a, b \in blocks : a # b => CellsOf(a[1], a[2], a[3]) \cap CellsOf(b[1], b[2], b[3]) = {}

\* Memory that is free is also found: whenever some aligned range of a size
\* is free, alloc can serve that size without a new chunk, so merging never
\* leaves two free halves apart (BuddyManager.cpp:150-156).
FreeRangeIsFound ==
  alive =>
  \A szc \in SizeClass, c \in LiveChunks :
     \A offset \in OffsetsOf(szc) :
        (\A b \in allocated : CellsOf(c, offset, get_size(szc)) \cap CellsOf(b[1], b[2], b[3]) = {})
          => CanAlloc(m_freelist, szc)

\* The meta word of every listed block names the live bookkeeping node of its
\* chunk, although clients and earlier owners of the memory wrote there
\* (BuddyManager.cpp:121-131 reads it; 128, 146, 158, 181 write it).
ListedMetaValid ==
  alive =>
  \A szc \in SizeClass : \A n \in InList(szc) :
     /\ node_meta[n] # Null
     /\ node_meta[n] = m_chunk_meta_map[n[1]]
     /\ m_managed_chunk[node_meta[n]] = n[1]

\* The lists, the bitmaps and the meta words agree.
FreeSpaceListed == TypeOK /\ ListsMatchBitmap /\ ListedMetaValid

\* A chunk with nothing in use is kept only when it is the only chunk.
OneSpareChunk == alive => (InList(TopClass) # {} => m_chunk_count = 1)

\* Nothing obtained from the supplier is lost or given back twice: chunks and
\* their nodes go in pairs, and the destructor returns all of them, also
\* after an alloc_chunk that failed half way (BuddyManager.cpp:28-73).
NothingLeaked ==
  /\ alive => supplied = LiveChunks \cup {m_chunk_meta_map[c] : c \in LiveChunks}
  /\ ~alive => supplied = {}
  /\ \A c, d \in LiveChunks : c # d => m_chunk_meta_map[c] # m_chunk_meta_map[d]
  /\ m_chunk_count = Cardinality(LiveChunks)

\* What is held of the supplier is accounted for and no more than is needed.
ChunksAccounted == OneSpareChunk /\ NothingLeaked

\* For any limit m_alloc_limit is what the chunks held leave of it, as an
\* unsigned number, and a limit of whole chunks is never exceeded.  Any other
\* limit wraps below zero at BuddyManager.cpp:58 and bounds nothing, for the
\* test of line 173 only looks for zero; as the chunks go back, what is left
\* comes back over zero all the same.
LimitRespected ==
  /\ m_alloc_limit = (AllocLimit - m_chunk_count * PageSize) % Modulus
  /\ AllocLimit % PageSize = 0 => m_chunk_count * PageSize <= AllocLimit

\* The allocator implements the abstract pool of blocks.
AllBlocks == {CellsOf(c, offset, size) : c \in Chunk, offset \in Cell, size \in RequestSizes}
Pool == INSTANCE BlockPool
  WITH Blocks <- AllBlocks, inUse <- {CellsOf(b[1], b[2], b[3]) : b \in allocated}
IsBlockPool == Pool!BSpec
=============================================================================
