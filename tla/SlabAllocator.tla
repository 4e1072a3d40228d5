--------------------------- MODULE SlabAllocator ---------------------------
(***************************************************************************)
(* One slab allocator (src/SlabAllocator.cpp): pages cut into MaxCount     *)
(* equal objects, owned by one thread.  The owner allocates and frees with *)
(* no synchronisation; every other thread gives objects back through the   *)
(* lock-free list of FreeListAtomic, whose link is the first word of the   *)
(* freed object itself, the word that also holds the page's own free list. *)
(*                                                                         *)
(* The owner's alloc and free touch only memory no other thread accesses,  *)
(* so each is one action.  remote_free and popAll interleave access by     *)
(* access, and each round of the reclaim loop is an action of its own,     *)
(* because pushes go on during it.                                         *)
(***************************************************************************)
EXTENDS Integers, FiniteSets, SequencesExt

CONSTANTS
  Page,            \* the pages the page supplier can hand out
  MaxCount,        \* m_max_object_count: objects in a page
  Thread,          \* the threads
  Owner,           \* the thread that owns the allocator
  Null,            \* nullptr
  SpuriousFailure  \* may a compare_exchange_weak fail for no reason?

\* Every size class of SlabSizeClass.h has at least 21 objects in a page.
ASSUME MaxCountAssumption == MaxCount \in Nat /\ MaxCount >= 2
ASSUME OwnerAssumption == Owner \in Thread
ASSUME SpuriousAssumption == SpuriousFailure \in BOOLEAN

Slot == 0..(MaxCount - 1)
Object == Page \X Slot
PageOf(o) == o[1]
SlotOf(o) == o[2]

ASSUME NullAssumption == Null \notin Page \cup Object

VARIABLES
  header,            \* header[g]: SlabPageHeader of page g
  word,              \* word[o]: the first word of object o's memory
  pages,             \* the pages held from the page supplier
  m_page_count,      \* the counter of them
  m_first_page,      \* the page alloc takes from
  m_freelist,        \* pages with some objects free
  m_fullpages_list,  \* pages with none
  held,              \* held[t]: objects thread t may use (client state)
  m_head, pc, arg, hd, content, batch  \* m_remote_freelist, see FreeListAtomic

pageVars == <<header, pages, m_page_count, m_first_page, m_freelist, m_fullpages_list>>
listVars == <<m_head, pc, arg, hd, content, batch>>
vars == <<pageVars, word, held, listVars>>

\* No thread uses the list's pop, so its local is never assigned.
Remote == INSTANCE FreeListAtomic
  WITH Node <- Object, next <- word, owned <- held, Pushers <- Thread,
       Poppers <- {}, Drainers <- {Owner}, nx <- [t \in Thread |-> Null]
-----------------------------------------------------------------------------
(* The contents of an object's first word *)

Data == <<"data">>            \* whatever a client wrote
IndexWord(i) == <<"index", i>>
IndexIn(w) == w[2]

NewHeader ==
  [m_next_object |-> 0, m_native_fl |-> MaxCount, m_free_count |-> MaxCount]

Init ==
  /\ header = [g \in Page |-> NewHeader]
  /\ word = [o \in Object |-> Data]
  /\ pages = {}
  /\ m_page_count = 0
  /\ m_first_page = Null
  /\ m_freelist = <<>>
  /\ m_fullpages_list = <<>>
  /\ held = [t \in Thread |-> {}]
  /\ Remote!ListInit
-----------------------------------------------------------------------------
(* alloc *)

\* Mutant (here and below, each before the definition it would replace): the
\* free list keeps the object it hands out.
HeaderKeepsListHead(g, h) ==
  IF h.m_next_object < MaxCount
  THEN [h EXCEPT !.m_next_object = @ + 1, !.m_free_count = @ - 1]
  ELSE [h EXCEPT !.m_free_count = @ - 1]

\* SlabPageHeader::alloc: bump allocation first, then the page's free list.
SlotToTake(h) == IF h.m_next_object < MaxCount THEN h.m_next_object ELSE h.m_native_fl

HeaderAfterAlloc(g, h) ==
  IF h.m_next_object < MaxCount
  THEN [h EXCEPT !.m_next_object = @ + 1, !.m_free_count = @ - 1]
  ELSE [h EXCEPT !.m_native_fl = IndexIn(word[<<g, h.m_native_fl>>]),
                 !.m_free_count = @ - 1]

\* alloc_from_first_page, with g the first page and h its header.  The memory
\* is the client's from here on, so its first word may hold anything.
AllocFrom(g, h) ==
  LET o == <<g, SlotToTake(h)>>
      after == HeaderAfterAlloc(g, h)
      full == after.m_free_count = 0
  IN /\ o \in Object
     /\ header' = [header EXCEPT ![g] = after]
     /\ word' = [word EXCEPT ![o] = Data]
     /\ held' = [held EXCEPT ![Owner] = @ \cup {o}]
     /\ m_first_page' = IF full THEN Null ELSE g
     /\ m_fullpages_list' = IF full THEN Append(m_fullpages_list, g) ELSE m_fullpages_list
     /\ UNCHANGED listVars

\* The reclaim after the return of this branch is never reached: alloc does
\* not look at the remote list.
AllocFromFirstPage ==
  /\ pc[Owner] = "idle"
  /\ m_first_page # Null
  /\ AllocFrom(m_first_page, header[m_first_page])
  /\ UNCHANGED <<pages, m_page_count, m_freelist>>

AllocFromFreelist ==
  /\ pc[Owner] = "idle"
  /\ m_first_page = Null
  /\ m_freelist # <<>>
  /\ AllocFrom(Head(m_freelist), header[Head(m_freelist)])
  /\ m_freelist' = Tail(m_freelist)
  /\ UNCHANGED <<pages, m_page_count>>

\* When the supplier has no page alloc returns nullptr and changes nothing.
AllocFromNewPage(g) ==
  /\ pc[Owner] = "idle"
  /\ m_first_page = Null
  /\ m_freelist = <<>>
  /\ g \notin pages
  /\ pages' = pages \cup {g}
  /\ m_page_count' = m_page_count + 1
  /\ AllocFrom(g, NewHeader)
  /\ UNCHANGED m_freelist

Alloc == AllocFromFirstPage \/ AllocFromFreelist \/ \E g \in Page : AllocFromNewPage(g)
-----------------------------------------------------------------------------
(* free *)

HeaderAfterFree(o) ==
  [header[PageOf(o)] EXCEPT !.m_native_fl = SlotOf(o), !.m_free_count = @ + 1]

FreedWord(o) == IndexWord(header[PageOf(o)].m_native_fl)

\* The cases of free: o's page gets the header after, the objects' words w.

\* Mutant: the page stays on the list of full pages too.
FreeKeepsPageListedFull(o, after, w) ==
  /\ after.m_free_count = 1
  /\ m_freelist' = Append(m_freelist, PageOf(o))
  /\ word' = w
  /\ UNCHANGED <<pages, m_page_count, m_fullpages_list>>

\* The page had no free object: alloc may use it again.
FreeIntoFullPage(o, after, w) ==
  /\ after.m_free_count = 1
  /\ m_fullpages_list' = RemoveFirst(m_fullpages_list, PageOf(o))
  /\ m_freelist' = Append(m_freelist, PageOf(o))
  /\ word' = w
  /\ UNCHANGED <<pages, m_page_count>>

\* The page's memory goes back to the supplier.
ReleasePage(g) ==
  /\ m_freelist' = RemoveFirst(m_freelist, g)
  /\ pages' = pages \ {g}
  /\ m_page_count' = m_page_count - 1
  /\ word' = [x \in Object |-> IF PageOf(x) = g THEN Data ELSE word[x]]
  /\ UNCHANGED m_fullpages_list

\* Mutant: a page is released one object too early.
FreeReleasesEarly(o, after, w) ==
  /\ after.m_free_count = MaxCount - 1
  /\ PageOf(o) # m_first_page
  /\ ReleasePage(PageOf(o))

\* The page has no object in use and is not the one alloc takes from.  The
\* page goes back to the supplier; it is kept only when the allocator counts
\* no page at all.
FreeLastOfPage(o, after, w) ==
  LET g == PageOf(o) IN
  /\ after.m_free_count = MaxCount
  /\ after.m_free_count # 1
  /\ g # m_first_page
  /\ IF m_page_count # 0
     THEN ReleasePage(g)
     ELSE /\ m_freelist' = <<g>> \o RemoveFirst(m_freelist, g)
          /\ word' = w
          /\ UNCHANGED <<pages, m_page_count, m_fullpages_list>>

FreeIntoUsedPage(o, after, w) ==
  /\ after.m_free_count # 1
  /\ after.m_free_count = MaxCount => PageOf(o) = m_first_page
  /\ word' = w
  /\ UNCHANGED <<pages, m_page_count, m_freelist, m_fullpages_list>>

FreeObject(o, after, w) ==
  /\ header' = [header EXCEPT ![PageOf(o)] = after]
  /\ FreeIntoFullPage(o, after, w) \/ FreeLastOfPage(o, after, w) \/ FreeIntoUsedPage(o, after, w)
  /\ UNCHANGED m_first_page

\* The whole of free, by the thread that owns the allocator.
FreeNow(o) == FreeObject(o, HeaderAfterFree(o), [word EXCEPT ![o] = FreedWord(o)])

Free(o) ==
  /\ pc[Owner] = "idle"
  /\ o \in held[Owner]
  /\ held' = [held EXCEPT ![Owner] = @ \ {o}]
  /\ FreeNow(o)
  /\ UNCHANGED listVars
-----------------------------------------------------------------------------
(* remote_free and reclaim_remote_free *)

RemoteFree(t, o) == Remote!CallPush(t, o) /\ UNCHANGED pageVars

RemoteFreeStep(t) == Remote!Push(t) /\ UNCHANGED pageVars

ReclaimRemoteFree == Remote!CallPopAll(Owner) /\ UNCHANGED pageVars

ReclaimPopAll == Remote!PopAll(Owner) /\ UNCHANGED pageVars

\* Mutant: get_next() is read after free() has used the word for its index.
ReclaimReadsNextLate ==
  /\ pc[Owner] = "walk"
  /\ FreeNow(hd[Owner])
  /\ hd' = [hd EXCEPT ![Owner] = word'[hd[Owner]]]
  /\ batch' = [batch EXCEPT ![Owner] = Tail(@)]
  /\ pc' = [pc EXCEPT ![Owner] = IF word'[hd[Owner]] = Null THEN "idle" ELSE "walk"]
  /\ UNCHANGED <<m_head, arg, content, held>>

\* One round of the loop: get_next() is read before free() overwrites the word.
ReclaimRound ==
  /\ Remote!WalkLinks(Owner)
  /\ FreeNow(hd[Owner])
  /\ UNCHANGED held
-----------------------------------------------------------------------------
\* The program passes a pointer from one thread to another.
HandOver(t, u, o) ==
  /\ t # u /\ o \in held[t]
  /\ held' = [held EXCEPT ![t] = @ \ {o}, ![u] = @ \cup {o}]
  /\ UNCHANGED <<pageVars, word, listVars>>

OwnerStep ==
  \/ Alloc
  \/ \E o \in Object : Free(o)
  \/ ReclaimRemoteFree
  \/ ReclaimPopAll
  \/ ReclaimRound

ThreadStep(t) ==
  \/ \E o \in Object : RemoteFree(t, o)
  \/ RemoteFreeStep(t)
  \/ \E u \in Thread, o \in Object : HandOver(t, u, o)

Next == OwnerStep \/ \E t \in Thread : ThreadStep(t)

Spec == Init /\ [][Next]_vars

\* A thread inside a call keeps running until it returns; nobody is obliged
\* to make a call.
FairSpec ==
  /\ Spec
  /\ WF_vars(ReclaimPopAll \/ ReclaimRound)
  /\ \A t \in Thread : WF_vars(RemoteFreeStep(t))
-----------------------------------------------------------------------------
Returned == Range(content) \cup Range(batch[Owner]) \cup ({arg[t] : t \in Thread} \ {Null})

\* The objects no free has been applied to yet.
InUse == Returned \cup UNION {held[t] : t \in Thread}

InUseOf(g) == {o \in InUse : PageOf(o) = g}

\* Type invariant: the fields of SlabAllocator.h:119-158 and the words.
TypeOK ==
  /\ header \in [Page -> [m_next_object : 0..MaxCount, m_native_fl : 0..MaxCount,
                          m_free_count : 0..MaxCount]]
  /\ word \in [Object -> {Data, Null} \cup Object \cup {IndexWord(i) : i \in 0..MaxCount}]
  /\ pages \subseteq Page
  /\ m_page_count \in Nat
  /\ m_first_page \in pages \cup {Null}
  /\ m_freelist \in Seq(pages)
  /\ m_fullpages_list \in Seq(pages)
  /\ held \in [Thread -> SUBSET Object]

\* No object outlives its page: a page goes back to the supplier only when
\* none of its objects is held, queued on the remote list, in a push in
\* flight, or later in the chain the reclaim loop is walking
\* (SlabAllocator.cpp:134-143 during 161-167).
NoUseAfterRelease == \A o \in InUse : PageOf(o) \in pages

\* The i-th slot of page g's own free list, MaxCount past its end.
NativeSlot(g) ==
  LET f[i \in 0..MaxCount] ==
        IF i = 0 THEN header[g].m_native_fl
        ELSE IF f[i - 1] = MaxCount THEN MaxCount
        ELSE IndexIn(word[<<g, f[i - 1]>>])
  IN f

\* The free count and the free list inside the objects agree with who holds
\* what: the list visits every freed slot once and then ends, although
\* clients and the remote list wrote over the same words in between
\* (SlabAllocator.h:60-98).
PageAccountingExact ==
  \A g \in pages :
     LET h == header[g]
         freed == {i \in 0..(h.m_next_object - 1) : <<g, i>> \notin InUse}
     IN /\ h.m_free_count = MaxCount - Cardinality(InUseOf(g))
        /\ \A o \in InUseOf(g) : SlotOf(o) < h.m_next_object
        /\ {NativeSlot(g)[i] : i \in 0..(Cardinality(freed) - 1)} = freed
        /\ NativeSlot(g)[Cardinality(freed)] = MaxCount

\* Every page is in exactly one place, the place its free count says: full
\* pages on the full list, the page alloc takes from has room (the assert of
\* SlabAllocator.cpp:80), and so has every other page.  An empty page is kept
\* on the list only when it is the last page (SlabAllocator.cpp:76-152).
PagePlacement ==
  /\ TypeOK
  /\ m_page_count = Cardinality(pages)
  /\ Cardinality(pages) = Len(m_freelist) + Len(m_fullpages_list)
                            + (IF m_first_page = Null THEN 0 ELSE 1)
  /\ pages = Range(m_freelist) \cup Range(m_fullpages_list) \cup ({m_first_page} \ {Null})
  /\ \A g \in Range(m_fullpages_list) : header[g].m_free_count = 0
  /\ \A g \in Range(m_freelist) : /\ header[g].m_free_count > 0
                                  /\ header[g].m_free_count = MaxCount => pages = {g}
  /\ m_first_page # Null => header[m_first_page].m_free_count > 0

\* The slab allocator has had a page, and every object has been freed and
\* reclaimed.
EverythingFreed == InUse = {} /\ \E g \in Page : header[g].m_next_object > 0

\* The last page is kept for the next alloc: what test/testSlabAllocator.cpp:125
\* requires of size(), and what the test at SlabAllocator.cpp:140 is for.  It is
\* false: the count tested includes the page that is being freed.
OnePageLeft == EverythingFreed => m_page_count = 1

\* The remote list stays a proper chain although its links share the words
\* of clients' data and of the pages' own free lists.
RemoteListIntact == Remote!ListIntact /\ Remote!BatchIntact

\* The allocator implements the abstract pool: no object is handed out while
\* somebody holds it or its remote free is still on its way.
Pool == INSTANCE ObjectPool WITH returned <- Returned
IsObjectPool == Pool!PSpec

\* A reclaim returns, however the other threads' pushes get in its way: each
\* failed swap of popAll is another thread's finished push, and the objects
\* they can push run out while the owner is not allocating.
ReclaimReturns == pc[Owner] \in {"popall_load", "popall_cas", "walk"} ~> pc[Owner] = "idle"
=============================================================================
