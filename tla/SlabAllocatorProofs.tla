------------------------ MODULE SlabAllocatorProofs ------------------------
(***************************************************************************)
(* Proofs that the slab allocator never hands out an object twice, counts  *)
(* and lists the objects of a page exactly, keeps every page where its     *)
(* count says and never releases one that is in use, for any number of     *)
(* pages, objects in a page and threads, with remote frees under way.      *)
(* Then the tables of size classes, for any largest request: those the     *)
(* slab allocator is given, and those rpmalloc.c computes.                 *)
(***************************************************************************)
EXTENDS SlabAllocator, SlabSizeClass, RpSizeClass, SequenceFacts

\* Facts about chains of links, proved beside the lock-free list.
Chains == INSTANCE FreeListAtomicProofs
  WITH Node <- Object, next <- word, owned <- held, Pushers <- Thread,
       Poppers <- {}, Drainers <- {Owner}, nx <- [t \in Thread |-> Null]

ObjectOrNull == Object \cup {Null}

Labels == {"idle", "push_load", "push_link", "push_cas",
           "popall_load", "popall_cas", "walk"}
-----------------------------------------------------------------------------
(* The inductive invariant *)

\* The remote list's variables; only the owner drains it.
ListTypeOK ==
  /\ m_head \in ObjectOrNull
  /\ pc \in [Thread -> Labels]
  /\ arg \in [Thread -> ObjectOrNull]
  /\ hd \in [Thread -> ObjectOrNull]
  /\ content \in Seq(Object)
  /\ batch \in [Thread -> Seq(Object)]
  /\ \A t \in Thread : pc[t] \in {"popall_load", "popall_cas", "walk"} => t = Owner
  /\ pc[Owner] \in {"popall_cas", "walk"} => hd[Owner] \in Object

\* What a thread knows inside remote_free: its object, and between linking it
\* and the swap the link it wrote.
PushLinked ==
  \A t \in Thread :
     /\ (pc[t] \in {"push_load", "push_link", "push_cas"}) <=> (arg[t] # Null)
     /\ pc[t] = "push_cas" => word[arg[t]] = hd[t]

\* The chains of Remote!ListIntact and Remote!BatchIntact.
ChainsIntact ==
  /\ Remote!Chained(word, m_head, content)
  /\ \A t \in Thread :
       IF pc[t] = "walk"
       THEN batch[t] # <<>> /\ Remote!Chained(word, hd[t], batch[t])
       ELSE batch[t] = <<>>

\* An object is held by one thread, or in one push, or queued once, or once in
\* the chain the reclaim walks.
OnePlace ==
  /\ NoRepeat(content)
  /\ NoRepeat(batch[Owner])
  /\ Range(content) \cap Range(batch[Owner]) = {}
  /\ \A t \in Thread :
       /\ held[t] \cap (Range(content) \cup Range(batch[Owner])) = {}
       /\ arg[t] \notin Range(content) \cup Range(batch[Owner])
       /\ \A u \in Thread : /\ arg[t] \notin held[u]
                            /\ t # u => held[t] \cap held[u] = {}
                            /\ t # u /\ arg[t] # Null => arg[t] # arg[u]

Header == [m_next_object : 0..MaxCount, m_native_fl : 0..MaxCount,
           m_free_count : 0..MaxCount]

\* The objects of page g among those in use.
UsedOf(g, used) == {o \in used : PageOf(o) = g}

\* The slots of page g that were handed out and have been freed since.
Freed(g, h, used) == {i \in 0..(h.m_next_object - 1) : <<g, i>> \notin used}

\* The i-th slot of a page's free list s, MaxCount past its end.
SlotAt(s, i) == IF i <= Len(s) THEN s[i] ELSE MaxCount

\* With header h and words w, the free list of page g visits the slots of s in
\* turn: each freed one once.
NativeList(g, h, used, w, s) ==
  /\ NoRepeat(s)
  /\ Range(s) = Freed(g, h, used)
  /\ h.m_native_fl = SlotAt(s, 1)
  /\ \A i \in 1..Len(s) : w[<<g, s[i]>>] = IndexWord(SlotAt(s, i + 1))

\* The header and the free list of page g agree with the objects in use.
PageExact(g, h, used, w) ==
  /\ h.m_free_count = MaxCount - Cardinality(UsedOf(g, used))
  /\ \A o \in UsedOf(g, used) : SlotOf(o) < h.m_next_object
  /\ \E s \in Seq(Slot) : NativeList(g, h, used, w, s)

PagesExact == \A g \in pages : PageExact(g, header[g], InUse, word)

\* Where the pages are as the code is: no empty page stays on a list, the last
\* one neither, as its count includes the page being freed (SlabAllocator.cpp:140).
PagesPlaced ==
  /\ TypeOK
  /\ m_page_count = Cardinality(pages)
  /\ Cardinality(pages) = Len(m_freelist) + Len(m_fullpages_list)
                            + (IF m_first_page = Null THEN 0 ELSE 1)
  /\ pages = Range(m_freelist) \cup Range(m_fullpages_list) \cup ({m_first_page} \ {Null})
  /\ \A g \in Range(m_fullpages_list) : header[g].m_free_count = 0
  /\ \A g \in Range(m_freelist) : header[g].m_free_count \in 1..(MaxCount - 1)
  /\ m_first_page # Null => header[m_first_page].m_free_count > 0

\* Each page is listed once.
ListedOnce ==
  /\ IsFiniteSet(pages)
  /\ NoRepeat(m_freelist)
  /\ NoRepeat(m_fullpages_list)
  /\ Range(m_freelist) \cap Range(m_fullpages_list) = {}
  /\ m_first_page \notin Range(m_freelist) \cup Range(m_fullpages_list)

IInv ==
  /\ ListTypeOK
  /\ PushLinked
  /\ ChainsIntact
  /\ OnePlace
  /\ NoUseAfterRelease
  /\ PagesExact
  /\ PagesPlaced
  /\ ListedOnce
-----------------------------------------------------------------------------
(* One page *)

\* An object is its page and its slot.
LEMMA ObjectFacts ==
  /\ \A o \in Object : PageOf(o) \in Page /\ SlotOf(o) \in Slot /\ o = <<PageOf(o), SlotOf(o)>>
  /\ \A g \in Page, i \in Slot :
       <<g, i>> \in Object /\ PageOf(<<g, i>>) = g /\ SlotOf(<<g, i>>) = i
  /\ Null \notin Object /\ Null \notin Page
  BY NullAssumption DEF Object, PageOf, SlotOf

\* A page has MaxCount objects, so no more than that are in use.
LEMMA UsedFacts ==
  ASSUME NEW g \in Page, NEW used \in SUBSET Object
  PROVE  /\ IsFiniteSet(UsedOf(g, used))
         /\ Cardinality(UsedOf(g, used)) \in 0..MaxCount
         /\ (\A i \in Slot : <<g, i>> \in used) <=> Cardinality(UsedOf(g, used)) = MaxCount
         /\ UsedOf(g, used) = {} <=> Cardinality(UsedOf(g, used)) = 0
<1> DEFINE all == {g} \X Slot
           u == UsedOf(g, used)
<1>1. MaxCount \in Nat /\ 0 \in Int /\ MaxCount - 1 \in Int
  BY MaxCountAssumption
<1>2. IsFiniteSet(Slot) /\ Cardinality(Slot) = MaxCount
  BY <1>1, FS_Interval DEF Slot
<1>3. ExistsBijection(Slot, all)
  <2> DEFINE f == [i \in Slot |-> <<g, i>>]
  <2>1. f \in Bijection(Slot, all)
    BY DEF Bijection, Injection, IsInjective, Surjection
  <2> QED BY <2>1 DEF ExistsBijection
<1>4. IsFiniteSet(all) /\ Cardinality(all) = MaxCount
  BY <1>2, <1>3, FS_Bijection
<1>5. u \in SUBSET all
  BY ObjectFacts DEF UsedOf
<1>6. u = all <=> \A i \in Slot : <<g, i>> \in used
  BY <1>5, ObjectFacts DEF UsedOf
<1> HIDE DEF all, u
<1>7. IsFiniteSet(u) /\ Cardinality(u) <= MaxCount /\ (Cardinality(u) = MaxCount => u = all)
  BY <1>4, <1>5, FS_Subset
<1>8. Cardinality(u) \in Nat /\ (u = {} <=> Cardinality(u) = 0)
  BY <1>7, FS_CardinalityType, FS_EmptySet
<1> QED BY <1>1, <1>4, <1>6, <1>7, <1>8 DEF u

\* What SlabPageHeader::alloc assigns when it takes the next object.
LEMMA HeaderBump ==
  ASSUME NEW h \in Header, h.m_next_object + 1 \in 0..MaxCount,
         h.m_free_count - 1 \in 0..MaxCount,
         NEW e, e = [h EXCEPT !.m_next_object = @ + 1, !.m_free_count = @ - 1]
  PROVE  /\ e \in Header /\ e.m_next_object = h.m_next_object + 1
         /\ e.m_free_count = h.m_free_count - 1 /\ e.m_native_fl = h.m_native_fl
<1>1. e.m_next_object = h.m_next_object + 1
  BY DEF Header
<1>2. e.m_free_count = h.m_free_count - 1
  BY DEF Header
<1>3. e.m_native_fl = h.m_native_fl
  BY DEF Header
<1>4. e \in Header
  BY DEF Header
<1> QED BY <1>1, <1>2, <1>3, <1>4

\* A page's own state is exact as long as nobody allocates or frees in it or
\* writes to its free objects.
LEMMA PageFrame ==
  ASSUME NEW g \in Page, NEW h \in Header, NEW used, NEW used2, NEW w, NEW w2,
         PageExact(g, h, used, w),
         UsedOf(g, used2) = UsedOf(g, used),
         \A i \in Slot : <<g, i>> \notin used => w2[<<g, i>>] = w[<<g, i>>]
  PROVE  PageExact(g, h, used2, w2)
<1>1. PICK s \in Seq(Slot) : NativeList(g, h, used, w, s)
  BY DEF PageExact
<1>2. \A i \in Slot : <<g, i>> \in used <=> <<g, i>> \in used2
  BY DEF UsedOf, PageOf
<1>3. 0..(h.m_next_object - 1) \subseteq Slot
  BY MaxCountAssumption DEF Header, Slot
<1>4. Freed(g, h, used2) = Freed(g, h, used)
  BY <1>2, <1>3 DEF Freed
<1>5. \A i \in 1..Len(s) : s[i] \in Slot /\ s[i] \in Range(s)
  BY RangeFacts
<1>6. \A i \in 1..Len(s) : w2[<<g, s[i]>>] = w[<<g, s[i]>>]
  BY <1>1, <1>5 DEF NativeList, Freed
<1>7. NativeList(g, h, used2, w2, s)
  BY <1>1, <1>4, <1>6 DEF NativeList
<1> QED BY <1>7 DEF PageExact

\* A page from the supplier has no freed slot.
LEMMA PageNew ==
  ASSUME NEW g \in Page, NEW used, NEW w, UsedOf(g, used) = {}
  PROVE  NewHeader \in Header /\ PageExact(g, NewHeader, used, w)
<1>1. NewHeader \in Header
  BY MaxCountAssumption DEF NewHeader, Header
<1>2. Freed(g, NewHeader, used) = {}
  BY DEF Freed, NewHeader
<1>3. /\ NewHeader.m_native_fl = MaxCount
      /\ NewHeader.m_free_count = MaxCount - 0
  BY MaxCountAssumption DEF NewHeader
<1>4. <<>> \in Seq(Slot)
  OBVIOUS
<1>5. SlotAt(<<>>, 1) = MaxCount /\ 1..Len(<<>>) = {}
  BY EmptyFacts DEF SlotAt
<1>6. NativeList(g, NewHeader, used, w, <<>>)
  BY <1>2, <1>3, <1>5, EmptyFacts DEF NativeList
<1>7. Cardinality(UsedOf(g, used)) = 0
  BY FS_EmptySet
<1> QED BY <1>1, <1>3, <1>4, <1>6, <1>7 DEF PageExact

\* SlabPageHeader::alloc takes an object that is not in use, the next one or
\* the first of the page's free list, and leaves the page exact.
LEMMA PageAlloc ==
  ASSUME NEW g \in Page, NEW h \in Header, NEW used \in SUBSET Object, NEW w2,
         PageExact(g, h, used, word), h.m_free_count > 0,
         NEW h2, h2 = HeaderAfterAlloc(g, h),
         NEW o, o = <<g, SlotToTake(h)>>,
         \A i \in Slot : <<g, i>> # o => w2[<<g, i>>] = word[<<g, i>>]
  PROVE  /\ o \in Object \ used
         /\ h2 \in Header
         /\ h2.m_free_count = h.m_free_count - 1
         /\ PageExact(g, h2, used \cup {o}, w2)
<1> DEFINE u == used \cup {o}
           fl == h.m_native_fl
<1>0. /\ MaxCount \in Nat /\ Slot = 0..(MaxCount - 1)
      /\ h.m_next_object \in 0..MaxCount /\ h.m_free_count \in 0..MaxCount
      /\ fl \in 0..MaxCount
  BY MaxCountAssumption DEF Header, Slot
<1>1. PICK s \in Seq(Slot) : NativeList(g, h, used, word, s)
  BY DEF PageExact
<1>2. /\ NoRepeat(s) /\ Range(s) = Freed(g, h, used)
      /\ fl = SlotAt(s, 1)
      /\ \A i \in 1..Len(s) : word[<<g, s[i]>>] = IndexWord(SlotAt(s, i + 1))
  BY <1>1 DEF NativeList
<1>3. \A i \in 1..Len(s) : s[i] \in Slot /\ s[i] \in Range(s)
  BY RangeFacts
<1>4. \A x \in UsedOf(g, used) : SlotOf(x) < h.m_next_object
  BY DEF PageExact
<1>5. Cardinality(UsedOf(g, used)) = MaxCount - h.m_free_count
  <2>1. /\ h.m_free_count = MaxCount - Cardinality(UsedOf(g, used))
        /\ Cardinality(UsedOf(g, used)) \in 0..MaxCount
    BY UsedFacts DEF PageExact
  <2> QED BY <2>1, <1>0
<1>6. ASSUME o \in Object, o \notin used
      PROVE  h.m_free_count - 1 = MaxCount - Cardinality(UsedOf(g, u))
  <2>1. UsedOf(g, u) = UsedOf(g, used) \cup {o} /\ o \notin UsedOf(g, used)
    BY <1>6 DEF UsedOf, PageOf
  <2>2. Cardinality(UsedOf(g, u)) = Cardinality(UsedOf(g, used)) + 1
    <3>1. IsFiniteSet(UsedOf(g, used))
      BY UsedFacts
    <3> QED BY <2>1, <3>1, FS_AddElement
  <2> QED BY <2>2, <1>0, <1>5
<1>7. CASE h.m_next_object < MaxCount
  <2>1. h2 = [h EXCEPT !.m_next_object = @ + 1, !.m_free_count = @ - 1]
    BY <1>7 DEF HeaderAfterAlloc
  <2>2. /\ h2 \in Header /\ h2.m_next_object = h.m_next_object + 1
        /\ h2.m_free_count = h.m_free_count - 1 /\ h2.m_native_fl = fl
    <3>1. h.m_next_object + 1 \in 0..MaxCount /\ h.m_free_count - 1 \in 0..MaxCount
      BY <1>0, <1>7
    <3> QED BY <2>1, <3>1, HeaderBump
  <2>3. SlotToTake(h) = h.m_next_object /\ h.m_next_object \in Slot
    BY <1>0, <1>7 DEF SlotToTake
  <2>4. o \in Object /\ SlotOf(o) = h.m_next_object /\ PageOf(o) = g
    BY <2>3, ObjectFacts
  <2>5. o \notin used
    BY <2>4, <1>4, <1>0 DEF UsedOf
  <2>6. Freed(g, h2, u) = Freed(g, h, used)
    <3>1. \A i \in 0..h.m_next_object : <<g, i>> \in u <=> <<g, i>> \in used \/ i = h.m_next_object
      BY <2>3
    <3>2. 0..(h2.m_next_object - 1) = 0..(h.m_next_object - 1) \cup {h.m_next_object}
      BY <2>2, <1>0, SMTT(30)
    <3>3. h.m_next_object \notin 0..(h.m_next_object - 1) /\ 0..(h.m_next_object - 1) \subseteq 0..h.m_next_object
      BY <1>0
    <3> QED BY <3>1, <3>2, <3>3 DEF Freed
  <2>7. \A i \in 1..Len(s) : <<g, s[i]>> # o
    <3>1. h.m_next_object \notin Freed(g, h, used)
      BY <1>0 DEF Freed
    <3> QED BY <3>1, <1>2, <1>3, <2>3
  <2>8. NativeList(g, h2, u, w2, s)
    BY <1>2, <1>3, <2>2, <2>6, <2>7 DEF NativeList
  <2>9. \A x \in UsedOf(g, u) : SlotOf(x) < h2.m_next_object
    <3>1. ASSUME NEW x \in UsedOf(g, used) PROVE SlotOf(x) < h2.m_next_object
      <4>1. SlotOf(x) \in Slot /\ SlotOf(x) < h.m_next_object
        BY <1>4, ObjectFacts DEF UsedOf
      <4> QED BY <4>1, <1>0, <2>2
    <3>2. SlotOf(o) < h2.m_next_object
      BY <2>2, <2>4, <1>0
    <3> QED BY <3>1, <3>2 DEF UsedOf
  <2> QED BY <1>6, <2>2, <2>4, <2>5, <2>8, <2>9 DEF PageExact
<1>8. CASE ~(h.m_next_object < MaxCount)
  <2>1. h2 = [h EXCEPT !.m_native_fl = IndexIn(word[<<g, fl>>]), !.m_free_count = @ - 1]
    BY <1>8 DEF HeaderAfterAlloc
  <2>2. h.m_next_object = MaxCount
    BY <1>0, <1>8
  <2>3. s # <<>>
    <3>1. Cardinality(UsedOf(g, used)) # MaxCount
      BY <1>0, <1>5
    <3>2. PICK i \in Slot : <<g, i>> \notin used
      BY <3>1, UsedFacts
    <3>3. i \in Range(s)
      BY <3>2, <2>2, <1>0, <1>2 DEF Freed
    <3> QED BY <3>3, EmptyFacts
  <2>4. /\ Tail(s) \in Seq(Slot) /\ Len(s) \in Nat \ {0} /\ Len(Tail(s)) = Len(s) - 1
        /\ \A i \in 1..(Len(s) - 1) : Tail(s)[i] = s[i + 1]
    BY <2>3, TailFacts
  <2>5. /\ Head(s) = s[1] /\ Head(s) \in Range(s)
        /\ Range(Tail(s)) = Range(s) \ {Head(s)} /\ NoRepeat(Tail(s))
    BY <2>3, <1>2, TailRange
  <2>6. fl = s[1] /\ fl \in Freed(g, h, used) /\ fl \in Slot
    BY <2>4, <2>5, <1>2, <1>3 DEF SlotAt
  <2>7. o = <<g, fl>> /\ o \in Object /\ o \notin used
    BY <2>6, <1>8, ObjectFacts DEF SlotToTake, Freed
  <2>8. IndexIn(word[<<g, fl>>]) = SlotAt(s, 2)
    <3>1. 1 \in 1..Len(s) /\ 1 + 1 = 2
      BY <2>4
    <3>2. word[<<g, fl>>] = IndexWord(SlotAt(s, 2))
      BY <3>1, <2>6, <1>2
    <3> QED BY <3>2 DEF IndexIn, IndexWord
  <2>9. SlotAt(s, 2) = SlotAt(Tail(s), 1) /\ SlotAt(s, 2) \in 0..MaxCount
    BY <2>4, <1>0, <1>3 DEF SlotAt
  <2>10. /\ h2 \in Header /\ h2.m_next_object = MaxCount
         /\ h2.m_free_count = h.m_free_count - 1
         /\ h2.m_native_fl = SlotAt(Tail(s), 1)
    <3>1. h.m_free_count - 1 \in 0..MaxCount
      BY <1>0
    <3>2. PICK c \in 0..MaxCount : c = h.m_free_count - 1
      BY <3>1
    <3>3. PICK x \in 0..MaxCount : x = SlotAt(Tail(s), 1)
      BY <2>9
    <3>4. h2 = [h EXCEPT !.m_native_fl = x, !.m_free_count = c]
      BY <3>2, <3>3, <2>1, <2>8, <2>9
    <3>5. h2.m_next_object = h.m_next_object /\ h2.m_native_fl = x /\ h2.m_free_count = c
      BY <3>4 DEF Header
    <3>6. h2 = [m_next_object |-> h.m_next_object, m_native_fl |-> x, m_free_count |-> c]
      BY <3>4 DEF Header
    <3>7. h2 \in Header
      BY <3>2, <3>3, <3>6, <1>0 DEF Header
    <3> QED BY <3>2, <3>3, <3>5, <3>7, <2>2
  <2>11. Freed(g, h2, u) = Freed(g, h, used) \ {fl}
    <3>1. \A i \in Slot : <<g, i>> \in u <=> <<g, i>> \in used \/ i = fl
      BY <2>7
    <3> QED BY <3>1, <2>2, <2>10, <1>0 DEF Freed
  <2>12. ASSUME NEW i \in 1..Len(Tail(s))
         PROVE  w2[<<g, Tail(s)[i]>>] = IndexWord(SlotAt(Tail(s), i + 1))
    <3>1. i + 1 \in 1..Len(s) /\ Tail(s)[i] = s[i + 1]
      BY <2>4
    <3>2. SlotAt(Tail(s), i + 1) = SlotAt(s, (i + 1) + 1)
      BY <2>4, <3>1 DEF SlotAt
    <3>3. s[i + 1] # fl
      <4>1. 1 \in 1..Len(s) /\ i + 1 # 1
        BY <3>1, <2>4
      <4> QED BY <3>1, <4>1, <2>6, <1>2 DEF NoRepeat
    <3>4. s[i + 1] \in Slot /\ <<g, s[i + 1]>> # o
      BY <3>1, <3>3, <2>7, <1>3
    <3> QED BY <3>1, <3>2, <3>4, <1>2
  <2>13. NativeList(g, h2, u, w2, Tail(s))
    BY <1>2, <2>5, <2>6, <2>10, <2>11, <2>12 DEF NativeList
  <2>14. \A x \in UsedOf(g, u) : SlotOf(x) < h2.m_next_object
    <3>1. u \subseteq Object
      BY <2>7
    <3> QED BY <3>1, <2>10, <1>0, ObjectFacts DEF UsedOf
  <2> QED BY <1>6, <2>4, <2>7, <2>10, <2>13, <2>14 DEF PageExact
<1> QED BY <1>7, <1>8

\* SlabPageHeader::free puts an object in use in front of the page's free
\* list; the count reaches MaxCount when it was the last one in use.
LEMMA PageFree ==
  ASSUME NEW g \in Page, NEW h \in Header, h = header[g],
         NEW used \in SUBSET Object, NEW w, NEW w2,
         PageExact(g, h, used, w),
         NEW o \in used, PageOf(o) = g,
         NEW h2, h2 = HeaderAfterFree(o),
         w2[o] = FreedWord(o),
         \A i \in Slot : <<g, i>> # o => w2[<<g, i>>] = w[<<g, i>>]
  PROVE  /\ h2 \in Header
         /\ h2.m_free_count = h.m_free_count + 1
         /\ h2.m_free_count = MaxCount => UsedOf(g, used \ {o}) = {}
         /\ PageExact(g, h2, used \ {o}, w2)
<1> DEFINE u == used \ {o}
           k == SlotOf(o)
<1>after. /\ h2 = [h EXCEPT !.m_native_fl = k, !.m_free_count = @ + 1]
      /\ w2[o] = IndexWord(h.m_native_fl)
  BY DEF HeaderAfterFree, FreedWord
<1>0. /\ MaxCount \in Nat /\ Slot = 0..(MaxCount - 1)
      /\ h.m_next_object \in 0..MaxCount /\ h.m_free_count \in 0..MaxCount
      /\ h.m_native_fl \in 0..MaxCount
      /\ k \in Slot /\ o = <<g, k>> /\ o \in UsedOf(g, used)
  BY MaxCountAssumption, ObjectFacts DEF Header, Slot, UsedOf
<1>1. PICK s \in Seq(Slot) : NativeList(g, h, used, w, s)
  BY DEF PageExact
<1>2. /\ NoRepeat(s) /\ Range(s) = Freed(g, h, used)
      /\ h.m_native_fl = SlotAt(s, 1)
      /\ \A i \in 1..Len(s) : w[<<g, s[i]>>] = IndexWord(SlotAt(s, i + 1))
  BY <1>1 DEF NativeList
<1>3. \A i \in 1..Len(s) : s[i] \in Slot /\ s[i] \in Range(s)
  BY RangeFacts
<1>4. \A x \in UsedOf(g, used) : SlotOf(x) < h.m_next_object
  BY DEF PageExact
<1>5. /\ h.m_free_count = MaxCount - Cardinality(UsedOf(g, used))
      /\ Cardinality(UsedOf(g, used)) \in 0..MaxCount
      /\ Cardinality(UsedOf(g, u)) = Cardinality(UsedOf(g, used)) - 1
      /\ Cardinality(UsedOf(g, u)) \in 0..MaxCount
      /\ UsedOf(g, u) = {} <=> Cardinality(UsedOf(g, u)) = 0
  <2>1. UsedOf(g, u) = UsedOf(g, used) \ {o}
    BY DEF UsedOf
  <2>2. Cardinality(UsedOf(g, u)) = Cardinality(UsedOf(g, used)) - 1
    <3>1. IsFiniteSet(UsedOf(g, used))
      BY UsedFacts
    <3>2. o \in UsedOf(g, used)
      BY <1>0
    <3>3. Cardinality(UsedOf(g, used) \ {o}) = Cardinality(UsedOf(g, used)) - 1
      BY <3>1, <3>2, FS_RemoveElement, Zenon
    <3> QED BY <2>1, <3>3
  <2>3. u \in SUBSET Object
    OBVIOUS
  <2> QED BY <2>2, <2>3, UsedFacts DEF PageExact
<1>6. /\ h2.m_next_object = h.m_next_object /\ h2.m_native_fl = k
      /\ h2.m_free_count = h.m_free_count + 1
      /\ h2 \in Header
  <2>1. h.m_free_count + 1 \in 0..MaxCount
    BY <1>0, <1>5
  <2>2. k \in 0..MaxCount
    BY <1>0
  <2>3. PICK c \in 0..MaxCount : c = h.m_free_count + 1
    BY <2>1
  <2>4. h2.m_next_object = h.m_next_object /\ h2.m_native_fl = k
    BY <1>after DEF Header
  <2>5. h2.m_free_count = c
    BY <1>after, <2>3 DEF Header
  <2>6. h2 = [m_next_object |-> h.m_next_object, m_native_fl |-> k, m_free_count |-> c]
    BY <1>after, <2>3 DEF Header
  <2>7. h2 \in Header
    BY <2>2, <2>6, <1>0 DEF Header
  <2> QED BY <2>3, <2>4, <2>5, <2>7
<1>7. h2.m_free_count = MaxCount - Cardinality(UsedOf(g, u))
  BY <1>0, <1>5, <1>6
<1>8. Freed(g, h2, u) = {k} \cup Freed(g, h, used) /\ k \notin Freed(g, h, used)
  <2>1. k \in 0..(h.m_next_object - 1)
    BY <1>0, <1>4
  <2>2. \A i \in 0..(h.m_next_object - 1) : <<g, i>> \in u <=> <<g, i>> \in used /\ i # k
    BY <1>0
  <2> QED BY <2>1, <2>2, <1>0, <1>6 DEF Freed
<1> DEFINE c == <<k>> \o s
<1>9. /\ c \in Seq(Slot) /\ Len(s) \in Nat /\ Len(c) = Len(s) + 1 /\ c[1] = k
      /\ \A i \in 2..(Len(s) + 1) : c[i] = s[i - 1]
  BY <1>0, ConsFacts
<1>10. Range(c) = {k} \cup Range(s) /\ NoRepeat(c)
  BY <1>0, <1>2, <1>8, ConsRange
<1> HIDE DEF c
<1>11. ASSUME NEW i \in 1..Len(c) PROVE w2[<<g, c[i]>>] = IndexWord(SlotAt(c, i + 1))
  <2>1. CASE i = 1
    <3>1. SlotAt(c, 2) = SlotAt(s, 1)
      BY <1>9 DEF SlotAt
    <3>2. w2[<<g, c[1]>>] = IndexWord(SlotAt(s, 1))
      BY <1>after, <1>0, <1>2, <1>9
    <3> QED BY <2>1, <3>1, <3>2
  <2>2. CASE i # 1
    <3>1. i - 1 \in 1..Len(s) /\ c[i] = s[i - 1]
      BY <2>2, <1>9
    <3>2. SlotAt(c, i + 1) = SlotAt(s, (i - 1) + 1)
      BY <3>1, <1>9 DEF SlotAt
    <3>3. s[i - 1] # k /\ s[i - 1] \in Slot
      BY <3>1, <1>2, <1>3, <1>8
    <3>4. <<g, s[i - 1]>> # o
      BY <3>3, <1>0
    <3>5. w2[<<g, s[i - 1]>>] = w[<<g, s[i - 1]>>]
      BY <3>3, <3>4
    <3>6. w[<<g, s[i - 1]>>] = IndexWord(SlotAt(s, (i - 1) + 1))
      BY <3>1, <1>2
    <3> QED BY <3>1, <3>2, <3>5, <3>6
  <2> QED BY <2>1, <2>2
<1>12. NativeList(g, h2, u, w2, c)
  <2>1. SlotAt(c, 1) = k
    BY <1>9 DEF SlotAt
  <2> QED BY <2>1, <1>2, <1>6, <1>8, <1>10, <1>11 DEF NativeList
<1>13. \A x \in UsedOf(g, u) : SlotOf(x) < h2.m_next_object
  BY <1>4, <1>6 DEF UsedOf
<1>14. PageExact(g, h2, u, w2)
  BY <1>7, <1>9, <1>12, <1>13 DEF PageExact
<1>15. h2.m_free_count = MaxCount => UsedOf(g, u) = {}
  <2>1. ASSUME NEW n \in 0..MaxCount, MaxCount = MaxCount - n PROVE n = 0
    BY <2>1, <1>0
  <2> QED BY <2>1, <1>5, <1>7
<1> QED BY <1>6, <1>14, <1>15
-----------------------------------------------------------------------------
(* The objects in use *)

Word == {Data, Null} \cup Object \cup {IndexWord(i) : i \in 0..MaxCount}

\* The fields' types, by name.
LEMMA Types ==
  ASSUME IInv
  PROVE  /\ header \in [Page -> Header]
         /\ word \in [Object -> Word]
         /\ pages \subseteq Page
         /\ m_page_count \in Nat
         /\ m_first_page \in pages \cup {Null}
         /\ m_freelist \in Seq(pages) /\ m_fullpages_list \in Seq(pages)
         /\ held \in [Thread -> SUBSET Object]
         /\ ListTypeOK
  BY DEF IInv, PagesPlaced, TypeOK, Header, Word

\* Where an object in use is.
LEMMA InUseFacts ==
  ASSUME IInv
  PROVE  /\ InUse \in SUBSET Object
         /\ Owner \in Thread
         /\ Range(content) \subseteq Object
         /\ \A t \in Thread : Range(batch[t]) \subseteq Object
         /\ \A x : x \in InUse <=> \/ x \in Range(content)
                                   \/ x \in Range(batch[Owner])
                                   \/ x # Null /\ \E t \in Thread : arg[t] = x
                                   \/ \E t \in Thread : x \in held[t]
<1>1. Range(content) \subseteq Object /\ \A t \in Thread : Range(batch[t]) \subseteq Object
  BY Types, RangeFacts DEF ListTypeOK
<1>2. \A x : x \in InUse <=> \/ x \in Range(content)
                             \/ x \in Range(batch[Owner])
                             \/ x # Null /\ \E t \in Thread : arg[t] = x
                             \/ \E t \in Thread : x \in held[t]
  BY DEF InUse, Returned
<1>3. InUse \in SUBSET Object
  <2>1. \A t \in Thread : held[t] \subseteq Object /\ arg[t] \in Object \cup {Null}
    BY Types DEF ListTypeOK, ObjectOrNull
  <2>2. ASSUME NEW x \in InUse PROVE x \in Object
    <3>1. CASE x \in Range(content) \/ x \in Range(batch[Owner])
      BY <3>1, <1>1, OwnerAssumption
    <3>2. CASE x # Null /\ \E t \in Thread : arg[t] = x
      BY <3>2, <2>1
    <3>3. CASE \E t \in Thread : x \in held[t]
      BY <3>3, <2>1
    <3> QED BY <1>2, <3>1, <3>2, <3>3
  <2> QED BY <2>2
<1> QED BY <1>1, <1>2, <1>3, OwnerAssumption

\* A freed object is none of those a thread holds, pushes or has queued.
LEMMA OnePlaceFacts ==
  ASSUME IInv
  PROVE  /\ \A t \in Thread : \A x \in held[t] :
              /\ x \notin Range(content) /\ x \notin Range(batch[Owner])
              /\ \A u \in Thread : arg[u] # x /\ (u # t => x \notin held[u])
         /\ \A x \in Range(batch[Owner]) :
              /\ x \notin Range(content)
              /\ \A u \in Thread : arg[u] # x /\ x \notin held[u]
  BY DEF IInv, OnePlace

\* A step that allocates and frees nothing, and writes to no freed object,
\* leaves the pages as they are.
LEMMA QuietPages ==
  ASSUME IInv, UNCHANGED pageVars, InUse' = InUse,
         word' \in [Object -> Word], held' \in [Thread -> SUBSET Object],
         \A x \in Object \ InUse : word'[x] = word[x]
  PROVE  NoUseAfterRelease' /\ PagesExact' /\ PagesPlaced' /\ ListedOnce'
<1>0. /\ header' = header /\ pages' = pages /\ m_page_count' = m_page_count
      /\ m_first_page' = m_first_page /\ m_freelist' = m_freelist
      /\ m_fullpages_list' = m_fullpages_list
  BY DEF pageVars
<1>1. NoUseAfterRelease'
  BY <1>0 DEF IInv, NoUseAfterRelease
<1>2. ASSUME NEW g \in pages PROVE PageExact(g, header[g], InUse', word')
  <2>1. g \in Page /\ header[g] \in Header
    BY Types
  <2>2. \A i \in Slot : <<g, i>> \notin InUse => word'[<<g, i>>] = word[<<g, i>>]
    BY <2>1, ObjectFacts
  <2>3. PageExact(g, header[g], InUse, word)
    BY DEF IInv, PagesExact
  <2>4. UsedOf(g, InUse') = UsedOf(g, InUse)
    OBVIOUS
  <2> QED BY <2>1, <2>2, <2>3, <2>4, PageFrame
<1>3. PagesExact'
  BY <1>0, <1>2 DEF PagesExact
<1>4. PagesPlaced'
  BY <1>0 DEF IInv, PagesPlaced, TypeOK, Word
<1>5. ListedOnce'
  BY <1>0 DEF IInv, ListedOnce
<1> QED BY <1>1, <1>3, <1>4, <1>5
-----------------------------------------------------------------------------
(* The remote list's steps, and handing over *)

\* The steps that only touch the remote list or pass objects on.
QuietStep ==
  \/ \E t \in Thread, o \in Object : RemoteFree(t, o)
  \/ \E t \in Thread : RemoteFreeStep(t)
  \/ ReclaimRemoteFree
  \/ ReclaimPopAll
  \/ \E t, u \in Thread, o \in Object : HandOver(t, u, o)

\* What is pushed is in no other place.
LEMMA PushedFacts ==
  ASSUME IInv, NEW t \in Thread, pc[t] \in {"push_load", "push_link", "push_cas"}
  PROVE  /\ arg[t] \in Object /\ arg[t] \in InUse
         /\ arg[t] \notin Range(content) /\ arg[t] \notin Range(batch[Owner])
         /\ \A u \in Thread : arg[t] \notin held[u] /\ (u # t => arg[u] # arg[t])
<1>1. arg[t] \in Object /\ arg[t] # Null
  BY ObjectFacts DEF IInv, PushLinked, ListTypeOK, ObjectOrNull
<1>2. arg[t] \in InUse
  BY <1>1, InUseFacts
<1> QED BY <1>1, <1>2 DEF IInv, OnePlace

\* The swap of a remote free puts the object before the queued ones.
LEMMA PushSwapFacts ==
  ASSUME IInv, NEW t \in Thread, Remote!PushSwap(t)
  PROVE  /\ arg[t] \in Object /\ content \in Seq(Object)
         /\ word[arg[t]] = m_head /\ m_head' = arg[t]
         /\ content' = <<arg[t]>> \o content /\ content' \in Seq(Object)
         /\ Range(content') = Range(content) \cup {arg[t]}
         /\ NoRepeat(content')
<1>1. arg[t] \in Object /\ content \in Seq(Object) /\ arg[t] \notin Range(content)
  BY PushedFacts, Types DEF Remote!PushSwap, ListTypeOK
<1>2. /\ word[arg[t]] = m_head /\ m_head' = arg[t]
      /\ content' = <<arg[t]>> \o content
  BY DEF Remote!PushSwap, Remote!CasSucceeds, IInv, PushLinked
<1>3. <<arg[t]>> \o content \in Seq(Object)
  BY <1>1, ConsFacts
<1> QED BY <1>1, <1>2, <1>3, ConsRange DEF IInv, OnePlace

\* The swap of a reclaim takes the whole remote list.
LEMMA PopAllSwapFacts ==
  ASSUME IInv, Remote!PopAllSwap(Owner)
  PROVE  /\ content # <<>> /\ content \in Seq(Object)
         /\ hd[Owner] = m_head /\ m_head' = Null
         /\ batch[Owner] = <<>> /\ batch' = [batch EXCEPT ![Owner] = content]
         /\ content' = <<>>
<1>1. hd[Owner] = m_head /\ m_head' = Null /\ hd[Owner] \in Object
  BY DEF Remote!PopAllSwap, Remote!CasSucceeds, IInv, ListTypeOK
<1>2. content # <<>>
  BY <1>1, ObjectFacts, EmptyFacts DEF IInv, ChainsIntact, Remote!Chained, Remote!NodeAt
<1>3. batch[Owner] = <<>>
  BY OwnerAssumption DEF IInv, ChainsIntact, Remote!PopAllSwap
<1> QED BY <1>1, <1>2, <1>3, Types DEF Remote!PopAllSwap, ListTypeOK

\* Every quiet step moves objects from one place in use to another.
LEMMA QuietInUse ==
  ASSUME IInv, QuietStep
  PROVE  /\ InUse' = InUse /\ UNCHANGED pageVars
         /\ held' \in [Thread -> SUBSET Object]
         /\ word' \in [Object -> Word]
         /\ \A x \in Object \ InUse : word'[x] = word[x]
<1> DEFINE Goal == /\ InUse' = InUse /\ UNCHANGED pageVars
                   /\ held' \in [Thread -> SUBSET Object]
                   /\ word' \in [Object -> Word]
                   /\ \A x \in Object \ InUse : word'[x] = word[x]
<1>0. /\ held \in [Thread -> SUBSET Object] /\ word \in [Object -> Word] /\ Owner \in Thread
      /\ arg \in [Thread -> ObjectOrNull] /\ batch \in [Thread -> Seq(Object)]
      /\ hd \in [Thread -> ObjectOrNull] /\ ObjectOrNull \subseteq Word
  BY Types, OwnerAssumption DEF ListTypeOK, Word, ObjectOrNull
<1> DEFINE In(x) == \/ x \in Range(content)
                    \/ x \in Range(batch[Owner])
                    \/ x # Null /\ \E t \in Thread : arg[t] = x
                    \/ \E t \in Thread : x \in held[t]
<1>1. /\ \A x : x \in InUse <=> In(x)
      /\ \A x : x \in InUse' <=> In(x)'
  BY DEF InUse, Returned
<1>2. ASSUME UNCHANGED <<content, batch, arg, held>> PROVE InUse' = InUse
  BY <1>2 DEF InUse, Returned
<1>3. ASSUME NEW t \in Thread, NEW o \in Object, RemoteFree(t, o) PROVE Goal
  <2>1. /\ held' = [held EXCEPT ![t] = @ \ {o}] /\ arg' = [arg EXCEPT ![t] = o]
        /\ o \in held[t] /\ arg[t] = Null
        /\ UNCHANGED <<content, batch, word, pageVars>>
    BY <1>3 DEF RemoteFree, Remote!CallPush, IInv, PushLinked
  <2>2. \A x : In(x) <=> In(x)'
    BY <2>1, <1>0, ObjectFacts
  <2> QED BY <2>1, <2>2, <1>0, <1>1
<1>4. ASSUME NEW t \in Thread, Remote!PushLink(t), UNCHANGED pageVars PROVE Goal
  <2>1. word' = [word EXCEPT ![arg[t]] = hd[t]] /\ UNCHANGED <<content, batch, arg, held>>
    BY <1>4 DEF Remote!PushLink
  <2>2. arg[t] \in Object /\ arg[t] \in InUse
    BY <1>4, PushedFacts DEF Remote!PushLink
  <2> QED BY <2>1, <2>2, <1>0, <1>2, <1>4
<1>5. ASSUME NEW t \in Thread, Remote!PushSwap(t), UNCHANGED pageVars PROVE Goal
  <2>1. arg' = [arg EXCEPT ![t] = Null] /\ UNCHANGED <<word, held, batch>>
    BY <1>5 DEF Remote!PushSwap
  <2>2. Range(content') = Range(content) \cup {arg[t]} /\ arg[t] \in Object
    BY <1>5, PushSwapFacts
  <2>3. \A x : In(x) <=> In(x)'
    BY <2>1, <2>2, <1>0, ObjectFacts
  <2> QED BY <2>1, <2>3, <1>0, <1>1, <1>5
<1>6. ASSUME NEW t \in Thread, Remote!PushLoad(t) \/ Remote!PushRetry(t), UNCHANGED pageVars
      PROVE  Goal
  BY <1>0, <1>2, <1>6 DEF Remote!PushLoad, Remote!PushRetry
<1>7. CASE ReclaimRemoteFree
  BY <1>0, <1>2, <1>7 DEF ReclaimRemoteFree, Remote!CallPopAll
<1>8. ASSUME Remote!PopAllSwap(Owner), UNCHANGED pageVars PROVE Goal
  <2>1. UNCHANGED <<word, held, arg>>
    BY <1>8 DEF Remote!PopAllSwap
  <2>2. Range(batch[Owner]) = {} /\ Range(content') = {} /\ batch'[Owner] = content
    BY <1>0, <1>8, PopAllSwapFacts, EmptyFacts
  <2>3. \A x : In(x) <=> In(x)'
    BY <2>1, <2>2
  <2> QED BY <2>1, <2>3, <1>0, <1>1, <1>8
<1>9. ASSUME Remote!PopAllLoad(Owner) \/ Remote!PopAllRetry(Owner), UNCHANGED pageVars
      PROVE  Goal
  BY <1>0, <1>2, <1>9 DEF Remote!PopAllLoad, Remote!PopAllRetry
<1>10. ASSUME NEW t \in Thread, NEW u \in Thread, NEW o \in Object, HandOver(t, u, o)
       PROVE  Goal
  <2>1. /\ t # u /\ o \in held[t]
        /\ held' = [held EXCEPT ![t] = @ \ {o}, ![u] = @ \cup {o}]
        /\ UNCHANGED <<content, batch, arg, word, pageVars>>
    BY <1>10 DEF HandOver, listVars
  <2>2. \A x : In(x) <=> In(x)'
    BY <2>1, <1>0
  <2> QED BY <2>1, <2>2, <1>0, <1>1
<1> QED
  BY <1>3, <1>4, <1>5, <1>6, <1>7, <1>8, <1>9, <1>10
  DEF QuietStep, RemoteFreeStep, ReclaimPopAll, Remote!Push, Remote!PopAll
-----------------------------------------------------------------------------
(* Chains of objects *)

\* An object linked in front of a chain lengthens the chain by it.
LEMMA ChainCons ==
  ASSUME NEW link, NEW first, NEW s \in Seq(Object), NEW o \in Object,
         Remote!Chained(link, first, s), link[o] = first
  PROVE  Remote!Chained(link, o, <<o>> \o s)
  BY Chains!ChainedCons
  DEF Remote!Chained, Chains!Chained, Remote!NodeAt, Chains!NodeAt

\* The link of a chain's first object heads the rest of the chain.
LEMMA ChainTail ==
  ASSUME NEW link, NEW first, NEW s \in Seq(Object), s # <<>>,
         Remote!Chained(link, first, s)
  PROVE  /\ first = Head(s)
         /\ Remote!Chained(link, link[first], Tail(s))
         /\ link[first] = Null <=> Tail(s) = <<>>
<1>1. \A l, f, q : Remote!Chained(l, f, q) <=> Chains!Chained(l, f, q)
  BY DEF Remote!Chained, Chains!Chained, Remote!NodeAt, Chains!NodeAt
<1>2. /\ first = Head(s)
      /\ Chains!Chained(link, link[first], Tail(s))
      /\ link[first] = Null <=> Tail(s) = <<>>
  BY <1>1, NullAssumption, SpuriousAssumption, Chains!ChainedTail
<1> QED BY <1>1, <1>2

\* Only the links of its own objects matter to a chain.
LEMMA ChainFrame ==
  ASSUME NEW link, NEW link2, NEW first, NEW s \in Seq(Object),
         Remote!Chained(link, first, s),
         \A o \in Range(s) : link2[o] = link[o]
  PROVE  Remote!Chained(link2, first, s)
  BY Chains!ChainedFrame, RangeFacts
  DEF Remote!Chained, Chains!Chained, Remote!NodeAt, Chains!NodeAt, Chains!Range, Range

\* The chains stay as they are when no word of theirs is written.
LEMMA ChainsKept ==
  ASSUME IInv, UNCHANGED <<m_head, content, batch>>,
         \A t \in Thread : pc'[t] = "walk" <=> pc[t] = "walk",
         \A t \in Thread : pc[t] = "walk" => hd'[t] = hd[t],
         \A x \in Range(content) \cup Range(batch[Owner]) : word'[x] = word[x]
  PROVE  ChainsIntact'
<1>1. Remote!Chained(word, m_head, content) /\ content \in Seq(Object)
  BY Types DEF IInv, ChainsIntact, ListTypeOK
<1>2. Remote!Chained(word', m_head, content)
  BY <1>1, ChainFrame
<1>3. ASSUME NEW t \in Thread, pc[t] = "walk"
      PROVE  batch[t] # <<>> /\ Remote!Chained(word', hd[t], batch[t])
  <2>1. t = Owner /\ batch[t] \in Seq(Object)
    BY <1>3, Types DEF ListTypeOK
  <2>2. batch[t] # <<>> /\ Remote!Chained(word, hd[t], batch[t])
    BY <1>3 DEF IInv, ChainsIntact
  <2> QED BY <2>1, <2>2, ChainFrame
<1>4. ASSUME NEW t \in Thread, pc[t] # "walk" PROVE batch[t] = <<>>
  BY <1>4 DEF IInv, ChainsIntact
<1> QED BY <1>2, <1>3, <1>4 DEF ChainsIntact

\* Every quiet step keeps the remote list's own part of the invariant.
LEMMA QuietList ==
  ASSUME IInv, QuietStep
  PROVE  ListTypeOK' /\ PushLinked' /\ ChainsIntact' /\ OnePlace'
<1> DEFINE Goal == ListTypeOK' /\ PushLinked' /\ ChainsIntact' /\ OnePlace'
<1>0. /\ ListTypeOK /\ PushLinked /\ OnePlace
      /\ held \in [Thread -> SUBSET Object] /\ word \in [Object -> Word] /\ Owner \in Thread
      /\ \A t \in Thread : pc[t] = "walk" => batch[t] # <<>>
  BY Types, OwnerAssumption DEF IInv, ChainsIntact
<1>1. ASSUME UNCHANGED <<content, batch, arg, held>> PROVE OnePlace'
  BY <1>0, <1>1 DEF OnePlace
<1>2. ASSUME NEW t \in Thread, NEW o \in Object, RemoteFree(t, o) PROVE Goal
  <2>1. /\ pc[t] = "idle" /\ pc' = [pc EXCEPT ![t] = "push_load"]
        /\ held' = [held EXCEPT ![t] = @ \ {o}] /\ arg' = [arg EXCEPT ![t] = o]
        /\ o \in held[t]
        /\ UNCHANGED <<content, batch, word, m_head, hd>>
    BY <1>2 DEF RemoteFree, Remote!CallPush, Remote!Goto
  <2>2. ListTypeOK'
    BY <2>1, <1>0 DEF ListTypeOK, Labels, ObjectOrNull
  <2>3. PushLinked'
    BY <2>1, <1>0, ObjectFacts DEF PushLinked, ListTypeOK
  <2>4. ChainsIntact'
    BY <2>1, <1>0, ChainsKept DEF ListTypeOK
  <2>5. OnePlace'
    BY <2>1, <1>0, OnePlaceFacts DEF OnePlace, ListTypeOK
  <2> QED BY <2>2, <2>3, <2>4, <2>5
<1>3. ASSUME NEW t \in Thread, Remote!PushLoad(t) PROVE Goal
  <2>1. /\ pc[t] = "push_load" /\ pc' = [pc EXCEPT ![t] = "push_link"]
        /\ hd' = [hd EXCEPT ![t] = m_head]
        /\ UNCHANGED <<m_head, word, arg, held, content, batch>>
    BY <1>3 DEF Remote!PushLoad, Remote!Goto
  <2>2. ListTypeOK'
    BY <2>1, <1>0 DEF ListTypeOK, Labels, ObjectOrNull
  <2>3. PushLinked'
    BY <2>1, <1>0 DEF PushLinked, ListTypeOK
  <2>4. ChainsIntact'
    BY <2>1, <1>0, ChainsKept DEF ListTypeOK
  <2> QED BY <2>1, <2>2, <2>3, <2>4, <1>1
<1>4. ASSUME NEW t \in Thread, Remote!PushLink(t) PROVE Goal
  <2>1. /\ pc[t] = "push_link" /\ pc' = [pc EXCEPT ![t] = "push_cas"]
        /\ word' = [word EXCEPT ![arg[t]] = hd[t]]
        /\ UNCHANGED <<m_head, hd, arg, held, content, batch>>
    BY <1>4 DEF Remote!PushLink, Remote!Goto
  <2>2. /\ arg[t] \in Object
        /\ arg[t] \notin Range(content) /\ arg[t] \notin Range(batch[Owner])
        /\ \A u \in Thread : u # t => arg[u] # arg[t]
    BY <2>1, PushedFacts
  <2>3. ListTypeOK'
    BY <2>1, <1>0 DEF ListTypeOK, Labels, ObjectOrNull
  <2>4. PushLinked'
    <3>1. word'[arg[t]] = hd[t]
      BY <2>1, <2>2, <1>0
    <3>2. \A u \in Thread : u # t => word'[arg[u]] = word[arg[u]]
      BY <2>1, <2>2, <1>0
    <3> QED BY <2>1, <3>1, <3>2, <1>0 DEF PushLinked, ListTypeOK
  <2>5. ChainsIntact'
    BY <2>1, <2>2, <1>0, InUseFacts, ChainsKept DEF ListTypeOK
  <2> QED BY <2>1, <2>3, <2>4, <2>5, <1>1
<1>5. ASSUME NEW t \in Thread, Remote!PushSwap(t) PROVE Goal
  <2>1. /\ pc[t] = "push_cas" /\ pc' = [pc EXCEPT ![t] = "idle"]
        /\ arg' = [arg EXCEPT ![t] = Null]
        /\ UNCHANGED <<word, hd, held, batch>>
    BY <1>5 DEF Remote!PushSwap, Remote!Goto
  <2>2. /\ arg[t] \in Object /\ content \in Seq(Object)
        /\ word[arg[t]] = m_head /\ m_head' = arg[t]
        /\ content' = <<arg[t]>> \o content /\ content' \in Seq(Object)
        /\ Range(content') = Range(content) \cup {arg[t]}
        /\ NoRepeat(content')
    BY <1>5, PushSwapFacts
  <2>3. /\ arg[t] \notin Range(batch[Owner])
        /\ \A u \in Thread : arg[t] \notin held[u] /\ (u # t => arg[u] # arg[t])
    BY <2>1, PushedFacts
  <2>4. ListTypeOK'
    BY <2>1, <2>2, <1>0 DEF ListTypeOK, Labels, ObjectOrNull
  <2>5. PushLinked'
    BY <2>1, <1>0 DEF PushLinked, ListTypeOK
  <2>6. ChainsIntact'
    <3>1. Remote!Chained(word, m_head', content')
      BY <2>2, ChainCons DEF IInv, ChainsIntact
    <3>2. \A u \in Thread : pc'[u] = "walk" <=> pc[u] = "walk"
      BY <2>1, <1>0 DEF ListTypeOK
    <3> QED BY <2>1, <3>1, <3>2 DEF IInv, ChainsIntact
  <2>7. OnePlace'
    <3>1. Null \notin Range(content') /\ Null \notin Range(batch[Owner])
          /\ \A u \in Thread : Null \notin held[u]
      BY <1>0, <2>2, RangeFacts, ObjectFacts, InUseFacts
    <3>2. /\ arg'[t] = Null /\ \A u \in Thread : u # t => arg'[u] = arg[u]
          /\ held' = held /\ batch' = batch
      BY <2>1, <1>0 DEF ListTypeOK
    <3>3. /\ NoRepeat(batch[Owner]) /\ Range(content') \cap Range(batch[Owner]) = {}
      BY <2>2, <2>3, <1>0 DEF OnePlace
    <3>4. ASSUME NEW u \in Thread
          PROVE  /\ held[u] \cap (Range(content') \cup Range(batch[Owner])) = {}
                 /\ arg'[u] \notin Range(content') \cup Range(batch[Owner])
      BY <2>2, <2>3, <3>1, <3>2, <1>0 DEF OnePlace
    <3>5. ASSUME NEW u \in Thread, NEW v \in Thread
          PROVE  /\ arg'[u] \notin held[v]
                 /\ u # v => held[u] \cap held[v] = {}
                 /\ u # v /\ arg'[u] # Null => arg'[u] # arg'[v]
      BY <3>1, <3>2, <1>0 DEF OnePlace
    <3> QED BY <2>2, <3>2, <3>3, <3>4, <3>5 DEF OnePlace
  <2> QED BY <2>4, <2>5, <2>6, <2>7
<1>6. ASSUME NEW t \in Thread, Remote!PushRetry(t) PROVE Goal
  <2>1. /\ pc[t] = "push_cas" /\ pc' = [pc EXCEPT ![t] = "push_load"]
        /\ UNCHANGED <<m_head, word, arg, hd, held, content, batch>>
    BY <1>6 DEF Remote!PushRetry, Remote!Goto, Remote!CasFails
  <2>2. ListTypeOK'
    BY <2>1, <1>0 DEF ListTypeOK, Labels, ObjectOrNull
  <2>3. PushLinked'
    BY <2>1, <1>0 DEF PushLinked, ListTypeOK
  <2>4. ChainsIntact'
    BY <2>1, <1>0, ChainsKept DEF ListTypeOK
  <2> QED BY <2>1, <2>2, <2>3, <2>4, <1>1
<1>7. ASSUME ReclaimRemoteFree \/ Remote!PopAllLoad(Owner) \/ Remote!PopAllRetry(Owner)
      PROVE  Goal
  <2>1. /\ pc[Owner] \in {"idle", "popall_load", "popall_cas"}
        /\ UNCHANGED <<m_head, word, arg, held, content, batch>>
    BY <1>7 DEF ReclaimRemoteFree, Remote!CallPopAll, Remote!PopAllLoad,
                Remote!PopAllRetry, Remote!CasFails
  <2>2. PICK l \in {"idle", "popall_load", "popall_cas"} :
           /\ pc' = [pc EXCEPT ![Owner] = l]
           /\ hd' = [hd EXCEPT ![Owner] = hd'[Owner]]
           /\ hd'[Owner] \in ObjectOrNull
           /\ l = "popall_cas" => hd'[Owner] \in Object
    <3>1. CASE Remote!PopAllLoad(Owner)
      BY <3>1, <1>0 DEF Remote!PopAllLoad, Remote!Goto, ListTypeOK, ObjectOrNull
    <3>2. CASE ReclaimRemoteFree
      BY <3>2, <1>0 DEF ReclaimRemoteFree, Remote!CallPopAll, Remote!Goto, ListTypeOK
    <3>3. CASE Remote!PopAllRetry(Owner)
      BY <3>3, <1>0 DEF Remote!PopAllRetry, Remote!Goto, ListTypeOK
    <3> QED BY <1>7, <3>1, <3>2, <3>3
  <2>3. ListTypeOK'
    BY <2>1, <2>2, <1>0 DEF ListTypeOK, Labels
  <2>4. PushLinked'
    BY <2>1, <2>2, <1>0 DEF PushLinked, ListTypeOK
  <2>5. ChainsIntact'
    BY <2>1, <2>2, <1>0, ChainsKept DEF ListTypeOK
  <2> QED BY <2>1, <2>3, <2>4, <2>5, <1>1
<1>8. ASSUME Remote!PopAllSwap(Owner) PROVE Goal
  <2>1. /\ pc[Owner] = "popall_cas" /\ pc' = [pc EXCEPT ![Owner] = "walk"]
        /\ UNCHANGED <<word, arg, hd, held>>
    BY <1>8 DEF Remote!PopAllSwap, Remote!Goto
  <2>2. /\ content # <<>> /\ content \in Seq(Object)
        /\ hd[Owner] = m_head /\ m_head' = Null
        /\ batch[Owner] = <<>> /\ batch' = [batch EXCEPT ![Owner] = content]
        /\ content' = <<>>
    BY <1>8, PopAllSwapFacts
  <2>3. ListTypeOK'
    BY <2>1, <2>2, <1>0 DEF ListTypeOK, Labels, ObjectOrNull
  <2>4. PushLinked'
    BY <2>1, <1>0 DEF PushLinked, ListTypeOK
  <2>5. ChainsIntact'
    <3>1. Remote!Chained(word, m_head', content')
      BY <2>2, EmptyFacts DEF Remote!Chained, Remote!NodeAt
    <3>2. Remote!Chained(word, hd[Owner], content)
      BY <2>2 DEF IInv, ChainsIntact
    <3>3. batch'[Owner] = content /\ \A t \in Thread : t # Owner => batch'[t] = batch[t] /\ pc'[t] = pc[t]
      BY <2>1, <2>2, <1>0 DEF ListTypeOK
    <3>4. pc'[Owner] = "walk"
      BY <2>1, <1>0 DEF ListTypeOK
    <3>5. ASSUME NEW t \in Thread
          PROVE  IF pc'[t] = "walk"
                 THEN batch'[t] # <<>> /\ Remote!Chained(word, hd[t], batch'[t])
                 ELSE batch'[t] = <<>>
      <4>1. CASE t = Owner
        BY <4>1, <3>2, <3>3, <3>4, <2>2
      <4>2. CASE t # Owner
        BY <4>2, <3>3 DEF IInv, ChainsIntact
      <4> QED BY <4>1, <4>2
    <3> QED BY <2>1, <3>1, <3>5 DEF ChainsIntact
  <2>6. OnePlace'
    <3>1. batch'[Owner] = content
      BY <2>2, <1>0 DEF ListTypeOK
    <3> QED BY <2>1, <2>2, <3>1, <1>0, EmptyFacts DEF OnePlace
  <2> QED BY <2>3, <2>4, <2>5, <2>6
<1>9. ASSUME NEW t \in Thread, NEW u \in Thread, NEW o \in Object, HandOver(t, u, o)
      PROVE  Goal
  <2>1. /\ t # u /\ o \in held[t]
        /\ held' = [held EXCEPT ![t] = @ \ {o}, ![u] = @ \cup {o}]
        /\ UNCHANGED <<pc, hd, m_head, content, batch, arg, word>>
    BY <1>9 DEF HandOver, listVars
  <2>2. ListTypeOK' /\ PushLinked'
    BY <2>1, <1>0 DEF ListTypeOK, PushLinked
  <2>3. ChainsIntact'
    BY <2>1, ChainsKept
  <2>4. OnePlace'
    BY <2>1, <1>0, OnePlaceFacts DEF OnePlace
  <2> QED BY <2>2, <2>3, <2>4
<1> QED
  BY <1>2, <1>3, <1>4, <1>5, <1>6, <1>7, <1>8, <1>9
  DEF QuietStep, RemoteFreeStep, ReclaimPopAll, Remote!Push, Remote!PopAll
-----------------------------------------------------------------------------
(* alloc *)

\* The page alloc takes from, with its header h and the header after.
AllocatesIn(g, h, h2, o) ==
  /\ h.m_free_count > 0 /\ h2.m_free_count = h.m_free_count - 1
  /\ PageOf(o) = g
  /\ header' = [header EXCEPT ![g] = h2]
  /\ word' = [word EXCEPT ![o] = Data]
  /\ held' = [held EXCEPT ![Owner] = @ \cup {o}]
  /\ m_first_page' = IF h2.m_free_count = 0 THEN Null ELSE g
  /\ m_fullpages_list' = IF h2.m_free_count = 0 THEN Append(m_fullpages_list, g)
                                                ELSE m_fullpages_list
  /\ UNCHANGED listVars
  /\ PageExact(g, h2, InUse \cup {o}, word')

\* The three places alloc finds a page in.
FromFirstPage(g) ==
  /\ g = m_first_page /\ g \in pages
  /\ UNCHANGED <<pages, m_page_count, m_freelist>>

FromFreelist(g) ==
  /\ m_first_page = Null
  /\ m_freelist # <<>> /\ g = Head(m_freelist) /\ g \in pages
  /\ m_freelist' = Tail(m_freelist)
  /\ UNCHANGED <<pages, m_page_count>>

FromSupplier(g) ==
  /\ m_first_page = Null
  /\ m_freelist = <<>> /\ g \notin pages
  /\ pages' = pages \cup {g} /\ m_page_count' = m_page_count + 1
  /\ UNCHANGED m_freelist

\* A call of SlabPageHeader::alloc on a page with room, whose header is h.
LEMMA AllocFromFacts ==
  ASSUME IInv, NEW g \in Page, NEW h \in Header, AllocFrom(g, h),
         PageExact(g, h, InUse, word), h.m_free_count > 0
  PROVE  \E h2 \in Header, o \in Object \ InUse : AllocatesIn(g, h, h2, o)
<1> DEFINE o == <<g, SlotToTake(h)>>
           h2 == HeaderAfterAlloc(g, h)
<1>1. /\ o \in Object
      /\ header' = [header EXCEPT ![g] = h2]
      /\ word' = [word EXCEPT ![o] = Data]
      /\ held' = [held EXCEPT ![Owner] = @ \cup {o}]
      /\ m_first_page' = IF h2.m_free_count = 0 THEN Null ELSE g
      /\ m_fullpages_list' = IF h2.m_free_count = 0 THEN Append(m_fullpages_list, g)
                                                    ELSE m_fullpages_list
      /\ UNCHANGED listVars
  BY DEF AllocFrom
<1>2. h2 = HeaderAfterAlloc(g, h)
  OBVIOUS
<1>3. \A i \in Slot : <<g, i>> # o => word'[<<g, i>>] = word[<<g, i>>]
  BY <1>1, Types, ObjectFacts
<1>4. InUse \in SUBSET Object
  BY InUseFacts
<1>object. o = <<g, SlotToTake(h)>>
  OBVIOUS
<1> HIDE DEF h2, o
<1>5. /\ o \in Object \ InUse /\ h2 \in Header
      /\ h2.m_free_count = h.m_free_count - 1
      /\ PageExact(g, h2, InUse \cup {o}, word')
  BY <1>2, <1>3, <1>4, <1>object, PageAlloc
<1>6. PageOf(o) = g
  BY <1>object DEF PageOf
<1>7. AllocatesIn(g, h, h2, o)
  BY <1>1, <1>5, <1>6 DEF AllocatesIn
<1> QED BY <1>5, <1>7

\* What a call of alloc that returns an object does.
LEMMA AllocFacts ==
  ASSUME IInv, Alloc
  PROVE  \E g \in Page, h, h2 \in Header, o \in Object \ InUse :
            /\ AllocatesIn(g, h, h2, o)
            /\ g \in pages => h = header[g]
            /\ FromFirstPage(g) \/ FromFreelist(g) \/ FromSupplier(g)
<1>0. /\ \A g \in pages : g \in Page /\ header[g] \in Header
                          /\ PageExact(g, header[g], InUse, word)
      /\ m_first_page # Null => m_first_page \in pages /\ header[m_first_page].m_free_count > 0
      /\ \A g \in Range(m_freelist) : g \in pages /\ header[g].m_free_count \in 1..(MaxCount - 1)
      /\ m_freelist \in Seq(pages)
  BY Types, RangeFacts DEF IInv, PagesExact, PagesPlaced
<1>1. CASE AllocFromFirstPage
  <2> DEFINE g == m_first_page
  <2>1. g \in pages /\ AllocFrom(g, header[g]) /\ header[g].m_free_count > 0
    BY <1>0, <1>1 DEF AllocFromFirstPage
  <2>2. FromFirstPage(g)
    BY <1>1, <2>1 DEF AllocFromFirstPage, FromFirstPage
  <2>3. \E h2 \in Header, o \in Object \ InUse : AllocatesIn(g, header[g], h2, o)
    BY <1>0, <2>1, AllocFromFacts
  <2> QED BY <1>0, <2>1, <2>2, <2>3
<1>2. CASE AllocFromFreelist
  <2> DEFINE g == Head(m_freelist)
  <2>1. g \in Range(m_freelist)
    BY <1>0, <1>2, TailRange DEF AllocFromFreelist, IInv, ListedOnce
  <2>2. g \in pages /\ AllocFrom(g, header[g]) /\ header[g].m_free_count > 0
    BY <1>0, <1>2, <2>1 DEF AllocFromFreelist
  <2>3. FromFreelist(g)
    BY <1>2, <2>2 DEF AllocFromFreelist, FromFreelist
  <2>4. \E h2 \in Header, o \in Object \ InUse : AllocatesIn(g, header[g], h2, o)
    BY <1>0, <2>2, AllocFromFacts
  <2> QED BY <1>0, <2>2, <2>3, <2>4
<1>3. ASSUME NEW g \in Page, AllocFromNewPage(g)
      PROVE  \E h, h2 \in Header, o \in Object \ InUse :
                AllocatesIn(g, h, h2, o) /\ FromSupplier(g)
  <2>1. g \notin pages /\ AllocFrom(g, NewHeader) /\ FromSupplier(g)
    BY <1>3 DEF AllocFromNewPage, FromSupplier
  <2>2. UsedOf(g, InUse) = {}
    BY <2>1 DEF IInv, NoUseAfterRelease, UsedOf
  <2>3. NewHeader \in Header /\ PageExact(g, NewHeader, InUse, word)
    BY <2>2, PageNew
  <2>4. NewHeader.m_free_count > 0
    BY MaxCountAssumption DEF NewHeader
  <2>5. \E h2 \in Header, o \in Object \ InUse : AllocatesIn(g, NewHeader, h2, o)
    BY <2>1, <2>3, <2>4, AllocFromFacts
  <2> QED BY <2>1, <2>3, <2>5
<1>4. ASSUME NEW g \in Page, FromSupplier(g) PROVE g \notin pages
  BY <1>4 DEF FromSupplier
<1> QED BY <1>1, <1>2, <1>3, <1>4 DEF Alloc

\* alloc adds one object to those in use.
LEMMA AllocInUse ==
  ASSUME IInv, NEW g, NEW h, NEW h2, NEW o \in Object \ InUse, AllocatesIn(g, h, h2, o)
  PROVE  /\ InUse' = InUse \cup {o}
         /\ held' \in [Thread -> SUBSET Object]
         /\ word' \in [Object -> Word]
         /\ \A x \in Object : x # o => word'[x] = word[x]
<1>1. /\ held' = [held EXCEPT ![Owner] = @ \cup {o}] /\ UNCHANGED <<content, batch, arg>>
      /\ word' = [word EXCEPT ![o] = Data]
  BY DEF AllocatesIn, listVars
<1>2. /\ held \in [Thread -> SUBSET Object] /\ word \in [Object -> Word] /\ Owner \in Thread
      /\ Data \in Word
  BY Types, OwnerAssumption DEF Word
<1>3. \A x : (\E t \in Thread : x \in held'[t]) <=> x = o \/ \E t \in Thread : x \in held[t]
  BY <1>1, <1>2
<1>4. Returned' = Returned
  BY <1>1 DEF Returned
<1>5. InUse' = InUse \cup {o}
  <2>1. /\ \A x : x \in InUse <=> x \in Returned \/ \E t \in Thread : x \in held[t]
        /\ \A x : x \in InUse' <=> x \in Returned' \/ \E t \in Thread : x \in held'[t]
    BY DEF InUse
  <2> QED BY <2>1, <1>3, <1>4
<1> QED BY <1>1, <1>2, <1>5

\* The object handed out was on no list and in no call.
LEMMA AllocList ==
  ASSUME IInv, Alloc
  PROVE  ListTypeOK' /\ PushLinked' /\ ChainsIntact' /\ OnePlace'
<1>1. PICK g \in Page, h \in Header, h2 \in Header, o \in Object \ InUse :
         AllocatesIn(g, h, h2, o)
  BY AllocFacts
<1>2. /\ held' = [held EXCEPT ![Owner] = @ \cup {o}]
      /\ UNCHANGED <<m_head, pc, arg, hd, content, batch>>
  BY <1>1 DEF AllocatesIn, listVars
<1>3. /\ o \notin Range(content) /\ o \notin Range(batch[Owner])
      /\ \A t \in Thread : arg[t] # o /\ o \notin held[t]
  BY InUseFacts, ObjectFacts
<1>4. \A x \in Object : x # o => word'[x] = word[x]
  BY <1>1, AllocInUse
<1>5. /\ held \in [Thread -> SUBSET Object] /\ Owner \in Thread
      /\ \A t \in Thread : arg[t] \in ObjectOrNull
      /\ Range(content) \subseteq Object /\ Range(batch[Owner]) \subseteq Object
  BY Types, InUseFacts DEF ListTypeOK
<1>6. ListTypeOK'
  BY <1>2, Types DEF ListTypeOK
<1>7. PushLinked'
  BY <1>2, <1>3, <1>4, <1>5 DEF IInv, PushLinked, ObjectOrNull
<1>8. ChainsIntact'
  BY <1>2, <1>3, <1>4, <1>5, ChainsKept
<1>9. OnePlace'
  BY <1>2, <1>3, <1>5 DEF IInv, OnePlace
<1> QED BY <1>6, <1>7, <1>8, <1>9

\* Where the pages are, and in which state.
LEMMA PlacementFacts ==
  ASSUME IInv
  PROVE  /\ IsFiniteSet(pages) /\ Cardinality(pages) \in Nat
         /\ m_page_count = Cardinality(pages)
         /\ Len(m_freelist) \in Nat /\ Len(m_fullpages_list) \in Nat
         /\ Cardinality(pages) = Len(m_freelist) + Len(m_fullpages_list)
                                   + (IF m_first_page = Null THEN 0 ELSE 1)
         /\ pages = Range(m_freelist) \cup Range(m_fullpages_list) \cup ({m_first_page} \ {Null})
         /\ Null \notin pages
         /\ NoRepeat(m_freelist) /\ NoRepeat(m_fullpages_list)
         /\ Range(m_freelist) \cap Range(m_fullpages_list) = {}
         /\ m_first_page \notin Range(m_freelist) \cup Range(m_fullpages_list)
         /\ \A g \in Range(m_fullpages_list) : header[g].m_free_count = 0
         /\ \A g \in Range(m_freelist) : header[g].m_free_count \in 1..(MaxCount - 1)
         /\ m_first_page # Null => header[m_first_page].m_free_count > 0
<1>1. m_freelist \in Seq(pages) /\ m_fullpages_list \in Seq(pages) /\ pages \subseteq Page
  BY Types
<1>2. Len(m_freelist) \in Nat /\ Len(m_fullpages_list) \in Nat /\ Null \notin pages
  BY <1>1, ObjectFacts
<1>3. IsFiniteSet(pages) /\ Cardinality(pages) \in Nat
  BY FS_CardinalityType DEF IInv, ListedOnce
<1> QED BY <1>2, <1>3 DEF IInv, PagesPlaced, ListedOnce

\* alloc first takes the page from where it is ...
LEMMA PageTaken ==
  ASSUME IInv, NEW g \in Page, FromFirstPage(g) \/ FromFreelist(g) \/ FromSupplier(g)
  PROVE  /\ pages \subseteq pages' /\ pages' = pages \cup {g}
         /\ IsFiniteSet(pages') /\ m_page_count' = Cardinality(pages')
         /\ m_page_count' \in Nat
         /\ m_freelist' \in Seq(pages) /\ NoRepeat(m_freelist')
         /\ Range(m_freelist') \subseteq Range(m_freelist)
         /\ g \notin Range(m_freelist') /\ g \notin Range(m_fullpages_list)
         /\ pages' = Range(m_freelist') \cup Range(m_fullpages_list) \cup {g}
         /\ Cardinality(pages') = Len(m_freelist') + Len(m_fullpages_list) + 1
<1>0. g # Null /\ m_freelist \in Seq(pages) /\ m_fullpages_list \in Seq(pages)
  BY Types, ObjectFacts
<1>listed. Range(m_freelist) \subseteq pages /\ Range(m_fullpages_list) \subseteq pages
  BY PlacementFacts
<1>1. CASE FromFirstPage(g)
  BY <1>0, <1>1, PlacementFacts DEF FromFirstPage
<1>2. CASE FromFreelist(g)
  <2>1. /\ m_freelist' = Tail(m_freelist) /\ g = Head(m_freelist) /\ m_freelist # <<>>
        /\ UNCHANGED <<pages, m_page_count>> /\ g \in pages /\ m_first_page = Null
    BY <1>2 DEF FromFreelist
  <2>2. /\ m_freelist' \in Seq(pages) /\ Len(m_freelist') = Len(m_freelist) - 1
    BY <1>0, <2>1, TailFacts
  <2>3. /\ g \in Range(m_freelist) /\ Range(m_freelist') = Range(m_freelist) \ {g}
        /\ NoRepeat(m_freelist')
    BY <1>0, <2>1, PlacementFacts, TailRange
  <2>4. Cardinality(pages) = Len(m_freelist') + Len(m_fullpages_list) + 1
    BY <2>1, <2>2, PlacementFacts
  <2>5. pages = Range(m_freelist') \cup Range(m_fullpages_list) \cup {g}
        /\ g \notin Range(m_fullpages_list)
    BY <2>1, <2>3, PlacementFacts
  <2> QED BY <2>1, <2>2, <2>3, <2>4, <2>5, PlacementFacts
<1>3. CASE FromSupplier(g)
  <2>1. /\ m_first_page = Null /\ m_freelist = <<>> /\ m_freelist' = m_freelist
        /\ g \notin pages /\ pages' = pages \cup {g} /\ m_page_count' = m_page_count + 1
    BY <1>3 DEF FromSupplier
  <2>2. IsFiniteSet(pages') /\ Cardinality(pages') = Cardinality(pages) + 1
    BY <2>1, PlacementFacts, FS_AddElement
  <2>3. pages = Range(m_freelist) \cup Range(m_fullpages_list)
        /\ Cardinality(pages) = Len(m_freelist) + Len(m_fullpages_list)
    BY <2>1, PlacementFacts
  <2> QED BY <1>0, <1>listed, <2>1, <2>2, <2>3, PlacementFacts
<1> QED BY <1>1, <1>2, <1>3

\* ... and leaves it on the full list or as the page of the next alloc.
LEMMA AllocPages ==
  ASSUME IInv, Alloc
  PROVE  NoUseAfterRelease' /\ PagesExact' /\ PagesPlaced' /\ ListedOnce'
<1>1. PICK g \in Page, h \in Header, h2 \in Header, o \in Object \ InUse :
         /\ AllocatesIn(g, h, h2, o)
         /\ FromFirstPage(g) \/ FromFreelist(g) \/ FromSupplier(g)
  BY AllocFacts
<1>2. /\ header' = [header EXCEPT ![g] = h2] /\ PageOf(o) = g
      /\ m_first_page' = IF h2.m_free_count = 0 THEN Null ELSE g
      /\ m_fullpages_list' = IF h2.m_free_count = 0 THEN Append(m_fullpages_list, g)
                                                    ELSE m_fullpages_list
      /\ PageExact(g, h2, InUse \cup {o}, word')
      /\ h2.m_free_count \in 0..MaxCount
  BY <1>1 DEF AllocatesIn, Header
<1>3. /\ InUse' = InUse \cup {o}
      /\ held' \in [Thread -> SUBSET Object] /\ word' \in [Object -> Word]
      /\ \A x \in Object : x # o => word'[x] = word[x]
  BY <1>1, AllocInUse
<1>4. /\ pages' = pages \cup {g}
      /\ IsFiniteSet(pages') /\ m_page_count' = Cardinality(pages')
      /\ m_page_count' \in Nat
      /\ m_freelist' \in Seq(pages) /\ NoRepeat(m_freelist')
      /\ Range(m_freelist') \subseteq Range(m_freelist)
      /\ g \notin Range(m_freelist') /\ g \notin Range(m_fullpages_list)
      /\ pages' = Range(m_freelist') \cup Range(m_fullpages_list) \cup {g}
      /\ Cardinality(pages') = Len(m_freelist') + Len(m_fullpages_list) + 1
  BY <1>1, PageTaken
<1>5. /\ header \in [Page -> Header] /\ pages \subseteq Page /\ g # Null
      /\ m_fullpages_list \in Seq(pages)
      /\ \A q \in pages : PageExact(q, header[q], InUse, word)
  BY Types, ObjectFacts DEF IInv, PagesExact
<1>6. /\ header'[g] = h2 /\ header' \in [Page -> Header]
      /\ \A q \in pages : q # g => header'[q] = header[q]
  BY <1>2, <1>5
<1>7. NoUseAfterRelease'
  BY <1>2, <1>3, <1>4 DEF IInv, NoUseAfterRelease
<1>8. PagesExact'
  <2>1. ASSUME NEW q \in pages, q # g PROVE PageExact(q, header[q], InUse', word')
    <3>1. q \in Page /\ header[q] \in Header /\ PageExact(q, header[q], InUse, word)
      BY <1>5
    <3>2. UsedOf(q, InUse') = UsedOf(q, InUse)
      BY <2>1, <1>2, <1>3 DEF UsedOf
    <3>3. \A i \in Slot : <<q, i>> \notin InUse => word'[<<q, i>>] = word[<<q, i>>]
      BY <3>1, <2>1, <1>2, <1>3, ObjectFacts
    <3> QED BY <3>1, <3>2, <3>3, PageFrame
  <2> QED BY <2>1, <1>2, <1>3, <1>4, <1>6 DEF PagesExact
<1>9. /\ m_fullpages_list' \in Seq(pages') /\ m_freelist' \in Seq(pages')
      /\ NoRepeat(m_fullpages_list')
      /\ Range(m_fullpages_list') = Range(m_fullpages_list)
                                      \cup (IF h2.m_free_count = 0 THEN {g} ELSE {})
      /\ Len(m_fullpages_list) \in Nat /\ Len(m_freelist') \in Nat
      /\ Len(m_fullpages_list') = Len(m_fullpages_list) + (IF h2.m_free_count = 0 THEN 1 ELSE 0)
  <2>1. m_fullpages_list \in Seq(pages') /\ m_freelist' \in Seq(pages') /\ g \in pages'
    BY <1>4, <1>5
  <2>2. NoRepeat(m_fullpages_list)
    BY PlacementFacts
  <2> QED BY <1>2, <1>4, <2>1, <2>2, AppendFacts, AppendRange
<1>10. PagesPlaced'
  <2>1. TypeOK'
    BY <1>2, <1>3, <1>4, <1>5, <1>6, <1>9 DEF TypeOK, Header, Word
  <2>2. Cardinality(pages') = Len(m_freelist') + Len(m_fullpages_list')
                                + (IF m_first_page' = Null THEN 0 ELSE 1)
    <3>1. CASE h2.m_free_count = 0
      <4>1. m_first_page' = Null /\ Len(m_fullpages_list') = Len(m_fullpages_list) + 1
        BY <3>1, <1>2, <1>9
      <4> QED BY <4>1, <1>4, <1>9
    <3>2. CASE h2.m_free_count # 0
      <4>1. m_first_page' # Null /\ Len(m_fullpages_list') = Len(m_fullpages_list)
        BY <3>2, <1>2, <1>5, <1>9
      <4> QED BY <4>1, <1>4, <1>9
    <3> QED BY <3>1, <3>2
  <2>3. pages' = Range(m_freelist') \cup Range(m_fullpages_list') \cup ({m_first_page'} \ {Null})
    BY <1>2, <1>4, <1>5, <1>9
  <2>4. /\ \A q \in Range(m_fullpages_list') : header'[q].m_free_count = 0
        /\ \A q \in Range(m_freelist') : header'[q].m_free_count \in 1..(MaxCount - 1)
        /\ m_first_page' # Null => header'[m_first_page'].m_free_count > 0
    BY <1>2, <1>4, <1>6, <1>9, PlacementFacts
  <2> QED BY <2>1, <2>2, <2>3, <2>4, <1>4 DEF PagesPlaced
<1>11. ListedOnce'
  BY <1>2, <1>4, <1>5, <1>9, PlacementFacts, ObjectFacts DEF ListedOnce
<1> QED BY <1>7, <1>8, <1>10, <1>11
-----------------------------------------------------------------------------
(* free *)

FreedIntoFull(g, h2) ==
  /\ h2.m_free_count = 1
  /\ g \in Range(m_fullpages_list)
  /\ m_fullpages_list' = RemoveFirst(m_fullpages_list, g)
  /\ m_freelist' = Append(m_freelist, g)
  /\ UNCHANGED <<pages, m_page_count>>

FreedLast(g, h2, rest) ==
  /\ h2.m_free_count = MaxCount
  /\ g \in Range(m_freelist)
  /\ m_freelist' = RemoveFirst(m_freelist, g)
  /\ pages' = pages \ {g} /\ m_page_count' = m_page_count - 1
  /\ UNCHANGED m_fullpages_list
  /\ UsedOf(g, rest) = {}

FreedIntoUsed(g, h2) ==
  /\ h2.m_free_count > 1
  /\ h2.m_free_count = MaxCount => g = m_first_page
  /\ UNCHANGED <<pages, m_page_count, m_freelist, m_fullpages_list>>

\* What free does with an object in use: the page is where its count says, so
\* one of the three cases applies, and an empty page is always released, since
\* the allocator counts it.
LEMMA FreeFacts ==
  ASSUME IInv, NEW o \in InUse, FreeNow(o),
         NEW g, g = PageOf(o),
         NEW h2, h2 = HeaderAfterFree(o),
         NEW rest, rest = InUse \ {o}
  PROVE  /\ g \in pages /\ o \in Object /\ h2 \in Header
         /\ header' = [header EXCEPT ![g] = h2] /\ m_first_page' = m_first_page
         /\ FreedIntoFull(g, h2) \/ FreedLast(g, h2, rest) \/ FreedIntoUsed(g, h2)
         /\ g \in pages' => PageExact(g, h2, rest, word')
         /\ word' \in [Object -> Word]
         /\ \A x \in Object : x # o /\ (x \in InUse \/ PageOf(x) \in pages')
                                 => word'[x] = word[x]
<1> DEFINE h == header[g]
           w == [word EXCEPT ![o] = FreedWord(o)]
<1>1. /\ g \in pages /\ o \in Object /\ g \in Page /\ h \in Header /\ InUse \in SUBSET Object
      /\ word \in [Object -> Word] /\ PageExact(g, h, InUse, word)
  BY Types, InUseFacts DEF IInv, NoUseAfterRelease, PagesExact
<1>2. w[o] = FreedWord(o) /\ \A i \in Slot : <<g, i>> # o => w[<<g, i>>] = word[<<g, i>>]
  BY <1>1, ObjectFacts
<1>3. w \in [Object -> Word] /\ \A x \in Object : x # o => w[x] = word[x]
  <2>1. FreedWord(o) \in Word
    BY <1>1 DEF FreedWord, Word, Header
  <2> QED BY <2>1, <1>1
<1>4. /\ header' = [header EXCEPT ![g] = h2] /\ m_first_page' = m_first_page
      /\ FreeIntoFullPage(o, h2, w) \/ FreeLastOfPage(o, h2, w) \/ FreeIntoUsedPage(o, h2, w)
  BY DEF FreeNow, FreeObject
<1> HIDE DEF h, w
<1>5. /\ h2 \in Header /\ h2.m_free_count = h.m_free_count + 1
      /\ h2.m_free_count = MaxCount => UsedOf(g, rest) = {}
      /\ PageExact(g, h2, rest, w)
  BY <1>1, <1>2, PageFree, SMTT(30) DEF h
<1>6. /\ MaxCount \in Nat /\ MaxCount >= 2
      /\ h.m_free_count \in 0..MaxCount /\ h2.m_free_count \in 1..MaxCount
  <2>1. h.m_free_count \in 0..MaxCount /\ h2.m_free_count \in 0..MaxCount
    BY <1>1, <1>5 DEF Header
  <2> QED BY <2>1, <1>5, MaxCountAssumption
<1>7. /\ h.m_free_count = 0 => g \in Range(m_fullpages_list)
      /\ h.m_free_count # 0 /\ g # m_first_page => g \in Range(m_freelist)
  BY <1>1, <1>6, PlacementFacts DEF h
<1>8. ASSUME word' = w
      PROVE  /\ g \in pages' => PageExact(g, h2, rest, word')
             /\ word' \in [Object -> Word]
             /\ \A x \in Object : x # o => word'[x] = word[x]
  <2>1. PageExact(g, h2, rest, word')
    BY <1>5, <1>8
  <2> QED BY <2>1, <1>3, <1>8
<1> DEFINE Outcome ==
             /\ FreedIntoFull(g, h2) \/ FreedLast(g, h2, rest) \/ FreedIntoUsed(g, h2)
             /\ g \in pages' => PageExact(g, h2, rest, word')
             /\ word' \in [Object -> Word]
             /\ \A x \in Object : x # o /\ (x \in InUse \/ PageOf(x) \in pages')
                                     => word'[x] = word[x]
<1>9. ASSUME FreeIntoFullPage(o, h2, w) PROVE Outcome
  <2>1. word' = w
    BY <1>9 DEF FreeIntoFullPage
  <2>2. FreedIntoFull(g, h2)
    <3>1. h2.m_free_count = 1
      BY <1>9 DEF FreeIntoFullPage
    <3>2. g \in Range(m_fullpages_list)
      BY <3>1, <1>5, <1>6, <1>7
    <3> QED BY <3>1, <3>2, <1>9 DEF FreeIntoFullPage, FreedIntoFull
  <2> QED BY <2>1, <2>2, <1>8
<1>10. ASSUME FreeIntoUsedPage(o, h2, w) PROVE Outcome
  <2>1. word' = w
    BY <1>10 DEF FreeIntoUsedPage
  <2>2. FreedIntoUsed(g, h2)
    BY <1>6, <1>10 DEF FreeIntoUsedPage, FreedIntoUsed
  <2> QED BY <2>1, <2>2, <1>8
<1>11. ASSUME FreeLastOfPage(o, h2, w) PROVE Outcome
  <2>1. m_page_count # 0
    <3>1. Cardinality(pages) # 0
      BY <1>1, PlacementFacts, FS_EmptySet
    <3> QED BY <3>1, PlacementFacts
  <2>2. h2.m_free_count = MaxCount /\ g # m_first_page /\ ReleasePage(g)
    BY <2>1, <1>11 DEF FreeLastOfPage
  <2>3. FreedLast(g, h2, rest)
    <3>1. h.m_free_count # 0
      BY <2>2, <1>5, <1>6
    <3>2. g \in Range(m_freelist)
      BY <2>2, <3>1, <1>7
    <3> QED BY <2>2, <3>2, <1>5 DEF ReleasePage, FreedLast
  <2>4. /\ word' = [x \in Object |-> IF PageOf(x) = g THEN Data ELSE word[x]]
        /\ pages' = pages \ {g}
    BY <2>2 DEF ReleasePage
  <2>5. word' \in [Object -> Word]
    BY <2>4, <1>1 DEF Word
  <2>6. ASSUME NEW x \in Object, x # o, x \in InUse \/ PageOf(x) \in pages'
        PROVE  word'[x] = word[x]
    <3>1. PageOf(x) # g
      BY <2>3, <2>4, <2>6 DEF FreedLast, UsedOf
    <3> QED BY <3>1, <2>4
  <2> QED BY <2>3, <2>4, <2>5, <2>6
<1>12. Outcome
  BY <1>4, <1>9, <1>10, <1>11
<1>13. /\ g \in pages /\ o \in Object /\ h2 \in Header
       /\ header' = [header EXCEPT ![g] = h2] /\ m_first_page' = m_first_page
  BY <1>1, <1>4, <1>5
<1> QED BY <1>12, <1>13

\* free, and each round of the reclaim loop, take one object out of use.
LEMMA FreeInUse ==
  ASSUME IInv, NEW o \in Object, Free(o)
  PROVE  o \in InUse /\ InUse' = InUse \ {o} /\ held' \in [Thread -> SUBSET Object]
<1>1. /\ o \in held[Owner] /\ held' = [held EXCEPT ![Owner] = @ \ {o}]
      /\ UNCHANGED <<content, batch, arg>>
  BY DEF Free, listVars
<1>2. held \in [Thread -> SUBSET Object] /\ Owner \in Thread
  BY Types, OwnerAssumption
<1>3. /\ o \notin Range(content) /\ o \notin Range(batch[Owner])
      /\ \A t \in Thread : arg[t] # o /\ (t # Owner => o \notin held[t])
  BY <1>1, <1>2, OnePlaceFacts
<1>4. \A x : (\E t \in Thread : x \in held'[t]) <=> x # o /\ \E t \in Thread : x \in held[t]
  BY <1>1, <1>2, <1>3
<1>5. o \in InUse
  BY <1>1, InUseFacts
<1>6. Returned' = Returned /\ o \notin Returned
  <2>1. Returned' = Returned
    BY <1>1 DEF Returned
  <2> QED BY <2>1, <1>3 DEF Returned
<1>7. InUse' = InUse \ {o}
  <2>1. /\ \A x : x \in InUse <=> x \in Returned \/ \E t \in Thread : x \in held[t]
        /\ \A x : x \in InUse' <=> x \in Returned' \/ \E t \in Thread : x \in held'[t]
    BY DEF InUse
  <2> QED BY <2>1, <1>4, <1>6
<1> QED BY <1>1, <1>2, <1>5, <1>7

\* What a round of the reclaim loop does to the chain it walks.
LEMMA ReclaimFacts ==
  ASSUME IInv, ReclaimRound
  PROVE  /\ hd[Owner] \in Object /\ hd[Owner] \in InUse
         /\ batch[Owner] \in Seq(Object) /\ batch[Owner] # <<>>
         /\ hd[Owner] = Head(batch[Owner])
         /\ Remote!Chained(word, word[hd[Owner]], Tail(batch[Owner]))
         /\ word[hd[Owner]] = Null <=> Tail(batch[Owner]) = <<>>
         /\ word[hd[Owner]] \in ObjectOrNull
         /\ Tail(batch[Owner]) \in Seq(Object)
         /\ hd[Owner] \in Range(batch[Owner])
         /\ Range(Tail(batch[Owner])) = Range(batch[Owner]) \ {hd[Owner]}
         /\ NoRepeat(Tail(batch[Owner]))
         /\ pc[Owner] = "walk"
         /\ pc' = [pc EXCEPT ![Owner] = IF word[hd[Owner]] = Null THEN "idle" ELSE "walk"]
         /\ hd' = [hd EXCEPT ![Owner] = word[hd[Owner]]]
         /\ batch' = [batch EXCEPT ![Owner] = Tail(batch[Owner])]
         /\ UNCHANGED <<m_head, arg, content, held>>
         /\ FreeNow(hd[Owner])
<1> DEFINE b == batch[Owner]
           o == hd[Owner]
<1>1. /\ pc[Owner] = "walk"
      /\ pc' = [pc EXCEPT ![Owner] = IF word[o] = Null THEN "idle" ELSE "walk"]
      /\ hd' = [hd EXCEPT ![Owner] = word[o]]
      /\ batch' = [batch EXCEPT ![Owner] = Tail(b)]
      /\ UNCHANGED <<m_head, arg, content, held>>
      /\ FreeNow(o)
  BY DEF ReclaimRound, Remote!WalkLinks, Remote!Goto
<1>2. /\ b \in Seq(Object) /\ b # <<>> /\ Remote!Chained(word, o, b) /\ NoRepeat(b)
      /\ o \in Object
  BY <1>1, OwnerAssumption, Types DEF IInv, ChainsIntact, ListTypeOK, OnePlace
<1> HIDE DEF b, o
<1>3. /\ o = Head(b) /\ Remote!Chained(word, word[o], Tail(b))
      /\ word[o] = Null <=> Tail(b) = <<>>
  BY <1>2, ChainTail
<1>4. /\ Tail(b) \in Seq(Object) /\ Head(b) \in Range(b)
      /\ Range(Tail(b)) = Range(b) \ {Head(b)} /\ NoRepeat(Tail(b))
  BY <1>2, TailFacts, TailRange
<1>5. word[o] \in ObjectOrNull
  <2>1. \A i \in 1..Len(Tail(b)) : Tail(b)[i] \in Object
    BY <1>4, RangeFacts
  <2> QED BY <2>1, <1>3, <1>4 DEF Remote!Chained, Remote!NodeAt, ObjectOrNull
<1>6. o \in InUse
  BY <1>3, <1>4, InUseFacts DEF b
<1> QED BY <1>1, <1>2, <1>3, <1>4, <1>5, <1>6 DEF b, o

\* A round of reclaim takes one object out of use, the one it has reached.
LEMMA ReclaimInUse ==
  ASSUME IInv, ReclaimRound, NEW o, o = hd[Owner]
  PROVE  o \in InUse /\ InUse' = InUse \ {o} /\ held' \in [Thread -> SUBSET Object]
<1>1. /\ o \in InUse /\ o \in Range(batch[Owner])
      /\ Range(Tail(batch[Owner])) = Range(batch[Owner]) \ {o}
      /\ batch' = [batch EXCEPT ![Owner] = Tail(batch[Owner])]
      /\ UNCHANGED <<content, arg, held>>
  BY ReclaimFacts
<1>2. /\ batch'[Owner] = Tail(batch[Owner]) /\ held \in [Thread -> SUBSET Object]
  BY <1>1, Types, OwnerAssumption DEF ListTypeOK
<1>3. /\ o \notin Range(content)
      /\ \A t \in Thread : arg[t] # o /\ o \notin held[t]
  BY <1>1, OnePlaceFacts
<1> DEFINE In(x) == \/ x \in Range(content)
                    \/ x \in Range(batch[Owner])
                    \/ x # Null /\ \E t \in Thread : arg[t] = x
                    \/ \E t \in Thread : x \in held[t]
<1>4. /\ \A x : x \in InUse <=> In(x)
      /\ \A x : x \in InUse' <=> In(x)'
  BY DEF InUse, Returned
<1>5. \A x : In(x)' <=> In(x) /\ x # o
  BY <1>1, <1>2, <1>3
<1> QED BY <1>1, <1>2, <1>4, <1>5

\* Taking an object out of use keeps the pages exact and in their places.
LEMMA FreePages ==
  ASSUME IInv, NEW o \in InUse, FreeNow(o), InUse' = InUse \ {o},
         held' \in [Thread -> SUBSET Object]
  PROVE  NoUseAfterRelease' /\ PagesExact' /\ PagesPlaced' /\ ListedOnce'
<1>1. PICK g, h2, rest : g = PageOf(o) /\ h2 = HeaderAfterFree(o) /\ rest = InUse \ {o}
  OBVIOUS
<1>2. /\ g \in pages /\ o \in Object /\ h2 \in Header
      /\ header' = [header EXCEPT ![g] = h2] /\ m_first_page' = m_first_page
      /\ FreedIntoFull(g, h2) \/ FreedLast(g, h2, rest) \/ FreedIntoUsed(g, h2)
      /\ g \in pages' => PageExact(g, h2, rest, word')
      /\ word' \in [Object -> Word]
      /\ \A x \in Object : x # o /\ (x \in InUse \/ PageOf(x) \in pages')
                              => word'[x] = word[x]
  BY <1>1, FreeFacts
<1>3. /\ header \in [Page -> Header] /\ pages \subseteq Page /\ g # Null /\ g \in Page
      /\ m_freelist \in Seq(pages) /\ m_fullpages_list \in Seq(pages)
      /\ m_first_page \in pages \cup {Null}
      /\ \A q \in pages : PageExact(q, header[q], InUse, word)
      /\ h2.m_free_count \in 0..MaxCount
  BY <1>2, Types, ObjectFacts DEF IInv, PagesExact, Header
<1>4. /\ header'[g] = h2 /\ header' \in [Page -> Header]
      /\ \A q \in Page : q # g => header'[q] = header[q]
  BY <1>2, <1>3
<1>5. /\ pages' \subseteq pages
      /\ \A q \in pages : q # g => q \in pages'
      /\ g \notin pages' => UsedOf(g, rest) = {}
  BY <1>2 DEF FreedIntoFull, FreedLast, FreedIntoUsed
<1>6. NoUseAfterRelease'
  BY <1>1, <1>5 DEF IInv, NoUseAfterRelease, UsedOf
<1>7. PagesExact'
  <2>1. ASSUME NEW q \in pages', q # g PROVE PageExact(q, header[q], InUse', word')
    <3>1. q \in Page /\ header[q] \in Header /\ PageExact(q, header[q], InUse, word)
      BY <1>3, <1>5
    <3>2. UsedOf(q, InUse') = UsedOf(q, InUse)
      BY <2>1, <1>1 DEF UsedOf
    <3>3. \A i \in Slot : <<q, i>> \notin InUse => word'[<<q, i>>] = word[<<q, i>>]
      BY <3>1, <2>1, <1>2, ObjectFacts
    <3> QED BY <3>1, <3>2, <3>3, PageFrame
  <2> QED BY <2>1, <1>1, <1>2, <1>3, <1>4, <1>5 DEF PagesExact
<1>8. /\ Len(m_freelist) \in Nat /\ Len(m_fullpages_list) \in Nat
      /\ NoRepeat(m_freelist) /\ NoRepeat(m_fullpages_list)
      /\ Range(m_freelist) \subseteq pages /\ Range(m_fullpages_list) \subseteq pages
      /\ IsFiniteSet(pages) /\ Cardinality(pages) \in Nat
      /\ m_page_count = Cardinality(pages)
      /\ MaxCount \in Nat /\ MaxCount >= 2
  BY PlacementFacts, MaxCountAssumption
<1>9. CASE FreedIntoFull(g, h2)
  <2>1. /\ h2.m_free_count = 1
        /\ g \in Range(m_fullpages_list)
        /\ m_fullpages_list' = RemoveFirst(m_fullpages_list, g)
        /\ m_freelist' = Append(m_freelist, g)
        /\ UNCHANGED <<pages, m_page_count>>
    BY <1>9 DEF FreedIntoFull
  <2>2. /\ m_fullpages_list' \in Seq(pages) /\ NoRepeat(m_fullpages_list')
        /\ Range(m_fullpages_list') = Range(m_fullpages_list) \ {g}
        /\ Len(m_fullpages_list') = Len(m_fullpages_list) - 1
    BY <2>1, <1>3, <1>8, RemoveFirstFacts
  <2>3. g \notin Range(m_freelist) /\ g # m_first_page
    BY <2>1, PlacementFacts
  <2>4. /\ m_freelist' \in Seq(pages) /\ NoRepeat(m_freelist')
        /\ Range(m_freelist') = Range(m_freelist) \cup {g}
        /\ Len(m_freelist') = Len(m_freelist) + 1
    BY <2>1, <2>3, <1>2, <1>3, <1>8, AppendFacts, AppendRange
  <2>5. TypeOK'
    BY <2>1, <2>2, <2>4, <1>2, <1>3, <1>4, <1>8 DEF TypeOK, Header, Word
  <2>6. Cardinality(pages) = Len(m_freelist') + Len(m_fullpages_list')
                               + (IF m_first_page = Null THEN 0 ELSE 1)
    <3>1. Len(m_freelist') + Len(m_fullpages_list') = Len(m_freelist) + Len(m_fullpages_list)
      BY <2>2, <2>4, <1>8
    <3> QED BY <3>1, PlacementFacts
  <2>7. pages = Range(m_freelist') \cup Range(m_fullpages_list') \cup ({m_first_page} \ {Null})
    BY <2>2, <2>4, <1>2, PlacementFacts
  <2>8. /\ \A q \in Range(m_fullpages_list') : header'[q].m_free_count = 0
        /\ \A q \in Range(m_freelist') : header'[q].m_free_count \in 1..(MaxCount - 1)
        /\ m_first_page # Null => header'[m_first_page].m_free_count > 0
    <3>1. 1 \in 1..(MaxCount - 1)
      BY <1>8
    <3>2. \A q \in pages : q # g => header'[q] = header[q]
      BY <1>3, <1>4
    <3> QED BY <3>1, <3>2, <2>1, <2>2, <2>3, <2>4, <1>3, <1>4, <1>8, PlacementFacts
  <2>9. PagesPlaced'
    BY <2>1, <2>5, <2>6, <2>7, <2>8, <1>2, <1>8 DEF PagesPlaced
  <2>10. ListedOnce'
    BY <2>1, <2>2, <2>3, <2>4, <1>2, <1>8, PlacementFacts DEF ListedOnce
  <2> QED BY <2>9, <2>10, <1>6, <1>7
<1>10. CASE FreedIntoUsed(g, h2)
  <2>1. /\ h2.m_free_count > 1
        /\ h2.m_free_count = MaxCount => g = m_first_page
        /\ UNCHANGED <<pages, m_page_count, m_freelist, m_fullpages_list>>
    BY <1>10 DEF FreedIntoUsed
  <2>2. TypeOK'
    BY <2>1, <1>2, <1>3, <1>4, <1>8 DEF TypeOK, Header, Word
  <2>3. \A q \in Range(m_fullpages_list) : header'[q].m_free_count = 0
    <3>1. g \notin Range(m_fullpages_list)
      <4>1. header[g].m_free_count # 0
        BY <1>1, <1>2, <2>1 DEF HeaderAfterFree
      <4> QED BY <4>1, PlacementFacts
    <3> QED BY <3>1, <1>3, <1>4, <1>8, PlacementFacts
  <2>4. \A q \in Range(m_freelist) : header'[q].m_free_count \in 1..(MaxCount - 1)
    <3>1. g # m_first_page => h2.m_free_count \in 1..(MaxCount - 1)
      BY <2>1, <1>3, <1>8
    <3> QED BY <3>1, <1>3, <1>4, <1>8, PlacementFacts
  <2>5. m_first_page # Null => header'[m_first_page].m_free_count > 0
    <3>1. h2.m_free_count > 0
      BY <2>1, <1>3
    <3> QED BY <3>1, <1>3, <1>4, PlacementFacts
  <2>6. PagesPlaced'
    BY <2>1, <2>2, <2>3, <2>4, <2>5, <1>2, PlacementFacts DEF PagesPlaced
  <2>7. ListedOnce'
    BY <2>1, <1>2, PlacementFacts DEF ListedOnce
  <2> QED BY <2>6, <2>7, <1>6, <1>7
<1>11. CASE FreedLast(g, h2, rest)
  <2>1. /\ g \in Range(m_freelist)
        /\ m_freelist' = RemoveFirst(m_freelist, g)
        /\ pages' = pages \ {g} /\ m_page_count' = m_page_count - 1
        /\ m_fullpages_list' = m_fullpages_list
    BY <1>11 DEF FreedLast
  <2>2. /\ Range(m_freelist') = Range(m_freelist) \ {g}
        /\ NoRepeat(m_freelist') /\ Len(m_freelist') = Len(m_freelist) - 1
    BY <2>1, <1>3, <1>8, RemoveFirstFacts
  <2>3. g \notin Range(m_fullpages_list) /\ g # m_first_page
    BY <2>1, PlacementFacts
  <2>4. m_freelist' \in Seq(pages')
    <3>1. Range(m_freelist') \subseteq pages' /\ m_freelist' \in Seq(pages)
      BY <2>1, <2>2, <1>3, <1>8, RemoveFirstFacts
    <3> QED BY <3>1 DEF Range
  <2>5. m_fullpages_list \in Seq(pages')
    <3>1. Range(m_fullpages_list) \subseteq pages'
      BY <2>1, <2>3, <1>8
    <3> QED BY <3>1, <1>3 DEF Range
  <2>6. /\ IsFiniteSet(pages') /\ Cardinality(pages') = Cardinality(pages) - 1
        /\ Cardinality(pages') \in Nat
    <3>1. Cardinality(pages \ {g}) = Cardinality(pages) - 1
      BY <1>2, <1>8, FS_RemoveElement, Zenon
    <3>2. IsFiniteSet(pages')
      BY <2>1, <1>8, FS_Subset
    <3> QED BY <3>1, <3>2, <2>1, FS_CardinalityType
  <2>7. m_page_count' = Cardinality(pages')
    BY <2>1, <2>6, <1>8
  <2>8. TypeOK'
    <3>1. m_page_count' \in Nat
      BY <2>6, <2>7
    <3>2. pages' \subseteq Page /\ m_first_page' \in pages' \cup {Null}
      BY <2>1, <2>3, <1>2, <1>3
    <3> QED BY <3>1, <3>2, <2>1, <2>4, <2>5, <1>2, <1>4 DEF TypeOK, Header, Word
  <2>9. Cardinality(pages') = Len(m_freelist') + Len(m_fullpages_list)
                                + (IF m_first_page = Null THEN 0 ELSE 1)
    <3>1. Cardinality(pages) = Len(m_freelist) + Len(m_fullpages_list)
                                 + (IF m_first_page = Null THEN 0 ELSE 1)
      BY PlacementFacts
    <3>2. CASE m_first_page = Null
      BY <3>1, <3>2, <2>2, <2>6, <1>8
    <3>3. CASE m_first_page # Null
      BY <3>1, <3>3, <2>2, <2>6, <1>8
    <3> QED BY <3>2, <3>3
  <2>10. pages' = Range(m_freelist') \cup Range(m_fullpages_list) \cup ({m_first_page} \ {Null})
    BY <2>1, <2>2, <2>3, PlacementFacts
  <2>11. /\ \A q \in Range(m_fullpages_list) : header'[q].m_free_count = 0
         /\ \A q \in Range(m_freelist') : header'[q].m_free_count \in 1..(MaxCount - 1)
         /\ m_first_page # Null => header'[m_first_page].m_free_count > 0
    <3>1. \A q \in pages : q # g => header'[q] = header[q]
      BY <1>3, <1>4
    <3> QED BY <3>1, <2>2, <2>3, <1>3, <1>8, PlacementFacts
  <2>12. PagesPlaced'
    BY <2>1, <2>7, <2>8, <2>9, <2>10, <2>11, <1>2 DEF PagesPlaced
  <2>13. ListedOnce'
    BY <2>1, <2>2, <2>6, <1>2, <1>8, PlacementFacts DEF ListedOnce
  <2> QED BY <2>12, <2>13, <1>6, <1>7
<1> QED BY <1>2, <1>6, <1>7, <1>9, <1>10, <1>11

\* free writes its index over a word no chain goes through.
LEMMA FreeList ==
  ASSUME IInv, NEW o \in Object, Free(o)
  PROVE  ListTypeOK' /\ PushLinked' /\ ChainsIntact' /\ OnePlace'
<1>1. /\ o \in held[Owner] /\ held' = [held EXCEPT ![Owner] = @ \ {o}]
      /\ UNCHANGED <<m_head, pc, arg, hd, content, batch>>
      /\ FreeNow(o) /\ Owner \in Thread
  BY OwnerAssumption DEF Free, listVars
<1>2. /\ o \in InUse
      /\ o \notin Range(content) /\ o \notin Range(batch[Owner])
      /\ \A t \in Thread : arg[t] # o
  BY <1>1, InUseFacts, OnePlaceFacts
<1>3. \A x \in Object : x # o /\ x \in InUse => word'[x] = word[x]
  BY <1>1, <1>2, FreeFacts
<1>4. /\ \A x \in Range(content) \cup Range(batch[Owner]) : x \in Object /\ x \in InUse
      /\ \A t \in Thread : arg[t] # Null => arg[t] \in Object /\ arg[t] \in InUse
  BY InUseFacts, <1>1
<1>5. ListTypeOK'
  BY <1>1, Types DEF ListTypeOK
<1>6. PushLinked'
  BY <1>1, <1>2, <1>3, <1>4 DEF IInv, PushLinked
<1>7. ChainsIntact'
  <2>1. \A x \in Range(content) \cup Range(batch[Owner]) : word'[x] = word[x]
    BY <1>2, <1>3, <1>4
  <2> QED BY <2>1, <1>1, ChainsKept
<1>8. OnePlace'
  BY <1>1, Types DEF IInv, OnePlace
<1> QED BY <1>5, <1>6, <1>7, <1>8

\* A round of the reclaim loop frees the first object of the detached chain
\* and keeps the link to the rest of it.
LEMMA ReclaimList ==
  ASSUME IInv, ReclaimRound
  PROVE  ListTypeOK' /\ PushLinked' /\ ChainsIntact' /\ OnePlace'
<1>1. PICK o : o = hd[Owner]
  OBVIOUS
<1>2. /\ o \in Object /\ o \in InUse /\ o \in Range(batch[Owner])
      /\ pc[Owner] = "walk" /\ Owner \in Thread
      /\ pc' = [pc EXCEPT ![Owner] = IF word[o] = Null THEN "idle" ELSE "walk"]
      /\ hd' = [hd EXCEPT ![Owner] = word[o]]
      /\ batch' = [batch EXCEPT ![Owner] = Tail(batch[Owner])]
      /\ UNCHANGED <<m_head, arg, content, held>>
      /\ FreeNow(o)
  BY <1>1, ReclaimFacts, OwnerAssumption
<1>3. /\ Remote!Chained(word, word[o], Tail(batch[Owner]))
      /\ word[o] = Null <=> Tail(batch[Owner]) = <<>>
      /\ word[o] \in ObjectOrNull
      /\ Tail(batch[Owner]) \in Seq(Object)
      /\ Range(Tail(batch[Owner])) = Range(batch[Owner]) \ {o}
      /\ NoRepeat(Tail(batch[Owner]))
  BY <1>1, ReclaimFacts
<1>4. /\ o \notin Range(content)
      /\ \A t \in Thread : arg[t] # o /\ o \notin held[t]
  BY <1>2, OnePlaceFacts
<1>5. /\ \A x \in Object : x # o /\ x \in InUse => word'[x] = word[x]
      /\ \A x \in Range(content) \cup Range(batch[Owner]) : x \in Object /\ x \in InUse
      /\ \A t \in Thread : arg[t] # Null => arg[t] \in Object /\ arg[t] \in InUse
  BY <1>2, FreeFacts, InUseFacts
<1>6. /\ ListTypeOK /\ PushLinked /\ ChainsIntact /\ OnePlace
      /\ batch'[Owner] = Tail(batch[Owner])
      /\ \A t \in Thread : t # Owner => /\ batch'[t] = batch[t] /\ pc'[t] = pc[t]
                                        /\ pc[t] # "walk"
      /\ hd'[Owner] = word[o]
      /\ pc'[Owner] = IF word[o] = Null THEN "idle" ELSE "walk"
  BY <1>2, Types DEF IInv, ListTypeOK
<1>7. ListTypeOK'
  BY <1>2, <1>3, <1>6 DEF ListTypeOK, Labels, ObjectOrNull
<1>8. PushLinked'
  <2>1. \A t \in Thread : pc[t] = "push_cas" => word'[arg[t]] = word[arg[t]]
    BY <1>4, <1>5, <1>6 DEF PushLinked
  <2>2. hd'[Owner] = word[o] /\ \A t \in Thread : t # Owner => hd'[t] = hd[t]
    BY <1>2, <1>6 DEF ListTypeOK
  <2>3. pc'[Owner] \in {"idle", "walk"} /\ arg' = arg
    BY <1>2, <1>6
  <2>4. ASSUME NEW t \in Thread
        PROVE  /\ (pc'[t] \in {"push_load", "push_link", "push_cas"}) <=> (arg'[t] # Null)
               /\ pc'[t] = "push_cas" => word'[arg'[t]] = hd'[t]
    <3>1. CASE t = Owner
      BY <3>1, <2>3, <1>2, <1>6 DEF PushLinked
    <3>2. CASE t # Owner
      BY <3>2, <2>1, <2>2, <2>3, <1>6 DEF PushLinked
    <3> QED BY <3>1, <3>2
  <2> QED BY <2>4 DEF PushLinked
<1>9. ChainsIntact'
  <2>1. Remote!Chained(word', m_head, content)
    BY <1>4, <1>5, <1>6, ChainFrame DEF ChainsIntact, ListTypeOK
  <2>2. Remote!Chained(word', word[o], Tail(batch[Owner]))
    <3>1. \A x \in Range(Tail(batch[Owner])) : word'[x] = word[x]
      BY <1>3, <1>5
    <3> QED BY <3>1, <1>3, ChainFrame
  <2>3. ASSUME NEW t \in Thread
        PROVE  IF pc'[t] = "walk"
               THEN batch'[t] # <<>> /\ Remote!Chained(word', hd'[t], batch'[t])
               ELSE batch'[t] = <<>>
    <3>1. CASE t = Owner
      BY <3>1, <2>2, <1>3, <1>6
    <3>2. CASE t # Owner
      BY <3>2, <1>6 DEF ChainsIntact
    <3> QED BY <3>1, <3>2
  <2> QED BY <2>1, <2>3, <1>2 DEF ChainsIntact
<1>10. OnePlace'
  BY <1>2, <1>3, <1>6 DEF OnePlace
<1> QED BY <1>7, <1>8, <1>9, <1>10
-----------------------------------------------------------------------------
(* The invariant *)

\* The initial state satisfies the invariant.
LEMMA InitIInv == Init => IInv
<1> SUFFICES ASSUME Init PROVE IInv
  OBVIOUS
<1>1. /\ header = [g \in Page |-> NewHeader]
      /\ word = [o \in Object |-> Data]
      /\ pages = {} /\ m_page_count = 0 /\ m_first_page = Null
      /\ m_freelist = <<>> /\ m_fullpages_list = <<>>
      /\ held = [t \in Thread |-> {}]
      /\ m_head = Null
      /\ pc = [t \in Thread |-> "idle"]
      /\ arg = [t \in Thread |-> Null]
      /\ hd = [t \in Thread |-> Null]
      /\ content = <<>>
      /\ batch = [t \in Thread |-> <<>>]
  BY OwnerAssumption DEF Init, Remote!ListInit, Remote!Proc
<1>2. Owner \in Thread /\ Len(<<>>) = 0 /\ Range(<<>>) = {} /\ NoRepeat(<<>>)
  BY OwnerAssumption, EmptyFacts
<1>3. ListTypeOK
  BY <1>1, <1>2 DEF ListTypeOK, ObjectOrNull, Labels
<1>4. PushLinked
  BY <1>1 DEF PushLinked
<1>5. ChainsIntact
  BY <1>1, <1>2 DEF ChainsIntact, Remote!Chained, Remote!NodeAt
<1>6. OnePlace
  BY <1>1, <1>2 DEF OnePlace
<1>7. InUse = {}
  BY <1>1, <1>2 DEF InUse, Returned
<1>8. NoUseAfterRelease /\ PagesExact
  BY <1>1, <1>7 DEF NoUseAfterRelease, PagesExact
<1>9. TypeOK
  <2>1. NewHeader \in Header
    BY MaxCountAssumption DEF NewHeader, Header
  <2> QED BY <2>1, <1>1 DEF TypeOK, Header
<1>10. Cardinality(pages) = 0 /\ IsFiniteSet(pages)
  BY <1>1, FS_EmptySet
<1>11. PagesPlaced
  BY <1>1, <1>2, <1>9, <1>10 DEF PagesPlaced
<1>12. ListedOnce
  BY <1>1, <1>2, <1>10 DEF ListedOnce
<1> QED BY <1>3, <1>4, <1>5, <1>6, <1>8, <1>11, <1>12 DEF IInv

\* Every step keeps it.
LEMMA StepIInv == IInv /\ [Next]_vars => IInv'
<1> SUFFICES ASSUME IInv, [Next]_vars PROVE IInv'
  OBVIOUS
<1>1. CASE QuietStep
  BY <1>1, QuietInUse, QuietPages, QuietList DEF IInv
<1>2. CASE Alloc
  BY <1>2, AllocList, AllocPages DEF IInv
<1>3. ASSUME NEW o \in Object, Free(o) PROVE IInv'
  <2>1. o \in InUse /\ InUse' = InUse \ {o} /\ held' \in [Thread -> SUBSET Object]
    BY <1>3, FreeInUse
  <2>2. FreeNow(o)
    BY <1>3 DEF Free
  <2>3. NoUseAfterRelease' /\ PagesExact' /\ PagesPlaced' /\ ListedOnce'
    BY <2>1, <2>2, FreePages
  <2> QED BY <2>3, <1>3, FreeList DEF IInv
<1>4. CASE ReclaimRound
  <2>1. PICK o : o = hd[Owner]
    OBVIOUS
  <2>2. o \in InUse /\ InUse' = InUse \ {o} /\ held' \in [Thread -> SUBSET Object]
    BY <1>4, <2>1, ReclaimInUse
  <2>3. FreeNow(o)
    BY <1>4, <2>1 DEF ReclaimRound
  <2>4. NoUseAfterRelease' /\ PagesExact' /\ PagesPlaced' /\ ListedOnce'
    BY <2>2, <2>3, FreePages
  <2> QED BY <2>4, <1>4, ReclaimList DEF IInv
<1>5. CASE UNCHANGED vars
  <2>1. /\ UNCHANGED <<m_head, pc, arg, hd, content, batch, held, word>> /\ UNCHANGED pageVars
    BY <1>5 DEF vars, listVars
  <2>2. InUse' = InUse
    BY <2>1 DEF InUse, Returned
  <2>3. NoUseAfterRelease' /\ PagesExact' /\ PagesPlaced' /\ ListedOnce'
    BY <2>1, <2>2, Types, QuietPages
  <2>4. ListTypeOK' /\ PushLinked' /\ ChainsIntact' /\ OnePlace'
    BY <2>1 DEF IInv, ListTypeOK, PushLinked, ChainsIntact, OnePlace
  <2> QED BY <2>3, <2>4 DEF IInv
<1> QED
  BY <1>1, <1>2, <1>3, <1>4, <1>5 DEF Next, OwnerStep, ThreadStep, QuietStep

\* The inductive invariant holds of every behaviour.
THEOREM IInvInvariant == Spec => []IInv
  BY InitIInv, StepIInv, PTL DEF Spec
-----------------------------------------------------------------------------
(* What follows from it *)

\* No page goes back to the supplier while one of its objects is held, queued
\* on the remote list, in a push in flight or later in the chain the reclaim
\* loop is walking (SlabAllocator.cpp:134-143 during 161-167).
THEOREM NoUseAfterReleaseAlways == Spec => []NoUseAfterRelease
<1>1. IInv => NoUseAfterRelease
  BY DEF IInv
<1> QED BY <1>1, IInvInvariant, PTL

\* Every page is in exactly the one place its free count says, an empty page
\* on the list only if it is the last (SlabAllocator.cpp:76-152), and the state
\* keeps its type.
THEOREM PagePlacementAlways == Spec => []PagePlacement
<1>1. IInv => PagePlacement
  BY MaxCountAssumption DEF IInv, PagesPlaced, PagePlacement
<1> QED BY <1>1, IInvInvariant, PTL

\* The remote list and the chain a reclaim walks stay proper chains, although
\* their links share memory with clients' data and with the pages' free lists.
THEOREM RemoteListIntactAlways == Spec => []RemoteListIntact
<1>1. IInv => RemoteListIntact
  <2>1. Remote!Proc = Thread
    BY OwnerAssumption DEF Remote!Proc
  <2> QED BY <2>1 DEF IInv, ChainsIntact, RemoteListIntact, Remote!ListIntact, Remote!BatchIntact
<1> QED BY <1>1, IInvInvariant, PTL
-----------------------------------------------------------------------------
(* The page's own free list, followed from the header *)

\* The free list of page g, whose slots are those of s in turn, followed i links
\* from the header is at the slot i + 1 of s, and at MaxCount past the end.
LEMMA NativeSlotFollows ==
  ASSUME IInv, NEW g \in pages, NEW s \in Seq(Slot),
         NativeList(g, header[g], InUse, word, s)
  PROVE  \A i \in 0..MaxCount : NativeSlot(g)[i] = SlotAt(s, i + 1)
<1> DEFINE Rec(f, i) == IF i = 0 THEN header[g].m_native_fl
                        ELSE IF f[i - 1] = MaxCount THEN MaxCount
                        ELSE IndexIn(word[<<g, f[i - 1]>>])
           w == [i \in 0..MaxCount |-> SlotAt(s, i + 1)]
           f == NativeSlot(g)
<1>0. MaxCount \in Nat /\ Len(s) \in Nat /\ \A i \in 1..Len(s) : s[i] \in Slot
  BY MaxCountAssumption, RangeFacts
<1>1. ASSUME NEW i \in 0..MaxCount PROVE w[i] = Rec(w, i)
  <2>1. CASE i = 0
    BY <2>1, <1>0 DEF NativeList
  <2>2. CASE i # 0
    <3>1. i - 1 \in 0..MaxCount /\ (i - 1) + 1 = i /\ w[i - 1] = SlotAt(s, i)
      BY <2>2, <1>0
    <3>2. CASE i <= Len(s)
      <4>1. i \in 1..Len(s) /\ SlotAt(s, i) = s[i]
        BY <2>2, <3>2, <1>0 DEF SlotAt
      <4>2. s[i] # MaxCount
        BY <4>1, <1>0 DEF Slot
      <4>3. IndexIn(word[<<g, s[i]>>]) = SlotAt(s, i + 1)
        BY <4>1 DEF NativeList, IndexIn, IndexWord
      <4> QED BY <2>2, <3>1, <4>1, <4>2, <4>3
    <3>3. CASE ~(i <= Len(s))
      <4>1. SlotAt(s, i) = MaxCount /\ SlotAt(s, i + 1) = MaxCount
        BY <3>3, <1>0 DEF SlotAt
      <4> QED BY <2>2, <3>1, <4>1
    <3> QED BY <3>2, <3>3
  <2> QED BY <2>1, <2>2
<1>2. f = CHOOSE q : q = [i \in 0..MaxCount |-> Rec(q, i)]
  BY DEF NativeSlot
<1>3. w = [i \in 0..MaxCount |-> Rec(w, i)]
  BY <1>1, SMTT(30)
<1>4. f = [i \in 0..MaxCount |-> Rec(f, i)]
  BY <1>2, <1>3
<1> HIDE DEF f, w
<1>5. ASSUME NEW i \in 1..MaxCount, f[i - 1] = w[i - 1] PROVE f[i] = w[i]
  <2>1. i \in 0..MaxCount /\ i # 0
    BY <1>0
  <2>2. f[i] = Rec(f, i) /\ w[i] = Rec(w, i)
    BY <1>1, <1>4, <2>1
  <2> QED BY <2>1, <2>2, <1>5
<1>6. f[0] = w[0]
  <2>1. 0 \in 0..MaxCount
    BY <1>0
  <2> QED BY <2>1, <1>1, <1>4
<1>7. \A i \in 0..MaxCount : f[i] = w[i]
  <2> DEFINE T == {i \in 0..MaxCount : f[i] # w[i]}
  <2>1. SUFFICES ASSUME T # {} PROVE FALSE
    OBVIOUS
  <2>2. T \subseteq Nat
    BY <1>0
  <2>3. T \subseteq 0..MaxCount /\ \A i \in 0..MaxCount : i \in T <=> f[i] # w[i]
    OBVIOUS
  <2> HIDE DEF T
  <2>4. PICK i \in T : \A j \in T : i <= j
    BY <2>1, <2>2, LeastElement
  <2>5. i \in 1..MaxCount /\ i - 1 \in 0..MaxCount /\ ~(i <= i - 1)
    BY <2>3, <1>0, <1>6
  <2>6. i - 1 \notin T
    BY <2>4, <2>5
  <2> QED BY <2>3, <2>5, <2>6, <1>5
<1> QED BY <1>7 DEF f, w

\* The count in a page's header and the list inside its freed objects agree
\* with who holds what (SlabAllocator.h:60-98).
THEOREM PageAccountingExactAlways == Spec => []PageAccountingExact
<1>1. ASSUME IInv, NEW g \in pages
      PROVE  LET h == header[g]
                 freed == {i \in 0..(h.m_next_object - 1) : <<g, i>> \notin InUse}
             IN /\ h.m_free_count = MaxCount - Cardinality(InUseOf(g))
                /\ \A o \in InUseOf(g) : SlotOf(o) < h.m_next_object
                /\ {NativeSlot(g)[i] : i \in 0..(Cardinality(freed) - 1)} = freed
                /\ NativeSlot(g)[Cardinality(freed)] = MaxCount
  <2> DEFINE h == header[g]
             freed == {i \in 0..(h.m_next_object - 1) : <<g, i>> \notin InUse}
  <2>1. PageExact(g, h, InUse, word)
    BY <1>1 DEF IInv, PagesExact
  <2>2. PICK s \in Seq(Slot) : NativeList(g, h, InUse, word, s)
    BY <2>1 DEF PageExact
  <2>3. freed = Range(s) /\ NoRepeat(s)
    BY <2>2 DEF NativeList, Freed
  <2> HIDE DEF freed
  <2>4. Cardinality(freed) = Len(s) /\ Len(s) \in 0..MaxCount
    <3>1. Cardinality(freed) = Len(s) /\ Len(s) \in Nat /\ Range(s) \subseteq Slot
      BY <2>3, NoRepeatCardinality, RangeFacts
    <3>2. IsFiniteSet(Slot) /\ Cardinality(Slot) = MaxCount /\ MaxCount \in Nat
      <4>1. 0 \in Int /\ MaxCount - 1 \in Int /\ MaxCount \in Nat
        BY MaxCountAssumption
      <4> QED BY <4>1, FS_Interval DEF Slot
    <3>3. Cardinality(Range(s)) <= Cardinality(Slot)
      BY <3>1, <3>2, FS_Subset
    <3> QED BY <3>1, <3>2, <3>3, <2>3
  <2>5. \A i \in 0..MaxCount : NativeSlot(g)[i] = SlotAt(s, i + 1)
    BY <1>1, <2>2, NativeSlotFollows
  <2> HIDE DEF h
  <2>6. NativeSlot(g)[Len(s)] = MaxCount
    BY <2>4, <2>5 DEF SlotAt
  <2>7. \A i \in 0..(Len(s) - 1) : i + 1 \in 1..Len(s) /\ NativeSlot(g)[i] = s[i + 1]
    BY <2>4, <2>5, MaxCountAssumption DEF SlotAt
  <2>8. {NativeSlot(g)[i] : i \in 0..(Len(s) - 1)} = freed
    <3>1. Range(s) = {s[i] : i \in 1..Len(s)}
      BY RangeFacts
    <3>2. \A i \in 1..Len(s) : i - 1 \in 0..(Len(s) - 1) /\ (i - 1) + 1 = i
      BY <2>4
    <3>3. \A i \in 1..Len(s) : s[i] = NativeSlot(g)[i - 1]
      BY <3>2, <2>7
    <3> QED BY <3>1, <3>2, <3>3, <2>3, <2>7
  <2>9. /\ h.m_free_count = MaxCount - Cardinality(InUseOf(g))
        /\ \A o \in InUseOf(g) : SlotOf(o) < h.m_next_object
    BY <2>1 DEF PageExact, UsedOf, InUseOf
  <2> QED BY <2>4, <2>6, <2>8, <2>9 DEF h, freed
<1>2. IInv => PageAccountingExact
  BY <1>1 DEF PageAccountingExact
<1> QED BY <1>2, IInvInvariant, PTL
-----------------------------------------------------------------------------
(* The abstract pool *)

\* Every step of the allocator is a step of the pool or changes nothing a
\* client can see.
LEMMA StepIsPoolStep ==
  ASSUME IInv, [Next]_vars
  PROVE  [Pool!PNext]_(Pool!pvars)
<1> DEFINE Goal == [Pool!PNext]_(Pool!pvars)
<1>0. /\ held \in [Thread -> SUBSET Object] /\ Owner \in Thread
      /\ arg \in [Thread -> ObjectOrNull] /\ batch \in [Thread -> Seq(Object)]
  BY Types, OwnerAssumption DEF ListTypeOK
<1>1. Pool!InUse = InUse
  BY DEF Pool!InUse, InUse
<1>2. \A x : x \in Returned <=> \/ x \in Range(content)
                                \/ x \in Range(batch[Owner])
                                \/ x # Null /\ \E t \in Thread : arg[t] = x
  BY DEF Returned
<1>3. CASE Alloc
  <2>1. PICK g \in Page, h \in Header, h2 \in Header, o \in Object \ InUse :
           AllocatesIn(g, h, h2, o)
    BY <1>3, AllocFacts
  <2>2. held' = [held EXCEPT ![Owner] = @ \cup {o}] /\ Returned' = Returned
    BY <2>1 DEF AllocatesIn, listVars, Returned
  <2> QED BY <2>1, <2>2, <1>1 DEF Pool!PNext, Pool!PAlloc
<1>4. ASSUME NEW o \in Object, Free(o) PROVE Goal
  <2>1. /\ o \in held[Owner] /\ held' = [held EXCEPT ![Owner] = @ \ {o}]
        /\ Returned' = Returned
    BY <1>4 DEF Free, listVars, Returned
  <2> QED BY <2>1 DEF Pool!PNext, Pool!PFree
<1>5. CASE ReclaimRound
  <2>1. PICK o : o = hd[Owner]
    OBVIOUS
  <2>2. /\ o \in Object /\ o \in Range(batch[Owner])
        /\ Range(Tail(batch[Owner])) = Range(batch[Owner]) \ {o}
        /\ batch' = [batch EXCEPT ![Owner] = Tail(batch[Owner])]
        /\ UNCHANGED <<content, arg, held>>
    BY <1>5, <2>1, ReclaimFacts
  <2>3. o \notin Range(content) /\ \A t \in Thread : arg[t] # o
    BY <2>2, OnePlaceFacts
  <2>4. batch'[Owner] = Tail(batch[Owner])
    BY <2>2, <1>0
  <2>5. \A x : x \in Returned' <=> x \in Returned /\ x # o
    BY <2>2, <2>3, <2>4, <1>2 DEF Returned
  <2>6. o \in Returned /\ Returned' = Returned \ {o}
    BY <2>2, <2>5, <1>2
  <2> QED BY <2>2, <2>6 DEF Pool!PNext, Pool!PReclaim
<1>6. ASSUME NEW t \in Thread, NEW o \in Object, RemoteFree(t, o) PROVE Goal
  <2>1. /\ held' = [held EXCEPT ![t] = @ \ {o}] /\ arg' = [arg EXCEPT ![t] = o]
        /\ o \in held[t] /\ arg[t] = Null
        /\ UNCHANGED <<content, batch>>
    BY <1>6 DEF RemoteFree, Remote!CallPush, IInv, PushLinked
  <2>2. \A x : x \in Returned' <=> x \in Returned \/ x = o
    BY <2>1, <1>0, <1>2, ObjectFacts DEF Returned
  <2>3. Returned' = Returned \cup {o}
    BY <2>2
  <2> QED BY <2>1, <2>3 DEF Pool!PNext, Pool!PRemoteFree
<1>7. ASSUME NEW t \in Thread, NEW u \in Thread, NEW o \in Object, HandOver(t, u, o)
      PROVE  Goal
  <2>1. /\ t # u /\ o \in held[t]
        /\ held' = [held EXCEPT ![t] = @ \ {o}, ![u] = @ \cup {o}]
        /\ Returned' = Returned
    BY <1>7 DEF HandOver, listVars, Returned
  <2> QED BY <2>1 DEF Pool!PNext, Pool!PHandOver
<1>8. ASSUME QuietStep, UNCHANGED held PROVE Goal
  <2>1. InUse' = InUse
    BY <1>8, QuietInUse
  <2>2. \A x : x \in Returned => \A t \in Thread : x \notin held[t]
    BY <1>2, OnePlaceFacts
  <2>3. \A x : x \in Returned' => \A t \in Thread : x \notin held'[t]
    <3>1. OnePlace'
      BY <1>8, QuietList
    <3> QED BY <3>1 DEF OnePlace, Returned
  <2>4. /\ \A x : x \in InUse <=> x \in Returned \/ \E t \in Thread : x \in held[t]
        /\ \A x : x \in InUse' <=> x \in Returned' \/ \E t \in Thread : x \in held'[t]
    BY DEF InUse
  <2>5. \A x : x \in Returned' <=> x \in Returned
    BY <2>1, <2>2, <2>3, <2>4, <1>8
  <2> QED BY <2>5, <1>8 DEF Pool!pvars
<1>9. CASE UNCHANGED vars
  BY <1>9 DEF vars, listVars, Pool!pvars, Returned
<1>10. CASE QuietStep
  <2>1. ASSUME NEW t \in Thread, RemoteFreeStep(t) PROVE UNCHANGED held
    BY <2>1 DEF RemoteFreeStep, Remote!Push, Remote!PushLoad, Remote!PushLink,
                Remote!PushSwap, Remote!PushRetry
  <2>2. ReclaimRemoteFree => UNCHANGED held
    BY DEF ReclaimRemoteFree, Remote!CallPopAll
  <2>3. ReclaimPopAll => UNCHANGED held
    BY DEF ReclaimPopAll, Remote!PopAll, Remote!PopAllLoad, Remote!PopAllSwap,
           Remote!PopAllRetry
  <2> QED BY <2>1, <2>2, <2>3, <1>6, <1>7, <1>8, <1>10 DEF QuietStep
<1> QED
  BY <1>3, <1>4, <1>5, <1>9, <1>10 DEF Next, OwnerStep, ThreadStep, QuietStep

\* The allocator implements the abstract pool: no object is handed out while a
\* thread holds it or its remote free is still on its way
\* (SlabAllocator.cpp:34-183).
THEOREM ImplementsObjectPool == Spec => IsObjectPool
<1>1. Init => Pool!PInit
  <2> SUFFICES ASSUME Init PROVE Pool!PInit
    OBVIOUS
  <2>1. /\ held = [t \in Thread |-> {}] /\ content = <<>>
        /\ arg = [t \in Thread |-> Null] /\ batch[Owner] = <<>>
    BY OwnerAssumption DEF Init, Remote!ListInit, Remote!Proc
  <2> QED BY <2>1, EmptyFacts DEF Pool!PInit, Returned
<1>2. IInv /\ [Next]_vars => [Pool!PNext]_(Pool!pvars)
  BY StepIsPoolStep
<1> QED BY <1>1, <1>2, IInvInvariant, PTL DEF Spec, IsObjectPool, Pool!PSpec
-----------------------------------------------------------------------------
(* The size classes: objects and pages for the slab allocators *)

\* The two tables agree: the class listed next is listed once for each size it
\* has that the class before it has not.
LEMMA TablesAgree ==
  /\ TimesListed[1] = AllocSizes[1]
  /\ \A c \in 2..99 : AllocSizes[c] = AllocSizes[c - 1] + TimesListed[c]
<1>1. TimesListed[1] = AllocSizes[1]
  BY DEF TimesListed, AllocSizes
<1>2. \A c \in 2..99 : AllocSizes[c] = AllocSizes[c - 1] + TimesListed[c]
  BY DEF TimesListed, AllocSizes
<1> QED BY <1>1, <1>2

LEMMA TableNumbers ==
  ASSUME NEW c \in 1..99
  PROVE  /\ AllocSizes[c] \in Nat /\ 40 <= AllocSizes[c] /\ AllocSizes[c] <= 8144
         /\ TimesListed[c] \in Nat
<1>1. \A d \in 1..99 : AllocSizes[d] \in Nat /\ 40 <= AllocSizes[d] /\ AllocSizes[d] <= 8144
  BY DEF AllocSizes
<1>2. \A d \in 1..99 : TimesListed[d] \in Nat
  BY DEF TimesListed
<1> QED BY <1>1, <1>2, SMTT(30)

\* So the entries of a class end at its object size.
LEMMA EntriesEnd ==
  /\ FirstIndex[0] = 0
  /\ \A c \in 1..99 : FirstIndex[c] = AllocSizes[c]
<1> DEFINE Rec(g, c) == IF c = 0 THEN 0 ELSE g[c - 1] + TimesListed[c]
           w == [c \in 0..99 |-> IF c = 0 THEN 0 ELSE AllocSizes[c]]
           f == CHOOSE g : g = [c \in 0..99 |-> Rec(g, c)]
<1>1. ASSUME NEW c \in 0..99 PROVE w[c] = Rec(w, c)
  <2>1. CASE c = 0
    BY <2>1
  <2>2. CASE c = 1
    <3>1. w[0] = 0 /\ w[1] = AllocSizes[1]
      OBVIOUS
    <3>2. TimesListed[1] \in Nat
      BY TableNumbers
    <3>3. Rec(w, 1) = w[0] + TimesListed[1]
      OBVIOUS
    <3> HIDE DEF w, Rec
    <3> QED BY <2>2, <3>1, <3>2, <3>3, TablesAgree
  <2>3. CASE c \in 2..99
    <3>1. c - 1 \in 0..99 /\ c - 1 # 0 /\ c # 0
      BY <2>3
    <3>2. w[c - 1] = AllocSizes[c - 1] /\ w[c] = AllocSizes[c]
      BY <3>1
    <3>3. Rec(w, c) = w[c - 1] + TimesListed[c]
      BY <3>1
    <3> HIDE DEF w, Rec
    <3> QED BY <2>3, <3>2, <3>3, TablesAgree
  <2> QED BY <2>1, <2>2, <2>3
<1>2. w = [c \in 0..99 |-> Rec(w, c)]
  BY <1>1, SMTT(30)
<1>3. f = [c \in 0..99 |-> Rec(f, c)]
  BY <1>2
<1>4. FirstIndex = [c \in 0..99 |-> f[c]]
  BY DEF FirstIndex, NUM_SIZE_CLASSES
<1> HIDE DEF f
<1>5. \A c \in 0..99 : f[c] = Rec(f, c)
  BY <1>3
<1>6. ASSUME NEW c \in 1..99, f[c - 1] = w[c - 1] PROVE f[c] = w[c]
  <2>1. c \in 0..99 /\ c # 0
    OBVIOUS
  <2>2. f[c] = Rec(f, c) /\ w[c] = Rec(w, c)
    BY <1>1, <1>5, <2>1
  <2> HIDE DEF w
  <2> QED BY <2>1, <2>2, <1>6
<1>7. f[0] = w[0]
  BY <1>5
<1>8. /\ w[0] = 0
      /\ \A c \in 1..99 : w[c] = AllocSizes[c]
  OBVIOUS
<1> HIDE DEF w, Rec
<1>9. \A c \in 0..99 : f[c] = w[c]
  <2> DEFINE T == {c \in 0..99 : f[c] # w[c]}
  <2>1. SUFFICES ASSUME T # {} PROVE FALSE
    OBVIOUS
  <2>2. T \subseteq Nat /\ \A c \in 0..99 : c \in T <=> f[c] # w[c]
    OBVIOUS
  <2>3. T \subseteq 0..99
    OBVIOUS
  <2> HIDE DEF T
  <2>4. PICK c \in T : \A d \in T : c <= d
    BY <2>1, <2>2, LeastElement
  <2>5. c \in 1..99 /\ c - 1 \in 0..99 /\ ~(c <= c - 1)
    <3>1. c \in 0..99 /\ c # 0
      BY <2>2, <2>3, <1>7
    <3> QED BY <3>1
  <2>6. c - 1 \notin T
    BY <2>4, <2>5
  <2> QED BY <2>2, <2>3, <2>5, <2>6, <1>6
<1>10. \A c \in 0..99 : FirstIndex[c] = f[c]
  BY <1>4
<1> QED BY <1>8, <1>9, <1>10

\* The sizes of the classes grow.
LEMMA AllocSizesGrow ==
  ASSUME NEW c \in 1..99, NEW d \in 1..99, c <= d
  PROVE  AllocSizes[c] <= AllocSizes[d]
<1> DEFINE T == {e \in 1..99 : c <= e /\ ~(AllocSizes[c] <= AllocSizes[e])}
<1>1. SUFFICES ASSUME T # {} PROVE FALSE
  OBVIOUS
<1>2. T \subseteq Nat /\ T \subseteq 1..99
      /\ \A e \in 1..99 : e \in T <=> c <= e /\ ~(AllocSizes[c] <= AllocSizes[e])
  OBVIOUS
<1> HIDE DEF T
<1>3. PICK e \in T : \A x \in T : e <= x
  BY <1>1, <1>2, LeastElement
<1>4. e \in 1..99 /\ c <= e /\ ~(AllocSizes[c] <= AllocSizes[e])
  BY <1>2
<1>5. AllocSizes[c] \in Nat /\ AllocSizes[e] \in Nat
  BY <1>4, TableNumbers, SMTT(30)
<1>6. c # e
  BY <1>4, <1>5
<1>7. e \in 1..99 /\ e \in 2..99 /\ e - 1 \in 1..99 /\ c <= e - 1 /\ ~(e <= e - 1)
  BY <1>4, <1>6
<1>8. AllocSizes[c] <= AllocSizes[e - 1]
  BY <1>2, <1>3, <1>7
<1>9. AllocSizes[e] = AllocSizes[e - 1] + TimesListed[e]
  BY <1>7, TablesAgree
<1>10. AllocSizes[e - 1] \in Nat /\ TimesListed[e] \in Nat
  BY <1>7, TableNumbers
<1> QED BY <1>4, <1>5, <1>8, <1>9, <1>10

LEMMA TableEnds == TableLength = 8144 /\ AllocSizes[99] = 8144
<1>1. AllocSizes[99] = 8144
  BY DEF AllocSizes
<1> QED BY <1>1, EntriesEnd DEF TableLength, NUM_SIZE_CLASSES

\* The class of a size holds it, and the class before it does not.
LEMMA ClassOfSize ==
  ASSUME NEW n \in Nat, 1 <= n, n <= TableLength
  PROVE  /\ class_of(n) \in 0..98
         /\ n <= AllocSizes[class_of(n) + 1]
         /\ class_of(n) # 0 => AllocSizes[class_of(n)] < n
<1> DEFINE Listed(c) == FirstIndex[c] <= n - 1 /\ n - 1 < FirstIndex[c + 1]
           T == {c \in 0..98 : n <= AllocSizes[c + 1]}
<1>1. 98 \in T
  <2>1. n <= AllocSizes[98 + 1]
    BY TableEnds
  <2> QED BY <2>1
<1>2. T \subseteq 0..98 /\ \A c \in 0..98 : c \in T <=> n <= AllocSizes[c + 1]
  OBVIOUS
<1> HIDE DEF T
<1>12. T # {}
  BY <1>1
<1>13. T \subseteq Nat
  BY <1>2
<1>3. PICK c \in T : \A d \in T : c <= d
  BY <1>12, <1>13, LeastElement
<1>4. c \in 0..98 /\ n <= AllocSizes[c + 1]
  BY <1>2
<1>5. ASSUME NEW d \in 0..98
      PROVE  FirstIndex[d + 1] = AllocSizes[d + 1] /\ AllocSizes[d + 1] \in Nat
  <2>1. d + 1 \in 1..99
    OBVIOUS
  <2> QED BY <2>1, EntriesEnd, TableNumbers
<1>6. n - 1 < FirstIndex[c + 1]
  BY <1>4, <1>5
<1>7. FirstIndex[c] <= n - 1
  <2>1. CASE c = 0
    BY <2>1, EntriesEnd
  <2>2. CASE c # 0
    <3>1. c - 1 \in 0..98 /\ (c - 1) + 1 = c /\ ~(c <= c - 1)
      BY <1>4, <2>2
    <3>2. ~(n <= AllocSizes[c])
      BY <1>2, <1>3, <3>1
    <3>3. FirstIndex[c] = AllocSizes[c] /\ AllocSizes[c] \in Nat
      BY <1>5, <3>1
    <3> QED BY <3>2, <3>3
  <2> QED BY <2>1, <2>2
<1>8. \E d \in 0..98 : Listed(d)
  BY <1>4, <1>6, <1>7
<1> DEFINE k == CHOOSE d \in 0..98 : Listed(d)
<1> HIDE DEF Listed
<1>9. k \in 0..98 /\ Listed(k)
  BY <1>8
<1>10. class_of(n) = k
  <2>1. n - 1 \in 0..(TableLength - 1)
    BY TableEnds, SMTT(30)
  <2>2. SizeClass = 0..98
    BY DEF SizeClass, NUM_SIZE_CLASSES
  <2> QED BY <2>1, <2>2 DEF class_of, size_to_sizeclass, Listed
<1> HIDE DEF k
<1> USE DEF Listed
<1>11. n <= AllocSizes[k + 1]
  BY <1>5, <1>9
<1>14. ASSUME k # 0 PROVE AllocSizes[k] < n
  <2>1. k - 1 \in 0..98 /\ (k - 1) + 1 = k
    BY <1>9, <1>14
  <2>2. FirstIndex[k] = AllocSizes[k] /\ AllocSizes[k] \in Nat
    BY <1>5, <2>1
  <2> QED BY <1>9, <2>2
<1> QED BY <1>9, <1>10, <1>11, <1>14

\* The pages of a class have room for two objects.
LEMMA PageOfClass ==
  ASSUME NEW c \in 0..98
  PROVE  /\ sizeclass_to_pagesize[c] \in {4096, 8192, 16384, 32768, 65536, 131072, 262144}
         /\ 2 * AllocSizes[c + 1] + 32 <= sizeclass_to_pagesize[c]
<1> DEFINE a == AllocSizes[c + 1]
           p == sizeclass_to_pagesize[c]
<1>1. c + 1 \in 1..99 /\ SizeClass = 0..98
  BY DEF SizeClass, NUM_SIZE_CLASSES
<1>2. a \in Nat
  BY <1>1, TableNumbers, SMTT(30)
<1>3. /\ c < 19 => p = 4096
      /\ c \in 19..35 => p = 8192
      /\ c \in 36..49 => p = 16384
      /\ c \in 50..63 => p = 32768
      /\ c \in 64..77 => p = 65536
      /\ c \in 78..91 => p = 131072
      /\ c > 91 => p = 262144
  BY <1>1 DEF sizeclass_to_pagesize
<1>4. /\ AllocSizes[19] = 184 /\ AllocSizes[36] = 368 /\ AllocSizes[50] = 744
      /\ AllocSizes[64] = 1480 /\ AllocSizes[78] = 2952 /\ AllocSizes[92] = 5864
      /\ AllocSizes[99] = 8144
  BY SMTT(30) DEF AllocSizes
<1>5. ASSUME NEW d \in 1..99, c + 1 <= d PROVE a <= AllocSizes[d]
  BY <1>1, <1>5, AllocSizesGrow
<1> HIDE DEF a, p
<1>6. CASE c < 19
  <2>1. c + 1 <= 19 /\ 19 \in 1..99
    BY <1>6
  <2>2. a <= 184 /\ p = 4096
    BY <1>3, <1>4, <1>5, <1>6, <2>1
  <2> QED BY <1>2, <2>2 DEF a, p
<1>7. CASE c \in 19..35
  <2>1. c + 1 <= 36 /\ 36 \in 1..99
    BY <1>7
  <2>2. a <= 368 /\ p = 8192
    BY <1>3, <1>4, <1>5, <1>7, <2>1
  <2> QED BY <1>2, <2>2 DEF a, p
<1>8. CASE c \in 36..49
  <2>1. c + 1 <= 50 /\ 50 \in 1..99
    BY <1>8
  <2>2. a <= 744 /\ p = 16384
    BY <1>3, <1>4, <1>5, <1>8, <2>1
  <2> QED BY <1>2, <2>2 DEF a, p
<1>9. CASE c \in 50..63
  <2>1. c + 1 <= 64 /\ 64 \in 1..99
    BY <1>9
  <2>2. a <= 1480 /\ p = 32768
    BY <1>3, <1>4, <1>5, <1>9, <2>1
  <2> QED BY <1>2, <2>2 DEF a, p
<1>10. CASE c \in 64..77
  <2>1. c + 1 <= 78 /\ 78 \in 1..99
    BY <1>10
  <2>2. a <= 2952 /\ p = 65536
    BY <1>3, <1>4, <1>5, <1>10, <2>1
  <2> QED BY <1>2, <2>2 DEF a, p
<1>11. CASE c \in 78..91
  <2>1. c + 1 <= 92 /\ 92 \in 1..99
    BY <1>11
  <2>2. a <= 5864 /\ p = 131072
    BY <1>3, <1>4, <1>5, <1>11, <2>1
  <2> QED BY <1>2, <2>2 DEF a, p
<1>12. CASE c > 91
  <2>1. c + 1 <= 99 /\ 99 \in 1..99
    BY <1>1
  <2>2. a <= 8144 /\ p = 262144
    BY <1>3, <1>4, <1>5, <1>12, <2>1
  <2> QED BY <1>2, <2>2 DEF a, p
<1> QED BY <1>6, <1>7, <1>8, <1>9, <1>10, <1>11, <1>12

\* A slab of x bytes for objects of a bytes: as many as fit, two at least, and
\* few enough to count.
LEMMA ObjectsFit ==
  ASSUME NEW a \in Nat, 40 <= a, NEW x \in Nat, 2 * a <= x, x <= 262112
  PROVE  /\ x \div a \in Nat /\ x \div a >= 2 /\ x \div a <= 65535
         /\ (x \div a) * a <= x /\ x < (x \div a + 1) * a
<1> DEFINE q == x \div a
<1>1. q \in Nat /\ a * q <= x /\ x < a * q + a
  BY Quotient
<1> HIDE DEF q
<1>2. q * a = a * q /\ (q + 1) * a = a * q + a /\ q * a \in Nat
  BY <1>1
<1>3. q >= 2
  <2>1. CASE q = 0
    BY <1>1, <2>1
  <2>2. CASE q = 1
    BY <1>1, <2>2
  <2> QED BY <1>1, <2>1, <2>2
<1>4. 40 * q <= a * q
  BY <1>1
<1>5. q <= 65535
  BY <1>1, <1>2, <1>4
<1> QED BY <1>1, <1>2, <1>3, <1>5 DEF q

LEMMA InField ==
  ASSUME NEW n \in Nat, n <= 65535
  PROVE  FitsField(n)
<1>1. n <= UINT16_MAX /\ UINT16_MAX \in Nat
  BY DEF UINT16_MAX
<1> QED BY <1>1 DEF FitsField

\* Sizes are counted from 1.
LEMMA SizeCounted == RequestSpec => [](size \in Nat /\ 1 <= size)
<1> DEFINE I == size \in Nat /\ 1 <= size
<1>1. RequestInit => I
  BY DEF RequestInit
<1>2. I /\ [NextRequest]_size => I'
  BY MaxSizeAssumption DEF NextRequest
<1> QED BY <1>1, <1>2, PTL DEF RequestSpec

\* Each size that the table has an entry for gets the smallest object that
\* holds it (Heap.cpp:61-72, SlabSizeClass.h).
THEOREM BestClassAlways == RequestSpec => []BestClass
<1>1. size \in Nat /\ 1 <= size => BestClass
  <2> SUFFICES ASSUME size \in Nat, 1 <= size, size <= TableLength
               PROVE  LET fitting == {c \in SizeClass : size <= sizeclass_to_allocsize[c]}
                      IN /\ class_of(size) \in fitting
                         /\ \A c \in fitting : class_of(size) <= c
    BY DEF BestClass
  <2> DEFINE k == class_of(size)
  <2>1. k \in 0..98 /\ size <= AllocSizes[k + 1] /\ (k # 0 => AllocSizes[k] < size)
    BY ClassOfSize
  <2>2. SizeClass = 0..98 /\ \A c \in 0..98 : sizeclass_to_allocsize[c] = AllocSizes[c + 1]
    BY DEF SizeClass, NUM_SIZE_CLASSES, sizeclass_to_allocsize
  <2> HIDE DEF k
  <2>3. ASSUME NEW c \in 0..98, size <= AllocSizes[c + 1] PROVE k <= c
    <3>1. SUFFICES ASSUME c < k PROVE FALSE
      BY <2>1
    <3>2. c + 1 \in 1..99 /\ k \in 1..99 /\ c + 1 <= k /\ k # 0
      BY <2>1, <3>1, SMTT(30)
    <3>3. AllocSizes[c + 1] <= AllocSizes[k]
      BY <3>2, AllocSizesGrow
    <3>4. AllocSizes[c + 1] \in Nat /\ AllocSizes[k] \in Nat
      BY <3>2, TableNumbers
    <3> QED BY <2>1, <2>3, <3>2, <3>3, <3>4
  <2> QED BY <2>1, <2>2, <2>3 DEF k
<1> QED BY <1>1, SizeCounted, PTL

\* And the pages of its class are pages the buddy allocator serves, with room
\* for two objects and few enough for the 16 bits of the header
\* (BuddyManager.h:52-53, SlabAllocator.cpp:46-53).
THEOREM PageServesClassAlways == RequestSpec => []PageServesClass
<1>1. size \in Nat /\ 1 <= size => PageServesClass
  <2> SUFFICES ASSUME size \in Nat, 1 <= size, size <= TableLength
               PROVE  LET c == class_of(size)
                          count == max_alloc_count(c)
                      IN /\ sizeclass_to_pagesize[c] \in PageSizes
                         /\ count >= 2
                         /\ AddressOf(c, count) <= sizeclass_to_pagesize[c]
                         /\ AddressOf(c, count + 1) > sizeclass_to_pagesize[c]
                         /\ FitsField(count) /\ FitsField(sizeclass_to_allocsize[c])
    BY DEF PageServesClass
  <2> DEFINE c == class_of(size)
             a == AllocSizes[c + 1]
             p == sizeclass_to_pagesize[c]
             x == p - 32
             q == x \div a
  <2>1. c \in 0..98
    BY ClassOfSize
  <2>2. sizeclass_to_allocsize[c] = a /\ c + 1 \in 1..99
    BY <2>1 DEF SizeClass, NUM_SIZE_CLASSES, sizeclass_to_allocsize
  <2>3. /\ p \in {4096, 8192, 16384, 32768, 65536, 131072, 262144}
        /\ 2 * a + 32 <= p
    BY <2>1, PageOfClass
  <2>4. a \in Nat /\ 40 <= a /\ a <= 8144
    BY <2>2, TableNumbers
  <2>5. SkipSize = 32
    BY DEF SkipSize
  <2>6. /\ max_alloc_count(c) = q
        /\ AddressOf(c, q) = 32 + q * a
        /\ AddressOf(c, q + 1) = 32 + (q + 1) * a
    BY <2>2, <2>5 DEF max_alloc_count, AddressOf
  <2>7. p \in PageSizes
    <3>1. \A n \in {4096, 8192, 16384, 32768, 65536, 131072, 262144} :
            \E m \in {1, 2, 4, 8, 16, 32, 64} : n = 4096 * m
      OBVIOUS
    <3> HIDE DEF p
    <3>2. PICK m \in {1, 2, 4, 8, 16, 32, 64} : p = 4096 * m
      BY <2>3, <3>1
    <3> QED BY <3>2 DEF PageSizes
  <2> HIDE DEF a, p, c
  <2>8. x \in Nat /\ 2 * a <= x /\ x <= 262112 /\ x + 32 = p
    BY <2>3, <2>4
  <2> HIDE DEF x
  <2>9. /\ q \in Nat /\ q >= 2 /\ q <= 65535
        /\ q * a <= x /\ x < (q + 1) * a
    BY <2>4, <2>8, ObjectsFit
  <2> HIDE DEF q
  <2>10. q * a \in Nat /\ (q + 1) * a \in Nat
    BY <2>4, <2>9
  <2>11. 32 + q * a <= p /\ 32 + (q + 1) * a > p
    BY <2>8, <2>9, <2>10
  <2>12. FitsField(q) /\ FitsField(a)
    <3>1. a <= 65535
      BY <2>4
    <3> QED BY <2>4, <2>9, <3>1, InField
  <2> QED BY <2>2, <2>6, <2>7, <2>9, <2>11, <2>12 DEF c, p
<1> QED BY <1>1, SizeCounted, PTL
-----------------------------------------------------------------------------
(* The sizes of rpmalloc.c: the table of size classes *)

LEMMA Numbers ==
  /\ SMALL_CLASS_COUNT = 127 /\ SMALL_SIZE_LIMIT = 2032 /\ MEDIUM_SIZE_LIMIT = 32720
  /\ SIZE_CLASS_COUNT = 187 /\ LARGE_SIZE_LIMIT = 2097120
  /\ SMALL_GRANULARITY = 16 /\ MEDIUM_GRANULARITY = 512
  /\ PAGE_SIZE = 4096 /\ SPAN_HEADER_SIZE = 32 /\ SPAN_MAX_SIZE = 65536
  /\ SPAN_MAX_PAGE_COUNT = 16 /\ SPAN_CLASS_GRANULARITY = 4
BY DEF SMALL_CLASS_COUNT, SMALL_SIZE_LIMIT, MEDIUM_SIZE_LIMIT, SIZE_CLASS_COUNT, LARGE_SIZE_LIMIT,
       PAGE_SIZE, SPAN_HEADER_SIZE, SMALL_GRANULARITY, MEDIUM_GRANULARITY, MEDIUM_CLASS_COUNT,
       SPAN_MAX_SIZE, SPAN_MAX_PAGE_COUNT, LARGE_CLASS_COUNT, SPAN_CLASS_GRANULARITY

LEMMA RoundedUp ==
  ASSUME NEW n \in Nat, NEW d \in Nat \ {0}
  PROVE  DividedUp(n, d) \in Nat /\ n <= d * DividedUp(n, d) /\ d * DividedUp(n, d) < n + d
<1>1. n + d - 1 \in Nat
  OBVIOUS
<1> DEFINE q == (n + d - 1) \div d
<1>2. q \in Nat /\ d * q <= n + d - 1 /\ n + d - 1 < d * q + d
  BY <1>1, Quotient
<1>3. d * q \in Nat
  BY <1>2
<1> HIDE DEF q
<1>4. n <= d * q /\ d * q < n + d
  BY <1>2, <1>3
<1> QED BY <1>2, <1>4 DEF q, DividedUp

\* The sizes of the classes grow from 16 bytes to the limit: a first, a second
\* and then larger ones.
LEMMA ClassSizeIs ==
  ASSUME NEW c \in 0..186
  PROVE  SizeOfClass(c) = IF c < 127 THEN (c + 1) * 16
                          ELSE IF 2032 + (c - 126) * 512 < 32720 THEN 2032 + (c - 126) * 512
                          ELSE 32720
<1>1. c - 127 + 1 = c - 126
  OBVIOUS
<1> QED BY <1>1, Numbers DEF SizeOfClass, Smaller

LEMMA ClassSizes ==
  ASSUME NEW c \in 0..186
  PROVE  SizeOfClass(c) \in Nat /\ 16 <= SizeOfClass(c) /\ SizeOfClass(c) <= 32720
BY ClassSizeIs

LEMMA FirstSizes ==
  ASSUME NEW c \in 0..186
  PROVE  SizeOfClass(c) = 16 \/ SizeOfClass(c) = 32 \/ SizeOfClass(c) >= 39
<1>1. c = 0 \/ c = 1 \/ c >= 2
  OBVIOUS
<1> QED BY <1>1, ClassSizeIs

LEMMA ClassSizesGrow ==
  ASSUME NEW c \in 0..186, NEW d \in 0..186, c <= d
  PROVE  SizeOfClass(c) <= SizeOfClass(d)
BY ClassSizeIs, SMTT(30)

\* A size has a class whose blocks hold it.
LEMMA BaseClassHolds ==
  ASSUME NEW n \in Nat, 1 <= n, n <= 32720
  PROVE  BaseClass(n) \in 0..186 /\ n <= SizeOfClass(BaseClass(n))
<1>1. CASE n <= 2032
  <2> DEFINE q == DividedUp(n, 16)
  <2>1. q \in Nat /\ n <= 16 * q /\ 16 * q < n + 16
    BY RoundedUp
  <2>2. BaseClass(n) = q - 1
    BY <1>1, Numbers DEF BaseClass
  <2> HIDE DEF q
  <2>3. q - 1 \in 0..126
    <3>1. q >= 1 /\ q <= 127
      BY <1>1, <2>1
    <3> QED BY <2>1, <3>1
  <2>4. SizeOfClass(q - 1) = q * 16
    BY <2>3, ClassSizeIs
  <2> QED BY <2>1, <2>2, <2>3, <2>4
<1>2. CASE n > 2032
  <2> DEFINE q == DividedUp(n - 2032, 512)
  <2>1. q \in Nat /\ n - 2032 <= 512 * q /\ 512 * q < n - 2032 + 512
    BY <1>2, RoundedUp
  <2>2. BaseClass(n) = 127 + q - 1
    BY <1>2, Numbers DEF BaseClass
  <2> HIDE DEF q
  <2>3. q >= 1 /\ q <= 60
    BY <1>2, <2>1
  <2>4. SizeOfClass(127 + q - 1) = IF 2032 + q * 512 < 32720 THEN 2032 + q * 512 ELSE 32720
    <3> DEFINE c == 127 + q - 1
    <3>1. c \in 0..186 /\ ~(c < 127) /\ c - 126 = q
      BY <2>1, <2>3
    <3> HIDE DEF c
    <3>2. SizeOfClass(c) = IF 2032 + (c - 126) * 512 < 32720 THEN 2032 + (c - 126) * 512 ELSE 32720
      BY <3>1, ClassSizeIs
    <3> QED BY <3>1, <3>2 DEF c
  <2>5. 127 + q - 1 \in 0..186
    BY <2>1, <2>3
  <2> QED BY <1>2, <2>1, <2>2, <2>4, <2>5
<1> QED BY <1>1, <1>2

\* Twice n fit in x, so x \div n is 2 at least.
LEMMA TwoFit ==
  ASSUME NEW n \in Nat \ {0}, NEW x \in Nat, x >= 2 * n
  PROVE  x \div n >= 2
<1> DEFINE q == x \div n
<1>1. q \in Nat /\ x < n * q + n
  BY Quotient
<1> HIDE DEF q
<1>2. CASE q = 0
  BY <1>1, <1>2
<1>3. CASE q = 1
  BY <1>1, <1>3
<1>4. CASE q >= 2
  BY <1>4 DEF q
<1> QED BY <1>1, <1>2, <1>3, <1>4

\* The spans of a class: pages for two blocks at least.
LEMMA PageCountIs ==
  ASSUME NEW n \in Nat, 16 <= n, n <= 32720
  PROVE  /\ PageCount(n) \in {4, 8, 12, 16}
         /\ 2 * n + 32 <= PageCount(n) * 4096
<1> DEFINE count == (n * 255) \div 4096
           a == IF count = 0 THEN 1 ELSE count
           u == DividedUp(a, 4)
<1>1. count \in Nat /\ 4096 * count <= n * 255 /\ n * 255 < 4096 * count + 4096
  BY Quotient
<1>2. a \in Nat \ {0} /\ count <= a
  BY <1>1
<1>3. u \in Nat /\ a <= 4 * u /\ 4 * u < a + 4
  BY <1>2, RoundedUp
<1>4. PageCount(n) = IF u * 4 < 16 THEN u * 4 ELSE 16
  BY Numbers DEF PageCount, Smaller
<1> HIDE DEF u, a, count
<1>5. u >= 1
  BY <1>2, <1>3
<1>6. PageCount(n) \in {4, 8, 12, 16}
  BY <1>3, <1>4, <1>5
<1>7. CASE n <= 8176
  BY <1>6, <1>7
<1>8. CASE n > 8176
  <2>1. count >= 16
    BY <1>1, <1>8
  <2>2. PageCount(n) = 16
    <3>1. a >= 16
      BY <1>1, <1>2, <2>1
    <3>2. u >= 4
      BY <1>2, <1>3, <3>1
    <3>3. ~(u * 4 < 16)
      BY <1>3, <3>2
    <3> QED BY <1>4, <3>3
  <2> QED BY <1>8, <2>2
<1> QED BY <1>6, <1>7, <1>8

\* The blocks of a span fit behind its header, and two do.
LEMMA SpanOfClass ==
  ASSUME NEW n \in Nat, 16 <= n, n <= 32720
  PROVE  /\ BlocksIn(PageCount(n), n) \in Nat
         /\ BlocksIn(PageCount(n), n) >= 2
         /\ 32 + BlocksIn(PageCount(n), n) * n <= PageCount(n) * 4096
<1> DEFINE x == PageCount(n) * 4096 - 32
           q == x \div n
<1>1. x \in Nat /\ x >= 2 * n /\ x + 32 = PageCount(n) * 4096
  BY PageCountIs
<1>2. BlocksIn(PageCount(n), n) = q
  BY Numbers DEF BlocksIn
<1> HIDE DEF x
<1>3. q \in Nat /\ n * q <= x /\ q >= 2
  BY <1>1, Quotient, TwoFit
<1> HIDE DEF q
<1>4. q * n = n * q /\ q * n \in Nat
  BY <1>3
<1>5. 32 + q * n <= PageCount(n) * 4096
  BY <1>1, <1>3, <1>4, PageCountIs
<1> QED BY <1>2, <1>3, <1>5
-----------------------------------------------------------------------------
(* The table: the inductive invariant *)

\* Class c is led to class k, and so is every class between.
LedTo(c, k) ==
  /\ \A d \in c..k : _memory_size_class[d] = ClassEntry(k)
  /\ Merges(ClassEntry(k), ClassEntry(c))

\* Each class that is set up is led to one no smaller, with the pages and the
\* blocks of its own.
TableInv ==
  /\ iclass \in 0..187
  /\ size \in Nat /\ size >= 1
  /\ DOMAIN _memory_size_class = 0..186
  /\ \A c \in 0..(iclass - 1) : \E k \in c..(iclass - 1) : LedTo(c, k)

\* The merged classes are the last ones.
LEMMA MergedAreLast ==
  ASSUME iclass \in Nat, NEW entry, NEW c \in MergedInto(entry), NEW d \in c..(iclass - 1)
  PROVE  d \in MergedInto(entry)
BY DEF MergedInto

\* A merged class takes all that are led to it along.
LEMMA MergedTogether ==
  ASSUME iclass \in Nat, NEW entry, NEW c \in 0..(iclass - 1), NEW k \in c..(iclass - 1),
         LedTo(c, k), k \in MergedInto(entry)
  PROVE  c \in MergedInto(entry) /\ Merges(ClassEntry(k), entry)
<1>1. \A d \in k..(iclass - 1) : Merges(_memory_size_class[d], entry)
  BY DEF MergedInto
<1>2. _memory_size_class[k] = ClassEntry(k) /\ k \in k..(iclass - 1)
  BY DEF LedTo
<1>3. Merges(ClassEntry(k), entry)
  BY <1>1, <1>2
<1>4. ASSUME NEW d \in c..(iclass - 1)
      PROVE  Merges(_memory_size_class[d], entry)
  <2>1. CASE d \in c..k
    BY <1>3, <2>1 DEF LedTo
  <2>2. CASE d \in k..(iclass - 1)
    BY <1>1, <2>2
  <2> QED BY <2>1, <2>2
<1> QED BY <1>3, <1>4 DEF MergedInto

\* Where a class is led after a round, whether it is merged or not.
LEMMA RoundLeads ==
  ASSUME TableInv, _memory_adjust_size_class, NEW c \in 0..iclass
  PROVE  \E k \in c..iclass : LedTo(c, k)'
<1> DEFINE i == iclass
           entry == ClassEntry(i)
           copies == MergedInto(entry) \cup {i}
<1>1. i \in 0..186
  BY Numbers DEF TableInv, _memory_adjust_size_class
<1>2. \A d \in 0..186 : /\ d \in copies => _memory_size_class'[d] = entry
                        /\ d \notin copies => _memory_size_class'[d] = _memory_size_class[d]
  BY DEF TableInv, _memory_adjust_size_class
<1> DEFINE new == _memory_size_class'
<1>3. ASSUME NEW k \in c..i, \A d \in c..k : new[d] = ClassEntry(k),
             Merges(ClassEntry(k), ClassEntry(c))
      PROVE  LedTo(c, k)'
  BY <1>3 DEF LedTo, ClassEntry, Merges
<1>4. CASE c = i
  <2>1. \A d \in c..i : new[d] = entry
    BY <1>1, <1>2, <1>4
  <2>2. Merges(entry, entry)
    BY DEF Merges
  <2>3. i \in c..i
    BY <1>1, <1>4
  <2> QED BY <1>3, <1>4, <2>1, <2>2, <2>3
<1>5. CASE c # i
  <2>1. c \in 0..(i - 1) /\ iclass \in Nat
    BY <1>1, <1>5
  <2>2. PICK k \in c..(i - 1) : LedTo(c, k)
    BY <2>1 DEF TableInv
  <2>3. CASE k \in MergedInto(entry)
    <3>1. c \in MergedInto(entry) /\ Merges(ClassEntry(k), entry)
      BY <2>1, <2>2, <2>3, MergedTogether
    <3>2. \A d \in c..(i - 1) : d \in MergedInto(entry)
      BY <2>1, <3>1, MergedAreLast
    <3>3. \A d \in c..i : new[d] = entry
      BY <1>1, <1>2, <2>1, <3>2, SMTT(30)
    <3>4. Merges(entry, ClassEntry(c))
      BY <2>2, <3>1 DEF LedTo, Merges
    <3>5. i \in c..i
      BY <1>1
    <3> QED BY <1>3, <3>3, <3>4, <3>5
  <2>4. CASE k \notin MergedInto(entry)
    <3>1. ASSUME NEW d \in c..k
          PROVE  d \notin copies /\ d \in 0..186
      <4>1. k \in d..(iclass - 1) /\ d # i /\ d \in 0..186
        BY <1>1, <2>1
      <4>2. d \notin MergedInto(entry)
        BY <2>1, <2>4, <4>1, MergedAreLast
      <4> QED BY <4>1, <4>2
    <3>2. \A d \in c..k : new[d] = ClassEntry(k)
      BY <1>2, <2>2, <3>1, SMTT(30) DEF LedTo
    <3>3. k \in c..i
      BY <1>1
    <3> QED BY <1>3, <2>2, <3>2, <3>3 DEF LedTo
  <2> QED BY <2>3, <2>4
<1> QED BY <1>4, <1>5

LEMMA TableInvStart == RpInit => TableInv
BY Numbers DEF RpInit, RequestInit, TableInv

LEMMA TableInvStep == TableInv /\ [RpNext]_<<size, iclass, _memory_size_class>> => TableInv'
<1> SUFFICES ASSUME TableInv, [RpNext]_<<size, iclass, _memory_size_class>>
             PROVE  TableInv'
  OBVIOUS
<1>1. CASE _memory_adjust_size_class
  <2>1. iclass \in 0..186 /\ iclass' = iclass + 1 /\ size' = size
    BY <1>1, Numbers DEF TableInv, _memory_adjust_size_class
  <2>2. DOMAIN _memory_size_class' = 0..186
    BY <1>1 DEF TableInv, _memory_adjust_size_class
  <2>3. \A c \in 0..iclass : \E k \in c..iclass : LedTo(c, k)'
    BY <1>1, RoundLeads
  <2>4. iclass' - 1 = iclass /\ iclass' \in 0..187
    BY <2>1
  <2> QED BY <2>1, <2>2, <2>3, <2>4 DEF TableInv
<1>2. CASE ServeRequest
  <2>1. size' \in Nat /\ size' >= 1
    BY <1>2, MaxSizeAssumption DEF TableInv, ServeRequest, NextRequest
  <2> QED BY <1>2, <2>1 DEF TableInv, ServeRequest, LedTo, ClassEntry, Merges
<1>3. CASE UNCHANGED <<size, iclass, _memory_size_class>>
  BY <1>3 DEF TableInv, LedTo, ClassEntry, Merges
<1> QED BY <1>1, <1>2, <1>3 DEF RpNext

LEMMA TableInvAlways == RpSpec => []TableInv
BY TableInvStart, TableInvStep, PTL DEF RpSpec
-----------------------------------------------------------------------------
(* What a class serves *)

\* The class a size is led to.
LEMMA ServedBy ==
  ASSUME TableInv, Initialized, NEW n \in Nat, 1 <= n, n <= MEDIUM_SIZE_LIMIT
  PROVE  \E k \in 0..186 : /\ class_idx(n) = k
                           /\ _memory_size_class[k] = ClassEntry(k)
                           /\ n <= SizeOfClass(k)
                           /\ Merges(ClassEntry(k), ClassEntry(BaseClass(n)))
<1> DEFINE c == BaseClass(n)
<1>1. c \in 0..186 /\ n <= SizeOfClass(c)
  BY BaseClassHolds, Numbers
<1>2. iclass - 1 = 186
  BY Numbers DEF Initialized
<1>3. PICK k \in c..186 : LedTo(c, k)
  BY <1>1, <1>2 DEF TableInv
<1>4. class_idx(n) = _memory_size_class[c].class_idx
  BY DEF class_idx
<1>5. Merges(ClassEntry(k), ClassEntry(BaseClass(n)))
  BY <1>3 DEF LedTo
<1> HIDE DEF c
<1>6. c \in c..k /\ k \in c..k /\ k \in 0..186 /\ c <= k
  BY <1>1
<1>7. _memory_size_class[c] = ClassEntry(k) /\ _memory_size_class[k] = ClassEntry(k)
  BY <1>3, <1>6 DEF LedTo
<1>8. class_idx(n) = k
  BY <1>4, <1>7 DEF ClassEntry
<1>9. n <= SizeOfClass(k)
  <2>1. SizeOfClass(c) <= SizeOfClass(k)
    BY <1>6, <1>1, ClassSizesGrow
  <2>2. SizeOfClass(c) \in Nat /\ SizeOfClass(k) \in Nat
    BY <1>1, <1>6, ClassSizes
  <2> QED BY <1>1, <2>1, <2>2
<1> QED BY <1>5, <1>6, <1>7, <1>8, <1>9

\* Every small or medium request is served from a class whose blocks hold it
\* and whose spans have the pages and blocks the size itself calls for, for
\* every largest request (rpmalloc.c:680-684, 1461-1501, 1536-1555).
THEOREM RpClassServesAlways == RpSpec => []RpClassServes
<1>1. TableInv => RpClassServes
  <2> SUFFICES ASSUME TableInv, Initialized, size <= MEDIUM_SIZE_LIMIT
               PROVE  LET entry == _memory_size_class[class_idx(size)]
                          own == ClassEntry(BaseClass(size))
                      IN /\ entry.class_idx = class_idx(size)
                         /\ entry.size >= size
                         /\ SPAN_HEADER_SIZE + entry.block_count * entry.size
                              <= entry.page_count * PAGE_SIZE
                         /\ <<entry.page_count, entry.block_count>>
                              = <<own.page_count, own.block_count>>
                         /\ entry.block_count >= 2
                         /\ entry.page_count \in {4 * k : k \in 1..4}
    BY DEF RpClassServes
  <2>1. size \in Nat /\ 1 <= size /\ size <= MEDIUM_SIZE_LIMIT
    BY DEF TableInv
  <2>2. PICK k \in 0..186 : /\ class_idx(size) = k
                            /\ _memory_size_class[k] = ClassEntry(k)
                            /\ size <= SizeOfClass(k)
                            /\ Merges(ClassEntry(k), ClassEntry(BaseClass(size)))
    <3>1. \A n \in Nat : 1 <= n /\ n <= MEDIUM_SIZE_LIMIT =>
            \E k \in 0..186 : /\ class_idx(n) = k
                              /\ _memory_size_class[k] = ClassEntry(k)
                              /\ n <= SizeOfClass(k)
                              /\ Merges(ClassEntry(k), ClassEntry(BaseClass(n)))
      BY ServedBy
    <3> QED BY <2>1, <3>1
  <2> DEFINE n == SizeOfClass(k)
             e == ClassEntry(k)
  <2>3. n \in Nat /\ 16 <= n /\ n <= 32720
    BY ClassSizes
  <2>4. /\ e.class_idx = k /\ e.size = n /\ e.page_count = PageCount(n)
        /\ e.block_count = BlocksIn(PageCount(n), n)
    BY DEF ClassEntry
  <2> HIDE DEF n, e
  <2>5. /\ e.block_count >= 2 /\ 32 + e.block_count * e.size <= e.page_count * 4096
        /\ e.page_count \in {4, 8, 12, 16}
    BY <2>3, <2>4, SpanOfClass, PageCountIs
  <2>6. e.page_count \in {4 * j : j \in 1..4}
    <3>1. \A n4 \in {4, 8, 12, 16} : \E j \in 1..4 : n4 = 4 * j
      OBVIOUS
    <3> QED BY <2>5, <3>1
  <2>7. e.size >= size
    BY <2>1, <2>2, <2>3, <2>4 DEF n
  <2>8. /\ e.page_count = ClassEntry(BaseClass(size)).page_count
        /\ e.block_count = ClassEntry(BaseClass(size)).block_count
    BY <2>2 DEF e, Merges
  <2>9. _memory_size_class[class_idx(size)] = e
    BY <2>2 DEF e
  <2> QED BY <2>2, <2>4, <2>5, <2>6, <2>7, <2>8, <2>9, Numbers
<1> QED BY <1>1, TableInvAlways, PTL
-----------------------------------------------------------------------------
(* What usable_size says of a block *)

\* The spans and the pages of a large block, its header among them.
LEMMA UnitsHold ==
  ASSUME NEW n \in Nat
  PROVE  /\ num_spans(n) \in Nat /\ n + 32 <= 65536 * num_spans(n)
         /\ num_pages(n) \in Nat /\ n + 32 <= 4096 * num_pages(n)
<1>1. n + 32 \in Nat
  OBVIOUS
<1>2. num_spans(n) = DividedUp(n + 32, 65536) /\ num_pages(n) = DividedUp(n + 32, 4096)
  BY Numbers DEF num_spans, num_pages
<1> QED BY <1>1, <1>2, RoundedUp

\* A block of any tier has the bytes asked for, and is of the two smallest
\* sizes or of 39 bytes or more.
LEMMA UsableHolds ==
  ASSUME TableInv, Initialized, NEW m \in Nat, 1 <= m
  PROVE  LET u == _memory_usable_size(_memory_allocate(m))
         IN u \in Nat /\ m <= u /\ (u = 16 \/ u = 32 \/ u >= 39)
<1> DEFINE b == _memory_allocate(m)
           u == _memory_usable_size(b)
<1>1. CASE m <= MEDIUM_SIZE_LIMIT
  <2>1. PICK k \in 0..186 : /\ class_idx(m) = k
                            /\ _memory_size_class[k] = ClassEntry(k)
                            /\ m <= SizeOfClass(k)
    BY <1>1, ServedBy
  <2>2. b.tier = "class" /\ b.units = k
    BY <1>1, <2>1 DEF _memory_allocate, Tier, Units
  <2>3. u = SizeOfClass(k)
    BY <2>1, <2>2 DEF _memory_usable_size, ClassEntry
  <2> HIDE DEF u
  <2>4. u \in Nat /\ (u = 16 \/ u = 32 \/ u >= 39)
    <3>1. SizeOfClass(k) \in Nat
      BY ClassSizes
    <3>2. SizeOfClass(k) = 16 \/ SizeOfClass(k) = 32 \/ SizeOfClass(k) >= 39
      BY FirstSizes
    <3> QED BY <2>3, <3>1, <3>2
  <2> QED BY <2>1, <2>3, <2>4 DEF u
<1>2. CASE ~(m <= MEDIUM_SIZE_LIMIT) /\ m <= LARGE_SIZE_LIMIT
  <2> DEFINE d == num_spans(m)
  <2>1. b.tier = "spans" /\ b.units = d
    BY <1>2 DEF _memory_allocate, Tier, Units
  <2>2. u = d * 65536 - 32
    BY <2>1, Numbers DEF _memory_usable_size
  <2>3. d \in Nat /\ m + 32 <= 65536 * d
    BY UnitsHold
  <2>4. m >= 39
    BY <1>2, Numbers
  <2> HIDE DEF u, d
  <2>5. u \in Nat /\ m <= u /\ u >= 39
    BY <2>2, <2>3, <2>4
  <2> QED BY <2>5 DEF u
<1>3. CASE ~(m <= MEDIUM_SIZE_LIMIT) /\ ~(m <= LARGE_SIZE_LIMIT)
  <2> DEFINE d == num_pages(m)
  <2>1. b.tier = "pages" /\ b.units = d
    BY <1>3 DEF _memory_allocate, Tier, Units
  <2>2. u = d * 4096 - 32
    BY <2>1, Numbers DEF _memory_usable_size
  <2>3. d \in Nat /\ m + 32 <= 4096 * d
    BY UnitsHold
  <2>4. m >= 39
    BY <1>3, Numbers
  <2> HIDE DEF u, d
  <2>5. u \in Nat /\ m <= u /\ u >= 39
    BY <2>2, <2>3, <2>4
  <2> QED BY <2>5 DEF u
<1> QED BY <1>1, <1>2, <1>3

\* A block that is kept holds the new number of bytes.
LEMMA KeptHolds ==
  ASSUME TableInv, Initialized, NEW m \in Nat, 1 <= m, NEW n \in Nat,
         StaysInPlace(_memory_allocate(m), n)
  PROVE  n <= _memory_usable_size(_memory_allocate(m))
<1> DEFINE b == _memory_allocate(m)
           u == _memory_usable_size(b)
<1>0. u \in Nat
  BY UsableHolds
<1>1. CASE b.tier = "class"
  <2>1. u >= n
    BY <1>1 DEF StaysInPlace
  <2> HIDE DEF u
  <2> QED BY <1>0, <2>1 DEF u
<1>2. CASE b.tier = "spans"
  <2> DEFINE d == num_spans(m)
             needed == num_spans(n)
  <2>1. b.units = d
    BY <1>2 DEF _memory_allocate, Units
  <2>2. u = d * 65536 - 32
    BY <1>2, <2>1, Numbers DEF _memory_usable_size
  <2>3. d \in Nat /\ needed \in Nat /\ n + 32 <= 65536 * needed
    BY UnitsHold
  <2>4. d >= needed
    BY <1>2, <2>1 DEF StaysInPlace, Units
  <2> HIDE DEF u, d, needed
  <2>5. n <= u
    BY <2>2, <2>3, <2>4
  <2> QED BY <2>5 DEF u
<1>3. CASE b.tier = "pages"
  <2> DEFINE d == num_pages(m)
             needed == num_pages(n)
  <2>1. b.units = d
    BY <1>3 DEF _memory_allocate, Units
  <2>2. u = d * 4096 - 32
    BY <1>3, <2>1, Numbers DEF _memory_usable_size
  <2>3. d \in Nat /\ needed \in Nat /\ n + 32 <= 4096 * needed
    BY UnitsHold
  <2>4. d >= needed
    BY <1>3, <2>1 DEF StaysInPlace, Units
  <2> HIDE DEF u, d, needed
  <2>5. n <= u
    BY <2>2, <2>3, <2>4
  <2> QED BY <2>5 DEF u
<1>4. b.tier \in {"class", "spans", "pages"}
  BY DEF _memory_allocate, Tier
<1> QED BY <1>1, <1>2, <1>3, <1>4

\* Three eighths more, rounded down twice, are a third at least for the sizes
\* that blocks have.
LEMMA NewSizeGrows ==
  ASSUME NEW u \in Nat, u = 16 \/ u = 32 \/ u >= 39, NEW n \in Nat
  PROVE  NewSize(u, n) \in Nat /\ NewSize(u, n) >= 1 /\ NewSize(u, n) >= n
         /\ 3 * NewSize(u, n) >= 4 * u
<1> DEFINE q == u \div 4
           e == u \div 8
           w == u + q + e
<1>1. q \in Nat /\ 4 * q <= u /\ u < 4 * q + 4
  BY Quotient
<1>2. e \in Nat /\ 8 * e <= u /\ u < 8 * e + 8
  BY Quotient
<1>3. NewSize(u, n) = IF n > w THEN n ELSE w
  BY DEF NewSize
<1> HIDE DEF q, e
<1>4. w \in Nat /\ w >= u
  BY <1>1, <1>2
<1>5. 3 * w >= 4 * u
  BY <1>1, <1>2
<1> HIDE DEF w
<1> QED BY <1>3, <1>4, <1>5

\* After a reallocate the block holds the new number of bytes, and one that
\* had to grow has grown by a third.
LEMMA ReallocateHolds ==
  ASSUME TableInv, Initialized, NEW m \in Nat, 1 <= m, NEW n \in Nat
  PROVE  LET b == _memory_allocate(m)
             u == _memory_usable_size(b)
             v == _memory_usable_size(_memory_reallocate(b, n))
         IN v >= n /\ (n > u => 3 * v >= 4 * u)
<1> DEFINE b == _memory_allocate(m)
           u == _memory_usable_size(b)
           v == _memory_usable_size(_memory_reallocate(b, n))
<1>1. u \in Nat /\ (u = 16 \/ u = 32 \/ u >= 39)
  BY UsableHolds
<1>2. CASE StaysInPlace(b, n)
  <2>1. v = u
    BY <1>2 DEF _memory_reallocate
  <2>2. n <= u
    BY <1>2, KeptHolds
  <2> HIDE DEF u, v
  <2> QED BY <1>1, <2>1, <2>2 DEF u, v
<1>3. CASE ~StaysInPlace(b, n)
  <2> DEFINE w == NewSize(u, n)
  <2>1. v = _memory_usable_size(_memory_allocate(w))
    BY <1>3 DEF _memory_reallocate
  <2> HIDE DEF u, v
  <2>2. w \in Nat /\ w >= 1 /\ w >= n /\ 3 * w >= 4 * u
    BY <1>1, NewSizeGrows
  <2> HIDE DEF w
  <2>3. v \in Nat /\ w <= v
    BY <2>1, <2>2, UsableHolds
  <2>4. v >= n /\ 3 * v >= 4 * u
    BY <1>1, <2>2, <2>3
  <2> QED BY <2>4 DEF u, v
<1> QED BY <1>2, <1>3

\* A block of any tier holds what was asked for, before and after a
\* reallocate, and growing byte by byte does not copy each time, for every
\* largest request (rpmalloc.c:838-845, 1300-1322, 1356-1431, 1433-1458).
THEOREM ReallocFitsAlways == RpSpec => []ReallocFits
<1>1. TableInv => ReallocFits
  <2> SUFFICES ASSUME TableInv, Initialized, NEW m \in Sizes
               PROVE  LET block == _memory_allocate(m)
                          usable == _memory_usable_size(block)
                      IN /\ usable >= m
                         /\ \A n \in {1, m \div 2, usable, usable + 1,
                                      usable + SPAN_HEADER_SIZE, 2 * m} :
                              LET new_usable == _memory_usable_size(_memory_reallocate(block, n))
                              IN /\ new_usable >= n
                                 /\ n > usable => 3 * new_usable >= 4 * usable
    BY DEF ReallocFits
  <2> DEFINE u == _memory_usable_size(_memory_allocate(m))
  <2>1. m \in Nat /\ 1 <= m
    BY Numbers DEF Sizes, TableInv
  <2>2. u \in Nat /\ m <= u
    BY <2>1, UsableHolds
  <2> HIDE DEF u
  <2>3. u >= m
    BY <2>1, <2>2
  <2>4. m \div 2 \in Nat /\ u + 1 \in Nat /\ u + SPAN_HEADER_SIZE \in Nat /\ 2 * m \in Nat
    BY <2>1, <2>2, Numbers
  <2>5. {1, m \div 2, u, u + 1, u + SPAN_HEADER_SIZE, 2 * m} \subseteq Nat
    BY <2>2, <2>4
  <2>6. ASSUME NEW n \in Nat
        PROVE  LET v == _memory_usable_size(_memory_reallocate(_memory_allocate(m), n))
               IN v >= n /\ (n > u => 3 * v >= 4 * u)
    BY <2>1, ReallocateHolds DEF u
  <2> QED BY <2>3, <2>5, <2>6 DEF u
<1> QED BY <1>1, TableInvAlways, PTL
=============================================================================
