-------------------------------- MODULE Heap --------------------------------
(***************************************************************************)
(* class Heap (src/Heap.cpp), seen by the clients of one size class: alloc *)
(* and free go to the slab allocator of the class.  So does remote_free,   *)
(* and to its free, not to its remote_free: a thread that does not own the *)
(* heap works on the page header while the owner may do so too.  Nothing   *)
(* orders the two threads' accesses, which are plain ones; here the other  *)
(* thread loads the header's fields and later stores them, with any number *)
(* of the owner's calls in between.                                        *)
(***************************************************************************)
EXTENDS SlabAllocator

VARIABLE
  freeing  \* freeing[t]: what remote_free of t loaded, the object and its
           \* page's header, or nothing

heapVars == <<vars, freeing>>

Nothing == [object |-> Null, header |-> NewHeader]

HeapInit == Init /\ freeing = [t \in Thread |-> Nothing]

HeapAlloc == Alloc /\ UNCHANGED freeing

HeapFree(o) == Free(o) /\ UNCHANGED freeing

\* remote_free up to SlabPageHeader::free.
RemoteFreeLoads(t, o) ==
  /\ t # Owner
  /\ freeing[t] = Nothing
  /\ o \in held[t]
  /\ held' = [held EXCEPT ![t] = @ \ {o}]
  /\ freeing' = [freeing EXCEPT ![t] = [object |-> o, header |-> header[PageOf(o)]]]
  /\ UNCHANGED <<pageVars, word, listVars>>

\* The two fields that free writes get what follows from the loaded ones.
RemoteFreeStores(t) ==
  LET o == freeing[t].object
      old == freeing[t].header
      after == [header[PageOf(o)] EXCEPT !.m_native_fl = SlotOf(o),
                                         !.m_free_count = old.m_free_count + 1]
  IN
  /\ freeing[t] # Nothing
  /\ FreeObject(o, after, [word EXCEPT ![o] = IndexWord(old.m_native_fl)])
  /\ freeing' = [freeing EXCEPT ![t] = Nothing]
  /\ UNCHANGED <<held, listVars>>

HeapHandOver(t, u, o) == HandOver(t, u, o) /\ UNCHANGED freeing

HeapNext ==
  \/ HeapAlloc
  \/ \E o \in Object : HeapFree(o)
  \/ \E t \in Thread, o \in Object :
       RemoteFreeLoads(t, o) \/ \E u \in Thread : HeapHandOver(t, u, o)
  \/ \E t \in Thread : RemoteFreeStores(t)

HeapSpec == HeapInit /\ [][HeapNext]_heapVars
-----------------------------------------------------------------------------
\* "A Thread safe ... allocator" (README.md:2): what alloc returns is nobody's,
\* as test/testHeap.cpp:86 requires of one thread.
NeverHandedOutTwice ==
  [][HeapAlloc => \E o \in Object \ UNION {held[t] : t \in Thread} :
                    held' = [held EXCEPT ![Owner] = @ \cup {o}]]_heapVars
=============================================================================
