------------------------- MODULE BuddyManagerProofs -------------------------
(***************************************************************************)
(* Proofs that the buddy allocator's lists, bitmaps and meta words agree,  *)
(* that its blocks tile the chunks it holds, and that it holds no more     *)
(* than its limit, for chunks and blocks of any two powers of two, any     *)
(* number of chunks and any limit.                                         *)
(***************************************************************************)
EXTENDS BuddyManager, BuddyManagerMetaProofs, FiniteSetTheorems
-----------------------------------------------------------------------------
(* All chunks *)

Live(map) == {c \in Chunk : map[c] # Null}

\* What clients have: blocks of the sizes they ask for.
AreBlocks(owned) == owned \subseteq Chunk \X Cell \X RequestSizes

\* What clients have of a chunk, as blocks of the chunk.
Owned(owned, c) == {n \in Cell \X SizeClass : <<c, n[1], get_size(n[2])>> \in owned}

\* The block n is free and not part of a larger free block.
IsLinked(bits, map, owned, n, s) ==
  /\ n[1] \in Live(map) /\ n[2] \in OffsetsOf(s)
  /\ Linked(bits[map[n[1]]], Owned(owned, n[1]), n[2], s)

\* Lists, meta words, bitmaps, the map of the chunks and the blocks handed
\* out agree: what alloc_internal and free_internal rely on.
Organized(lists, metas, bits, map, owned) ==
  /\ lists \in [SizeClass -> Seq(Node)]
  /\ metas \in [Node -> Meta \cup {Null}]
  /\ bits \in [Meta -> SUBSET BitIndex]
  /\ map \in [Chunk -> Meta \cup {Null}]
  /\ AreBlocks(owned)
  /\ \A c, d \in Live(map) : map[c] = map[d] => c = d
  /\ \A b \in owned : b[1] \in Live(map)
  /\ \A c \in Live(map) : Tree(bits[map[c]], Owned(owned, c))
  /\ \A s \in SizeClass :
       /\ NoRepeat(lists[s])
       /\ \A n \in Node : n \in Range(lists[s]) <=> IsLinked(bits, map, owned, n, s)
       /\ \A n \in Range(lists[s]) : metas[n] = map[n[1]]

\* The cells of a chunk are its smallest blocks.
LEMMA CellFacts ==
  /\ 0 \in SizeClass /\ Cell = OffsetsOf(0) /\ Cell \subseteq Units
  /\ \A s \in SizeClass : OffsetsOf(s) \subseteq Cell
<1>1. 0 \in SizeClass /\ get_size(0) = MinAllocSize
  BY ClassFacts
<1>2. Cell = OffsetsOf(0)
  BY <1>1 DEF Cell, OffsetsOf
<1>3. \A s \in SizeClass : 0 <= s
  BY Neighbours
<1> QED BY <1>1, <1>2, <1>3, OffsetsNested, OffsetFacts

\* A request is for a block of some class.
LEMMA RequestFacts ==
  \A size \in RequestSizes : get_sizeclass(size) \in SizeClass /\ get_size(get_sizeclass(size)) = size
<1> SUFFICES ASSUME NEW size \in RequestSizes
             PROVE  get_sizeclass(size) \in SizeClass /\ get_size(get_sizeclass(size)) = size
  OBVIOUS
<1>1. PICK s \in SizeClass : size = get_size(s)
  BY RequestAssumption
<1> QED BY <1>1, ClassFacts

\* The blocks handed out, by chunk.
LEMMA OwnedFacts ==
  ASSUME NEW owned, AreBlocks(owned)
  PROVE  /\ \A c : \A x : \A s : <<x, s>> \in Owned(owned, c) <=>
                            x \in Cell /\ s \in SizeClass /\ <<c, x, get_size(s)>> \in owned
         /\ \A c : Owned(owned, c) \subseteq Cell \X SizeClass
         /\ \A b \in owned : /\ b = <<b[1], b[2], b[3]>> /\ b[1] \in Chunk
                             /\ get_sizeclass(b[3]) \in SizeClass
                             /\ get_size(get_sizeclass(b[3])) = b[3]
                             /\ <<b[2], get_sizeclass(b[3])>> \in Owned(owned, b[1])
<1>1. \A c : \A x : \A s : <<x, s>> \in Owned(owned, c) <=>
                      x \in Cell /\ s \in SizeClass /\ <<c, x, get_size(s)>> \in owned
  BY DEF Owned
<1>2. ASSUME NEW b \in owned
      PROVE  /\ b = <<b[1], b[2], b[3]>> /\ b[1] \in Chunk
             /\ get_sizeclass(b[3]) \in SizeClass
             /\ get_size(get_sizeclass(b[3])) = b[3]
             /\ <<b[2], get_sizeclass(b[3])>> \in Owned(owned, b[1])
  <2>1. b = <<b[1], b[2], b[3]>> /\ b[1] \in Chunk /\ b[2] \in Cell /\ b[3] \in RequestSizes
    BY DEF AreBlocks
  <2>2. get_sizeclass(b[3]) \in SizeClass /\ get_size(get_sizeclass(b[3])) = b[3]
    BY <2>1, RequestFacts
  <2>3. <<b[1], b[2], get_size(get_sizeclass(b[3]))>> \in owned
    BY <2>1, <2>2
  <2> QED BY <1>1, <2>1, <2>2, <2>3
<1>3. \A c : Owned(owned, c) \subseteq Cell \X SizeClass
  BY DEF Owned
<1> QED BY <1>1, <1>2, <1>3

\* A client gets the block o of class a of chunk c, or gives it back.
HandedOut(owned, now, c, o, a) == now = owned \cup {<<c, o, get_size(a)>>}
HandedIn(owned, now, c, o, a) == now = owned \ {<<c, o, get_size(a)>>}

\* Handing out a block changes what is handed out of its chunk only.
LEMMA OwnedMore ==
  ASSUME NEW owned, AreBlocks(owned),
         NEW c \in Chunk, NEW a \in SizeClass, get_size(a) \in RequestSizes, NEW o \in Cell,
         NEW now, HandedOut(owned, now, c, o, a)
  PROVE  /\ AreBlocks(now)
         /\ Gets(Owned(owned, c), Owned(now, c), o, a)
         /\ \A d : d # c => Owned(now, d) = Owned(owned, d)
<1>1. AreBlocks(now)
  BY DEF HandedOut, AreBlocks
<1>2. \A s \in SizeClass : get_size(s) = get_size(a) => s = a
  BY ClassFacts
<1>3. ASSUME NEW n \in Cell \X SizeClass
      PROVE  n \in Owned(now, c) <=> n \in Owned(owned, c) \/ n = <<o, a>>
  <2>1. n = <<n[1], n[2]>> /\ n[2] \in SizeClass
    OBVIOUS
  <2>2. <<c, n[1], get_size(n[2])>> \in now <=>
          <<c, n[1], get_size(n[2])>> \in owned \/ (n[1] = o /\ n[2] = a)
    BY <1>2, <2>1 DEF HandedOut
  <2> QED BY <2>1, <2>2 DEF Owned
<1>4. ASSUME NEW d, d # c PROVE Owned(now, d) = Owned(owned, d)
  BY <1>4 DEF Owned, HandedOut
<1>5. Owned(now, c) \subseteq Cell \X SizeClass /\ Owned(owned, c) \subseteq Cell \X SizeClass
      /\ <<o, a>> \in Cell \X SizeClass
  BY DEF Owned
<1> QED BY <1>1, <1>3, <1>4, <1>5 DEF Gets

\* The same when a block comes back.
LEMMA OwnedLess ==
  ASSUME NEW owned, AreBlocks(owned),
         NEW c \in Chunk, NEW a \in SizeClass, NEW o \in Cell,
         NEW now, HandedIn(owned, now, c, o, a)
  PROVE  /\ AreBlocks(now)
         /\ Gives(Owned(owned, c), Owned(now, c), o, a)
         /\ \A d : d # c => Owned(now, d) = Owned(owned, d)
<1>1. AreBlocks(now)
  BY DEF HandedIn, AreBlocks
<1>2. \A s \in SizeClass : get_size(s) = get_size(a) => s = a
  BY ClassFacts
<1>3. ASSUME NEW n \in Cell \X SizeClass
      PROVE  n \in Owned(now, c) <=> n \in Owned(owned, c) /\ n # <<o, a>>
  <2>1. n = <<n[1], n[2]>> /\ n[2] \in SizeClass
    OBVIOUS
  <2>2. <<c, n[1], get_size(n[2])>> \in now <=>
          <<c, n[1], get_size(n[2])>> \in owned /\ ~(n[1] = o /\ n[2] = a)
    BY <1>2, <2>1 DEF HandedIn
  <2> QED BY <2>1, <2>2 DEF Owned
<1>4. ASSUME NEW d, d # c PROVE Owned(now, d) = Owned(owned, d)
  BY <1>4 DEF Owned, HandedIn
<1>5. Owned(now, c) \subseteq Cell \X SizeClass /\ Owned(owned, c) \subseteq Cell \X SizeClass
  BY DEF Owned
<1> QED BY <1>1, <1>3, <1>4, <1>5 DEF Gives

\* The chunk's lists only hold what its tree links.
LEMMA ListedFacts ==
  ASSUME NEW lists, NEW metas, NEW bits, NEW map, NEW owned,
         Organized(lists, metas, bits, map, owned),
         NEW s \in SizeClass
  PROVE  /\ lists[s] \in Seq(Node) /\ NoRepeat(lists[s]) /\ Range(lists[s]) \subseteq Node
         /\ \A n \in Range(lists[s]) :
              /\ n = <<n[1], n[2]>> /\ n \in Node
              /\ IsLinked(bits, map, owned, n, s)
              /\ n[1] \in Live(map) /\ n[2] \in OffsetsOf(s) /\ map[n[1]] \in Meta
              /\ metas[n] = map[n[1]]
<1>1. lists[s] \in Seq(Node)
  BY DEF Organized
<1>2. Range(lists[s]) \subseteq Node
  BY <1>1, RangeFacts
<1>3. ASSUME NEW n \in Range(lists[s])
      PROVE  /\ n = <<n[1], n[2]>> /\ n \in Node /\ IsLinked(bits, map, owned, n, s)
             /\ metas[n] = map[n[1]]
  <2>1. n \in Node
    BY <1>2
  <2>2. n = <<n[1], n[2]>>
    BY <2>1 DEF Node
  <2> QED BY <2>1, <2>2 DEF Organized
<1>4. \A c \in Live(map) : map[c] \in Meta
  BY DEF Organized, Live
<1>5. NoRepeat(lists[s])
  BY DEF Organized
<1> QED BY <1>1, <1>2, <1>3, <1>4, <1>5 DEF IsLinked

\* The allocator after alloc_internal took the block o of chunk c.
Taken(lists, map, owned, now, c, o, a, l) ==
  /\ Organized(m_freelist', node_meta', bitmap', map, now)
  /\ c \in Live(map) /\ c \in Chunk /\ o \in Cell /\ <<c, o, get_size(a)>> \notin owned
  /\ Range(m_freelist'[TopClass]) =
       Range(lists[TopClass]) \ (IF l = TopClass THEN {Head(lists[l])} ELSE {})

\* alloc_internal keeps everything organised, and takes memory no client has.
LEMMA TakeBlock ==
  ASSUME NEW lists, NEW metas, NEW bits, NEW map, NEW owned,
         Organized(lists, metas, bits, map, owned),
         NEW a \in SizeClass, get_size(a) \in RequestSizes,
         NEW l \in SizeClass, ClassFound(lists, a, l),
         AllocInternal(lists, metas, bits, a, l),
         NEW c, c = Head(lists[l])[1], NEW o, o = Head(lists[l])[2],
         NEW now, HandedOut(owned, now, c, o, a)
  PROVE  Taken(lists, map, owned, now, c, o, a, l)
<1> DEFINE n == Head(lists[l])
           m == metas[n]
           split == a..(l - 1)
           half(s) == <<c, get_buddy(o, s)>>
           halves == {half(s) : s \in split}
           taken == CellsOf(c, o, get_size(a))
           B == bits[m]
           W == Owned(owned, c)
           C == bitmap'[m]
           V == Owned(now, c)
<1>1. /\ a <= l /\ lists[l] # <<>> /\ \A s \in split : lists[s] = <<>>
      /\ \A s \in split : s \in SizeClass /\ s # l /\ s # TopClass
      /\ TopClass \in SizeClass /\ SizeClass \subseteq Nat
      /\ l \notin split
  <2>1. TopClass \in Nat /\ SizeClass = 0..TopClass
    BY Neighbours
  <2> QED BY <2>1 DEF ClassFound
<1>2. /\ lists[l] \in Seq(Node) /\ NoRepeat(lists[l]) /\ n \in Range(lists[l])
      /\ Range(Tail(lists[l])) = Range(lists[l]) \ {n}
      /\ NoRepeat(Tail(lists[l])) /\ Tail(lists[l]) \in Seq(Node)
  <2>1. lists[l] \in Seq(Node) /\ NoRepeat(lists[l])
    BY ListedFacts
  <2> QED BY <1>1, <2>1, TailRange, TailFacts
<1>3. /\ n = <<c, o>> /\ n \in Node /\ IsLinked(bits, map, owned, n, l)
      /\ c \in Live(map) /\ o \in OffsetsOf(l) /\ m = map[c] /\ m \in Meta
  BY <1>2, ListedFacts
<1>4. Tree(B, W) /\ Linked(B, W, o, l) /\ c \in Chunk /\ o \in Cell /\ o \in OffsetsOf(a)
  <2>1. o \in Cell
    BY <1>3, CellFacts
  <2>2. o \in OffsetsOf(a)
    BY <1>1, <1>3, OffsetsNested
  <2>3. Linked(B, W, o, l)
    BY <1>3 DEF IsLinked
  <2> QED BY <1>3, <2>1, <2>2, <2>3 DEF Organized, Live
<1>5. /\ bits \in [Meta -> SUBSET BitIndex] /\ metas \in [Node -> Meta \cup {Null}]
      /\ lists \in [SizeClass -> Seq(Node)] /\ map \in [Chunk -> Meta \cup {Null}]
      /\ AreBlocks(owned)
      /\ \A d, e \in Live(map) : map[d] = map[e] => d = e
  BY DEF Organized
<1>6. /\ AreBlocks(now)
      /\ Gets(W, V, o, a)
      /\ \A d : d # c => Owned(now, d) = Owned(owned, d)
  BY <1>4, <1>5, OwnedMore
<1>7. /\ m_freelist' = [s \in SizeClass |->
                         IF s = l THEN Tail(lists[s])
                         ELSE IF s \in split THEN <<half(s)>> \o lists[s]
                         ELSE lists[s]]
      /\ node_meta' = [x \in Node |-> IF x \in halves THEN m
                                      ELSE IF x \in taken THEN Null
                                      ELSE metas[x]]
      /\ bitmap' = [bits EXCEPT ![m] = @ \cup {get_bitmap_index(o, s) : s \in a..l}]
  BY <1>3 DEF AllocInternal
<1>8. Marked(B, C, o, a, l) /\ \A d \in Live(map) : d # c => bitmap'[map[d]] = bits[map[d]]
  <2>1. C = B \cup {get_bitmap_index(o, s) : s \in a..l}
    BY <1>3, <1>5, <1>7
  <2>2. \A d \in Live(map) : d # c => map[d] # m
    BY <1>3, <1>5
  <2>3. \A d \in Live(map) : map[d] \in Meta
    BY <1>5 DEF Live
  <2> QED BY <1>5, <1>7, <2>1, <2>2, <2>3 DEF Marked
<1>9. /\ Tree(C, V)
      /\ \A s \in SizeClass : \A x \in OffsetsOf(s) :
           /\ Linked(C, V, x, s) <=> \/ Linked(B, W, x, s) /\ ~(x = o /\ s = l)
                                     \/ s \in split /\ x = get_buddy(o, s)
           /\ s \in split => ~Linked(B, W, get_buddy(o, s), s)
           /\ Linked(C, V, x, s) => EnclosingBlock(x, a) # o
  <2> HIDE DEF B, W, C, V, m, n
  <2> QED BY <1>1, <1>3, <1>4, <1>6, <1>8, AllocTree
<1>10. ASSUME NEW s \in split
       PROVE  get_buddy(o, s) \in OffsetsOf(s) /\ half(s) \in Node
  <2>1. s \in SizeClass /\ s # TopClass /\ s <= l
    BY <1>1
  <2>2. o \in OffsetsOf(s)
    BY <1>3, <2>1, OffsetsNested
  <2>3. get_buddy(o, s) \in OffsetsOf(s)
    BY <2>1, <2>2, BuddyFacts
  <2> QED BY <1>4, <2>1, <2>3, CellFacts DEF Node
<1>11. bitmap' \in [Meta -> SUBSET BitIndex]
  <2>1. ASSUME NEW s \in a..l PROVE get_bitmap_index(o, s) \in BitIndex
    <3>1. s \in SizeClass /\ s <= l
      BY <2>1, Neighbours
    <3> QED BY <1>3, <3>1, OffsetsNested, BitFacts
  <2>2. {get_bitmap_index(o, s) : s \in a..l} \subseteq BitIndex
    BY <2>1
  <2> QED BY <1>3, <1>5, <1>7, <2>2
<1>12. node_meta' \in [Node -> Meta \cup {Null}]
  BY <1>3, <1>5, <1>7
<1>13. ASSUME NEW s \in SizeClass, NEW x \in Node
       PROVE  IsLinked(bitmap', map, now, x, s) <=>
                \/ IsLinked(bits, map, owned, x, s) /\ ~(x = n /\ s = l)
                \/ s \in split /\ x = half(s)
  <2>1. x = <<x[1], x[2]>> /\ (x = n <=> x[1] = c /\ x[2] = o)
    BY <1>3 DEF Node
  <2>2. x = half(s) <=> x[1] = c /\ x[2] = get_buddy(o, s)
    BY <2>1
  <2>3. CASE x[1] # c
    <3>1. x # n /\ x # half(s)
      BY <2>1, <2>2, <2>3
    <3>2. x[1] \in Live(map) => /\ bitmap'[map[x[1]]] = bits[map[x[1]]]
                                /\ Owned(now, x[1]) = Owned(owned, x[1])
      BY <1>6, <1>8, <2>3
    <3> QED BY <3>1, <3>2 DEF IsLinked
  <2>4. CASE x[1] = c
    <3>1. /\ IsLinked(bitmap', map, now, x, s) <=> x[2] \in OffsetsOf(s) /\ Linked(C, V, x[2], s)
          /\ IsLinked(bits, map, owned, x, s) <=> x[2] \in OffsetsOf(s) /\ Linked(B, W, x[2], s)
      BY <1>3, <2>4 DEF IsLinked
    <3>2. s \in split => get_buddy(o, s) \in OffsetsOf(s)
      BY <1>10
    <3> HIDE DEF B, W, C, V, n, half
    <3> QED BY <1>9, <2>1, <2>2, <2>4, <3>1, <3>2
  <2> QED BY <2>3, <2>4
<1>14. ASSUME NEW s \in SizeClass
       PROVE  /\ m_freelist'[s] \in Seq(Node) /\ NoRepeat(m_freelist'[s])
              /\ \A x \in Node : x \in Range(m_freelist'[s]) <=>
                   \/ x \in Range(lists[s]) /\ ~(x = n /\ s = l)
                   \/ s \in split /\ x = half(s)
  <2>1. lists[s] \in Seq(Node) /\ NoRepeat(lists[s]) /\ Range(lists[s]) \subseteq Node
    BY ListedFacts
  <2>2. CASE s = l
    BY <1>1, <1>2, <1>7, <2>2
  <2>3. CASE s \in split
    <3>1. lists[s] = <<>> /\ half(s) \in Node /\ s # l
      BY <1>1, <1>10, <2>3
    <3>2. m_freelist'[s] = <<half(s)>> \o lists[s]
      BY <1>7, <2>3, <3>1
    <3>3. half(s) \notin Range(lists[s])
      BY <3>1, EmptyFacts
    <3>4. \A h \in Node : <<h>> \o lists[s] \in Seq(Node)
      BY <2>1, ConsFacts
    <3>5. \A h \in Node : /\ Range(<<h>> \o lists[s]) = {h} \cup Range(lists[s])
                          /\ h \notin Range(lists[s]) => NoRepeat(<<h>> \o lists[s])
      BY <2>1, ConsRange
    <3> HIDE DEF half
    <3> QED BY <2>3, <3>1, <3>2, <3>3, <3>4, <3>5
  <2>4. CASE s # l /\ s \notin split
    BY <1>7, <2>1, <2>4
  <2> QED BY <2>2, <2>3, <2>4
<1>15. m_freelist' \in [SizeClass -> Seq(Node)]
  <2>1. m_freelist' = [s \in SizeClass |-> m_freelist'[s]]
    BY <1>7
  <2> QED BY <1>14, <2>1
<1>16. ASSUME NEW s \in SizeClass
       PROVE  \A x \in Node : x \in Range(m_freelist'[s]) <=> IsLinked(bitmap', map, now, x, s)
  <2> SUFFICES ASSUME NEW x \in Node
               PROVE  x \in Range(m_freelist'[s]) <=> IsLinked(bitmap', map, now, x, s)
    OBVIOUS
  <2>1. x \in Range(lists[s]) <=> IsLinked(bits, map, owned, x, s)
    BY DEF Organized
  <2> QED BY <1>13, <1>14, <2>1
<1>17. ASSUME NEW s \in SizeClass, NEW x \in Range(m_freelist'[s])
       PROVE  node_meta'[x] = map[x[1]]
  <2>1. x \in Node /\ x = <<x[1], x[2]>>
    <3>1. x \in Node
      BY <1>14, RangeFacts
    <3> QED BY <3>1 DEF Node
  <2>2. CASE x \in halves
    BY <1>3, <1>7, <2>1, <2>2
  <2>3. CASE x \notin halves
    <3>1. x \in Range(lists[s])
      BY <1>14, <2>1, <2>3
    <3>2. metas[x] = map[x[1]]
      BY <3>1, ListedFacts
    <3>3. x \notin taken
      <4> SUFFICES ASSUME x \in taken PROVE FALSE
        OBVIOUS
      <4>1. x[1] = c /\ x[2] \in Cell /\ o <= x[2] /\ x[2] < o + get_size(a)
        BY DEF CellsOf
      <4>2. o = EnclosingBlock(x[2], a)
        BY <1>4, <4>1, EnclosingFacts, CellFacts
      <4>3. IsLinked(bitmap', map, now, x, s)
        BY <1>16, <2>1
      <4>4. x[2] \in OffsetsOf(s) /\ Linked(C, V, x[2], s)
        BY <1>3, <4>1, <4>3 DEF IsLinked
      <4> HIDE DEF C, V
      <4> QED BY <1>9, <4>2, <4>4
    <3> QED BY <1>7, <2>1, <2>3, <3>2, <3>3
  <2> QED BY <2>2, <2>3
<1>18. ASSUME NEW d \in Live(map) PROVE Tree(bitmap'[map[d]], Owned(now, d))
  <2>1. CASE d = c
    BY <1>3, <1>9, <2>1
  <2>2. CASE d # c
    BY <1>6, <1>8, <2>2 DEF Organized
  <2> QED BY <2>1, <2>2, SMTT(30)
<1>19. \A b \in now : b[1] \in Live(map)
  BY <1>3 DEF Organized, HandedOut
<1>20. Organized(m_freelist', node_meta', bitmap', map, now)
  <2>1. \A s \in SizeClass : NoRepeat(m_freelist'[s])
    BY <1>14
  <2> QED BY <1>5, <1>6, <1>11, <1>12, <1>15, <1>16, <1>17, <1>18, <1>19, <2>1 DEF Organized
<1>21. <<c, o, get_size(a)>> \notin owned
  <2> SUFFICES ASSUME <<c, o, get_size(a)>> \in owned PROVE FALSE
    OBVIOUS
  <2>1. <<o, a>> \in W
    BY <1>4, <1>5, OwnedFacts
  <2>2. Used(B, o, a)
    BY <1>4, <2>1 DEF Tree
  <2>3. CASE a = l
    BY <1>4, <2>2, <2>3 DEF Linked
  <2>4. CASE a # l
    <3>1. a < l
      BY <1>1, <2>4
    <3>2. EnclosingBlock(o, l) = o
      BY <1>3, EnclosesItself
    <3> HIDE DEF B, W
    <3>3. Split(B, W, o, l)
      BY <1>4, <2>2, <3>1, <3>2, Ascend
    <3> QED BY <1>4, <3>3 DEF Linked, Split
  <2> QED BY <2>3, <2>4
<1>22. Range(m_freelist'[TopClass]) =
         Range(lists[TopClass]) \ (IF l = TopClass THEN {n} ELSE {})
  BY <1>1, <1>2, <1>7
<1> QED BY <1>3, <1>4, <1>20, <1>21, <1>22 DEF Taken

\* alloc_internal succeeds when a list from the class upwards is not empty.
LEMMA CanAllocFacts ==
  ASSUME NEW lists, NEW a \in SizeClass
  PROVE  CanAlloc(lists, a) <=> \E l \in SizeClass : a <= l /\ lists[l] # <<>>
<1> DEFINE Found == {l \in SizeClass : a <= l /\ lists[l] # <<>>}
<1>1. TopClass \in Nat /\ SizeClass = 0..TopClass
  BY Neighbours
<1>2. ASSUME NEW l \in SizeClass, ClassFound(lists, a, l) PROVE a <= l /\ lists[l] # <<>>
  BY <1>1, <1>2 DEF ClassFound
<1>3. ASSUME Found # {} PROVE CanAlloc(lists, a)
  <2>1. PICK l \in Found : \A k \in Found : l <= k
    <3>1. Found \subseteq Nat
      BY <1>1
    <3> QED BY <1>3, <3>1, LeastElement
  <2>2. ASSUME NEW s \in a..(l - 1) PROVE lists[s] = <<>>
    <3>1. s \in SizeClass /\ a <= s /\ ~(l <= s)
      BY <1>1
    <3> QED BY <2>1, <3>1
  <2>3. l \in SizeClass /\ l \in a..TopClass
    BY <1>1
  <2> QED BY <2>1, <2>2, <2>3 DEF CanAlloc, ClassFound
<1> QED BY <1>2, <1>3 DEF CanAlloc

\* alloc_chunk and the push of the chunk: one more free block of the top class.
ChunkAdded(lists, metas, bits, map, lists2, metas2, bits2, map2, m, c) ==
  /\ lists2 = [lists EXCEPT ![TopClass] = <<<<c, 0>>>> \o @]
  /\ metas2 = [metas EXCEPT ![<<c, 0>>] = m]
  /\ bits2 = [bits EXCEPT ![m] = {}]
  /\ map2 = [map EXCEPT ![c] = m]

\* With a new chunk and a new bookkeeping node everything stays organised.
LEMMA AddChunk ==
  ASSUME NEW lists, NEW metas, NEW bits, NEW map, NEW owned,
         Organized(lists, metas, bits, map, owned),
         NEW m \in Meta, NEW c \in Chunk, c \notin Live(map),
         \A d \in Live(map) : map[d] # m,
         NEW lists2, NEW metas2, NEW bits2, NEW map2,
         ChunkAdded(lists, metas, bits, map, lists2, metas2, bits2, map2, m, c)
  PROVE  /\ Organized(lists2, metas2, bits2, map2, owned)
         /\ Live(map2) = Live(map) \cup {c}
         /\ \A s \in SizeClass : s # TopClass => lists2[s] = lists[s]
         /\ lists2[TopClass] # <<>>
         /\ lists[TopClass] = <<>> => Head(lists2[TopClass]) = <<c, 0>> /\ Range(lists2[TopClass]) = {<<c, 0>>}
<1> DEFINE n == <<c, 0>>
<1>1. TopClass \in SizeClass /\ 0 \in OffsetsOf(TopClass) /\ 0 \in Cell /\ n \in Node /\ m # Null
  BY TopBlock, CellFacts, NullAssumption DEF Node
<1>2. /\ bits \in [Meta -> SUBSET BitIndex] /\ metas \in [Node -> Meta \cup {Null}]
      /\ lists \in [SizeClass -> Seq(Node)] /\ map \in [Chunk -> Meta \cup {Null}]
      /\ AreBlocks(owned)
      /\ \A d, e \in Live(map) : map[d] = map[e] => d = e
      /\ \A b \in owned : b[1] \in Live(map)
  BY DEF Organized
<1>3. /\ lists2 = [lists EXCEPT ![TopClass] = <<n>> \o @]
      /\ metas2 = [metas EXCEPT ![n] = m]
      /\ bits2 = [bits EXCEPT ![m] = {}]
      /\ map2 = [map EXCEPT ![c] = m]
  BY DEF ChunkAdded
<1>4. /\ bits2 \in [Meta -> SUBSET BitIndex] /\ metas2 \in [Node -> Meta \cup {Null}]
      /\ map2 \in [Chunk -> Meta \cup {Null}]
  BY <1>1, <1>2, <1>3
<1>5. /\ Live(map2) = Live(map) \cup {c} /\ map2[c] = m /\ bits2[m] = {}
      /\ \A d \in Live(map) : d # c /\ map2[d] = map[d] /\ bits2[map2[d]] = bits[map[d]]
  BY <1>1, <1>2, <1>3 DEF Live
<1>6. Owned(owned, c) = {}
  <2>1. ASSUME NEW w \in Owned(owned, c) PROVE FALSE
    <3>1. <<c, w[1], get_size(w[2])>> \in owned
      BY <2>1 DEF Owned
    <3> QED BY <1>2, <3>1
  <2> QED BY <2>1
<1>7. lists[TopClass] \in Seq(Node) /\ NoRepeat(lists[TopClass]) /\ n \notin Range(lists[TopClass])
  BY <1>1, ListedFacts
<1>8. /\ <<n>> \o lists[TopClass] \in Seq(Node)
      /\ Range(<<n>> \o lists[TopClass]) = {n} \cup Range(lists[TopClass])
      /\ NoRepeat(<<n>> \o lists[TopClass])
      /\ <<n>> \o lists[TopClass] # <<>>
      /\ Head(<<n>> \o lists[TopClass]) = n
  <2>1. /\ <<n>> \o lists[TopClass] \in Seq(Node)
        /\ Len(<<n>> \o lists[TopClass]) = Len(lists[TopClass]) + 1
        /\ Len(lists[TopClass]) \in Nat
        /\ (<<n>> \o lists[TopClass])[1] = n
    BY <1>1, <1>7, ConsFacts
  <2>2. <<n>> \o lists[TopClass] # <<>>
    BY <2>1, EmptyFacts
  <2>3. Range(<<n>> \o lists[TopClass]) = {n} \cup Range(lists[TopClass]) /\ NoRepeat(<<n>> \o lists[TopClass])
    BY <1>1, <1>7, ConsRange
  <2>4. Head(<<n>> \o lists[TopClass]) = (<<n>> \o lists[TopClass])[1]
    BY <2>1, <2>2, <2>3, TailRange
  <2> QED BY <2>1, <2>2, <2>3, <2>4
<1>9. /\ lists2[TopClass] = <<n>> \o lists[TopClass]
      /\ \A s \in SizeClass : s # TopClass => lists2[s] = lists[s]
      /\ lists2 \in [SizeClass -> Seq(Node)]
  BY <1>1, <1>2, <1>3, <1>8
<1>10. ASSUME NEW s \in SizeClass, NEW x \in Node
       PROVE  x \in Range(lists2[s]) <=> IsLinked(bits2, map2, owned, x, s)
  <2>1. x \in Range(lists[s]) <=> IsLinked(bits, map, owned, x, s)
    BY DEF Organized
  <2>2. x \in Range(lists2[s]) <=> x \in Range(lists[s]) \/ (s = TopClass /\ x = n)
    BY <1>8, <1>9
  <2>3. CASE x[1] # c
    <3>1. IsLinked(bits2, map2, owned, x, s) <=> IsLinked(bits, map, owned, x, s)
      BY <1>5, <2>3 DEF IsLinked
    <3> QED BY <2>1, <2>2, <2>3, <3>1
  <2>4. CASE x[1] = c
    <3>1. ~IsLinked(bits, map, owned, x, s)
      BY <2>4 DEF IsLinked
    <3>2. IsLinked(bits2, map2, owned, x, s) <=> x[2] \in OffsetsOf(s) /\ s = TopClass
      BY <1>5, <1>6, <2>4, NewTree DEF IsLinked
    <3>3. x = <<c, x[2]>>
      BY <2>4 DEF Node
    <3> QED BY <1>1, <2>1, <2>2, <3>1, <3>2, <3>3, TopBlock
  <2> QED BY <2>3, <2>4
<1>11. ASSUME NEW s \in SizeClass, NEW x \in Range(lists2[s]) PROVE metas2[x] = map2[x[1]]
  <2>1. CASE s = TopClass /\ x = n
    BY <1>1, <1>2, <1>3, <1>5, <2>1
  <2>2. CASE ~(s = TopClass /\ x = n)
    <3>1. x \in Range(lists[s])
      BY <1>8, <1>9, <2>2
    <3>2. x \in Node /\ x[1] \in Live(map) /\ metas[x] = map[x[1]]
      BY <3>1, ListedFacts
    <3> QED BY <1>2, <1>3, <1>5, <3>2
  <2> QED BY <2>1, <2>2
<1>12. ASSUME NEW d \in Live(map2) PROVE Tree(bits2[map2[d]], Owned(owned, d))
  <2>1. CASE d = c
    BY <1>5, <1>6, <2>1, NewTree
  <2>2. CASE d # c
    BY <1>5, <2>2 DEF Organized
  <2> QED BY <2>1, <2>2
<1>13. \A d, e \in Live(map2) : map2[d] = map2[e] => d = e
  BY <1>2, <1>5
<1>14. \A b \in owned : b[1] \in Live(map2)
  BY <1>2, <1>5
<1>15. \A s \in SizeClass : NoRepeat(lists2[s])
  BY <1>8, <1>9, ListedFacts
<1>16. Organized(lists2, metas2, bits2, map2, owned)
  BY <1>2, <1>4, <1>9, <1>10, <1>11, <1>12, <1>13, <1>14, <1>15 DEF Organized
<1> QED BY <1>5, <1>8, <1>9, <1>16, EmptyFacts

\* The state of the allocator, as alloc_internal and free_internal see it.
OrganizedNow == Organized(m_freelist, node_meta, bitmap, m_chunk_meta_map, allocated)

\* The bits of a chunk, with those of one chunk replaced.
BitsWith(C, c, d) == IF d = c THEN C ELSE bitmap[m_chunk_meta_map[d]]

\* The bits C of chunk c, the blocks handed out and the lists after merging
\* up to the block e of class t.
Merged(C, now, lists, c, e, t) ==
  /\ Tree(C, Owned(now, c)) /\ AreBlocks(now)
  /\ \A d : d # c => Owned(now, d) = Owned(allocated, d)
  /\ <<c, e>> \in Node /\ e \in OffsetsOf(t) /\ ~Used(C, e, t)
  /\ lists \in [SizeClass -> Seq(Node)]
  /\ \A s \in SizeClass : NoRepeat(lists[s])
  /\ \A s \in SizeClass : Range(lists[s]) \subseteq Range(m_freelist[s])
  /\ <<c, e>> \notin Range(lists[t])
  /\ \A s \in SizeClass : \A x \in Node :
       x \in Range(lists[s]) \/ (s = t /\ x = <<c, e>>) <=>
         /\ x[1] \in LiveChunks /\ x[2] \in OffsetsOf(s)
         /\ Linked(BitsWith(C, c, x[1]), Owned(now, x[1]), x[2], s)
  /\ lists[TopClass] = m_freelist[TopClass]

\* Merging: the lists free_internal ends with hold exactly the blocks the
\* merged tree links, but for the block it ends with itself.
LEMMA Merging ==
  ASSUME OrganizedNow,
         NEW c \in LiveChunks, NEW a \in SizeClass, NEW o \in Cell,
         <<c, o, get_size(a)>> \in allocated,
         NEW t \in SizeClass, ClassReached(m_chunk_meta_map[c], o, a, t),
         NEW C, Unmarked(bitmap[m_chunk_meta_map[c]], C, o, a, t),
         NEW now, HandedIn(allocated, now, c, o, a),
         NEW lists, lists = MergedLists(c, o, a, t),
         NEW e, e = EnclosingBlock(o, t)
  PROVE  Merged(C, now, lists, c, e, t)
<1> DEFINE m == m_chunk_meta_map[c]
           B == bitmap[m]
           W == Owned(allocated, c)
           V == Owned(now, c)
           path == a..(t - 1)
           b(s) == get_buddy(EnclosingBlock(o, s), s)
<1>1. /\ TopClass \in Nat /\ SizeClass = 0..TopClass /\ TopClass \in SizeClass
      /\ \A s \in path : s \in SizeClass /\ s # TopClass /\ s # t
      /\ TopClass \notin path
  <2>1. TopClass \in Nat /\ SizeClass = 0..TopClass
    BY Neighbours
  <2> QED BY <2>1
<1>2. /\ c \in Live(m_chunk_meta_map) /\ c \in Chunk /\ LiveChunks = Live(m_chunk_meta_map)
      /\ Tree(B, W) /\ AreBlocks(allocated)
  BY DEF LiveChunks, Live, OrganizedNow, Organized
<1>3. /\ AreBlocks(now) /\ Gives(W, V, o, a)
      /\ \A d : d # c => Owned(now, d) = Owned(allocated, d)
  BY <1>2, OwnedLess
<1>4. <<o, a>> \in W
  BY <1>2, OwnedFacts
<1>5. a <= t /\ MergesUpTo(B, o, a, t)
  BY <1>1 DEF ClassReached, MergesUpTo, block_is_free, Used
<1>6. /\ Tree(C, V)
      /\ ~Linked(B, W, e, t) /\ ~Used(C, e, t)
      /\ \A s \in path : Linked(B, W, b(s), s)
      /\ \A s \in SizeClass : \A x \in OffsetsOf(s) :
           Linked(C, V, x, s) <=> \/ Linked(B, W, x, s) /\ ~(s \in path /\ x = b(s))
                                  \/ s = t /\ x = e
  <2>1. Unmarked(B, C, o, a, t)
    OBVIOUS
  <2> HIDE DEF B, W, V, m
  <2> QED BY <1>2, <1>3, <1>4, <1>5, <2>1, FreeTree
<1>7. o \in Units /\ e \in OffsetsOf(t) /\ e \in Cell /\ <<c, e>> \in Node
  BY <1>2, CellFacts, EnclosingFacts DEF Node
<1>8. ASSUME NEW s \in path
      PROVE  b(s) \in OffsetsOf(s) /\ <<c, b(s)>> \in Node /\ <<c, b(s)>> \in Range(m_freelist[s])
  <2>1. s \in SizeClass /\ s # TopClass
    BY <1>1
  <2>2. b(s) \in OffsetsOf(s)
    BY <1>7, <2>1, PathFacts
  <2>3. <<c, b(s)>> \in Node
    BY <1>2, <2>1, <2>2, CellFacts DEF Node
  <2>4. IsLinked(bitmap, m_chunk_meta_map, allocated, <<c, b(s)>>, s)
    BY <1>2, <1>6, <2>2 DEF IsLinked
  <2> QED BY <2>1, <2>2, <2>3, <2>4 DEF OrganizedNow, Organized
<1>9. ASSUME NEW s \in SizeClass
      PROVE  /\ m_freelist[s] \in Seq(Node) /\ NoRepeat(m_freelist[s])
             /\ Range(m_freelist[s]) \subseteq Node
             /\ \A x \in Node : x \in Range(m_freelist[s]) <=>
                                  IsLinked(bitmap, m_chunk_meta_map, allocated, x, s)
  <2>1. Organized(m_freelist, node_meta, bitmap, m_chunk_meta_map, allocated)
    BY DEF OrganizedNow
  <2>2. m_freelist[s] \in Seq(Node) /\ NoRepeat(m_freelist[s]) /\ Range(m_freelist[s]) \subseteq Node
    BY <2>1, ListedFacts
  <2> QED BY <2>1, <2>2 DEF Organized
<1>10. ASSUME NEW s \in SizeClass
       PROVE  /\ lists[s] \in Seq(Node) /\ NoRepeat(lists[s])
              /\ Range(lists[s]) = Range(m_freelist[s]) \ (IF s \in path THEN {<<c, b(s)>>} ELSE {})
              /\ s \notin path => lists[s] = m_freelist[s]
  <2>1. CASE s \in path
    <3>1. lists[s] = RemoveFirst(m_freelist[s], <<c, b(s)>>)
      BY <2>1 DEF MergedLists
    <3>2. /\ RemoveFirst(m_freelist[s], <<c, b(s)>>) \in Seq(Node)
          /\ NoRepeat(RemoveFirst(m_freelist[s], <<c, b(s)>>))
          /\ Range(RemoveFirst(m_freelist[s], <<c, b(s)>>)) = Range(m_freelist[s]) \ {<<c, b(s)>>}
      BY <1>8, <1>9, <2>1, RemoveFirstFacts
    <3> QED BY <2>1, <3>1, <3>2
  <2>2. CASE s \notin path
    BY <1>9, <2>2 DEF MergedLists
  <2> QED BY <2>1, <2>2
<1>11. lists \in [SizeClass -> Seq(Node)]
  <2>1. lists = [s \in SizeClass |-> lists[s]]
    BY DEF MergedLists
  <2> QED BY <1>10, <2>1
<1>12. <<c, e>> \notin Range(lists[t])
  <2>1. ~IsLinked(bitmap, m_chunk_meta_map, allocated, <<c, e>>, t)
    BY <1>6 DEF IsLinked
  <2> QED BY <1>7, <1>9, <1>10, <2>1
<1>13. ASSUME NEW s \in SizeClass, NEW x \in Node
       PROVE  x \in Range(lists[s]) \/ (s = t /\ x = <<c, e>>) <=>
                /\ x[1] \in LiveChunks /\ x[2] \in OffsetsOf(s)
                /\ Linked(BitsWith(C, c, x[1]), Owned(now, x[1]), x[2], s)
  <2>1. x = <<x[1], x[2]>>
    BY DEF Node
  <2>2. /\ x \in Range(lists[s]) <=> x \in Range(m_freelist[s]) /\ ~(s \in path /\ x = <<c, b(s)>>)
        /\ x \in Range(m_freelist[s]) <=>
             /\ x[1] \in LiveChunks /\ x[2] \in OffsetsOf(s)
             /\ Linked(bitmap[m_chunk_meta_map[x[1]]], Owned(allocated, x[1]), x[2], s)
    BY <1>2, <1>9, <1>10 DEF IsLinked
  <2>3. CASE x[1] # c
    <3>1. x # <<c, e>> /\ x # <<c, b(s)>>
      BY <2>3
    <3> QED BY <1>3, <2>2, <2>3, <3>1 DEF BitsWith
  <2>4. CASE x[1] = c
    <3>1. (x = <<c, e>> <=> x[2] = e) /\ (x = <<c, b(s)>> <=> x[2] = b(s))
      BY <2>1, <2>4
    <3>2. BitsWith(C, c, x[1]) = C
      BY <2>4 DEF BitsWith
    <3>3. x[2] \in OffsetsOf(s) =>
            (Linked(C, V, x[2], s) <=> \/ Linked(B, W, x[2], s) /\ ~(s \in path /\ x[2] = b(s))
                                       \/ s = t /\ x[2] = e)
      BY <1>6
    <3> HIDE DEF B, W, V, b
    <3>4. Owned(now, x[1]) = V /\ Owned(allocated, x[1]) = W /\ bitmap[m_chunk_meta_map[x[1]]] = B
      BY <2>4 DEF V, W, B
    <3> QED BY <1>2, <1>7, <2>2, <2>4, <3>1, <3>2, <3>3, <3>4
  <2> QED BY <2>3, <2>4
<1>14. \A s \in SizeClass : NoRepeat(lists[s]) /\ Range(lists[s]) \subseteq Range(m_freelist[s])
  BY <1>10
<1>15. lists[TopClass] = m_freelist[TopClass]
  BY <1>1, <1>10
<1> QED BY <1>3, <1>6, <1>7, <1>11, <1>12, <1>13, <1>14, <1>15 DEF Merged

\* free_internal, when the chunk stays: the merged block joins its list.
LEMMA KeepMerged ==
  ASSUME OrganizedNow,
         NEW c \in LiveChunks, NEW a \in SizeClass, NEW o \in Cell,
         <<c, o, get_size(a)>> \in allocated,
         NEW t \in SizeClass, ClassReached(m_chunk_meta_map[c], o, a, t),
         HandedIn(allocated, allocated', c, o, a),
         FreeInternal(m_chunk_meta_map[c], c, o, a, t),
         KeepBlock(MergedLists(c, o, a, t), <<c, EnclosingBlock(o, t)>>, t)
  PROVE  /\ OrganizedNow'
         /\ t # TopClass => m_freelist'[TopClass] = m_freelist[TopClass]
<1> DEFINE m == m_chunk_meta_map[c]
           e == EnclosingBlock(o, t)
           C == bitmap'[m]
           n == <<c, e>>
           lists == MergedLists(c, o, a, t)
<1>1. /\ m_freelist \in [SizeClass -> Seq(Node)]
      /\ bitmap \in [Meta -> SUBSET BitIndex] /\ node_meta \in [Node -> Meta \cup {Null}]
      /\ m_chunk_meta_map \in [Chunk -> Meta \cup {Null}]
      /\ \A d, f \in LiveChunks : m_chunk_meta_map[d] = m_chunk_meta_map[f] => d = f
      /\ LiveChunks = Live(m_chunk_meta_map) /\ c \in Chunk /\ m \in Meta
      /\ \A b \in allocated : b[1] \in LiveChunks
  BY DEF OrganizedNow, Organized, LiveChunks, Live
<1>2. /\ bitmap' = [bitmap EXCEPT ![m] =
                      @ \ {get_bitmap_index(EnclosingBlock(o, s), s) : s \in a..t}]
      /\ node_meta' = [node_meta EXCEPT ![n] = m]
      /\ m_freelist' = [lists EXCEPT ![t] = <<n>> \o @]
      /\ m_chunk_meta_map' = m_chunk_meta_map
  BY DEF FreeInternal, KeepBlock
<1>3. Unmarked(bitmap[m], C, o, a, t) /\ bitmap' \in [Meta -> SUBSET BitIndex]
  BY <1>1, <1>2 DEF Unmarked
<1>4. \A d \in LiveChunks : bitmap'[m_chunk_meta_map[d]] = BitsWith(C, c, d)
  BY <1>1, <1>2 DEF BitsWith
<1>5. /\ Tree(C, Owned(allocated', c)) /\ AreBlocks(allocated')
      /\ \A d : d # c => Owned(allocated', d) = Owned(allocated, d)
      /\ n \in Node /\ e \in OffsetsOf(t)
      /\ lists \in [SizeClass -> Seq(Node)]
      /\ \A s \in SizeClass : NoRepeat(lists[s])
      /\ \A s \in SizeClass : Range(lists[s]) \subseteq Range(m_freelist[s])
      /\ n \notin Range(lists[t])
      /\ \A s \in SizeClass : \A x \in Node :
           x \in Range(lists[s]) \/ (s = t /\ x = n) <=>
             /\ x[1] \in LiveChunks /\ x[2] \in OffsetsOf(s)
             /\ Linked(BitsWith(C, c, x[1]), Owned(allocated', x[1]), x[2], s)
      /\ lists[TopClass] = m_freelist[TopClass]
  <2> HIDE DEF C, e, lists
  <2>1. e = EnclosingBlock(o, t) /\ lists = MergedLists(c, o, a, t)
    BY DEF e, lists
  <2>2. Merged(C, allocated', lists, c, e, t)
    BY <1>3, <2>1, Merging
  <2> QED BY <2>2 DEF Merged
<1>6. /\ <<n>> \o lists[t] \in Seq(Node)
      /\ Range(<<n>> \o lists[t]) = {n} \cup Range(lists[t])
      /\ NoRepeat(<<n>> \o lists[t])
  <2> HIDE DEF n, lists
  <2>1. lists[t] \in Seq(Node)
    BY <1>5
  <2> QED BY <1>5, <2>1, ConsFacts, ConsRange
<1>7. ASSUME NEW s \in SizeClass
      PROVE  /\ NoRepeat(m_freelist'[s])
             /\ Range(m_freelist'[s]) = Range(lists[s]) \cup (IF s = t THEN {n} ELSE {})
             /\ s # t => m_freelist'[s] = lists[s]
  <2> HIDE DEF n, lists
  <2> QED BY <1>2, <1>5, <1>6
<1>8. m_freelist' \in [SizeClass -> Seq(Node)]
  <2> HIDE DEF n, lists
  <2> QED BY <1>2, <1>5, <1>6
<1>9. node_meta' \in [Node -> Meta \cup {Null}]
  BY <1>1, <1>2, <1>5
<1>10. ASSUME NEW s \in SizeClass, NEW x \in Node
       PROVE  x \in Range(m_freelist'[s]) <=>
                IsLinked(bitmap', m_chunk_meta_map, allocated', x, s)
  <2>1. x \in Range(m_freelist'[s]) <=> x \in Range(lists[s]) \/ (s = t /\ x = n)
    BY <1>7
  <2> HIDE DEF n, lists, C
  <2> QED BY <1>1, <1>4, <1>5, <2>1 DEF IsLinked
<1>11. ASSUME NEW s \in SizeClass, NEW x \in Range(m_freelist'[s])
       PROVE  node_meta'[x] = m_chunk_meta_map[x[1]]
  <2>1. CASE x = n
    BY <1>1, <1>2, <1>5, <2>1
  <2>2. CASE x # n
    <3>1. x \in Range(m_freelist[s])
      BY <1>5, <1>7, <2>2
    <3>2. x \in Node /\ node_meta[x] = m_chunk_meta_map[x[1]]
      BY <3>1, ListedFacts DEF OrganizedNow
    <3> QED BY <1>1, <1>2, <2>2, <3>2
  <2> QED BY <2>1, <2>2
<1>12. ASSUME NEW d \in LiveChunks PROVE Tree(bitmap'[m_chunk_meta_map[d]], Owned(allocated', d))
  <2>1. Tree(bitmap[m_chunk_meta_map[d]], Owned(allocated, d))
    BY <1>1 DEF OrganizedNow, Organized
  <2> QED BY <1>4, <1>5, <2>1 DEF BitsWith
<1>13. \A b \in allocated' : b[1] \in LiveChunks
  BY <1>1 DEF HandedIn
<1>14. OrganizedNow'
  <2>1. AreBlocks(allocated') /\ \A s \in SizeClass : NoRepeat(m_freelist'[s])
    BY <1>5, <1>7
  <2>2. Organized(m_freelist', node_meta', bitmap', m_chunk_meta_map, allocated')
    BY <1>1, <1>3, <1>8, <1>9, <1>10, <1>11, <1>12, <1>13, <2>1 DEF Organized
  <2> QED BY <1>2, <2>2 DEF OrganizedNow
<1>15. t # TopClass => m_freelist'[TopClass] = m_freelist[TopClass]
  BY <1>5, <1>7, TopBlock
<1> QED BY <1>14, <1>15

\* free_internal and free_chunk, when the chunk goes back: nothing of it is
\* listed or handed out any more.
LEMMA ReleaseMerged ==
  ASSUME OrganizedNow,
         NEW c \in LiveChunks, NEW a \in SizeClass, NEW o \in Cell,
         <<c, o, get_size(a)>> \in allocated,
         ClassReached(m_chunk_meta_map[c], o, a, TopClass),
         HandedIn(allocated, allocated', c, o, a),
         m_managed_chunk[m_chunk_meta_map[c]] = c,
         FreeChunk(m_chunk_meta_map[c]),
         m_freelist' = MergedLists(c, o, a, TopClass)
  PROVE  /\ OrganizedNow'
         /\ m_freelist'[TopClass] = m_freelist[TopClass]
         /\ LiveChunks' = LiveChunks \ {c}
<1> DEFINE m == m_chunk_meta_map[c]
           C == bitmap[m] \ {get_bitmap_index(EnclosingBlock(o, u), u) : u \in a..TopClass}
           e == EnclosingBlock(o, TopClass)
<1>1. /\ bitmap \in [Meta -> SUBSET BitIndex] /\ node_meta \in [Node -> Meta \cup {Null}]
      /\ m_chunk_meta_map \in [Chunk -> Meta \cup {Null}]
      /\ \A d, f \in LiveChunks : m_chunk_meta_map[d] = m_chunk_meta_map[f] => d = f
      /\ LiveChunks = Live(m_chunk_meta_map) /\ c \in Chunk /\ m \in Meta
      /\ \A b \in allocated : b[1] \in LiveChunks
      /\ AreBlocks(allocated)
  BY DEF OrganizedNow, Organized, LiveChunks, Live
<1>2. /\ bitmap' = [bitmap EXCEPT ![m] = {}]
      /\ node_meta' = [n \in Node |-> IF n[1] = c THEN Null ELSE node_meta[n]]
      /\ m_chunk_meta_map' = [m_chunk_meta_map EXCEPT ![c] = Null]
  BY DEF FreeChunk
<1>3. Unmarked(bitmap[m], C, o, a, TopClass) /\ TopClass \in SizeClass
  BY TopBlock DEF Unmarked
<1>4. /\ Tree(C, Owned(allocated', c)) /\ AreBlocks(allocated')
      /\ \A d : d # c => Owned(allocated', d) = Owned(allocated, d)
      /\ <<c, e>> \in Node /\ e \in OffsetsOf(TopClass) /\ ~Used(C, e, TopClass)
      /\ m_freelist' \in [SizeClass -> Seq(Node)]
      /\ \A s \in SizeClass : NoRepeat(m_freelist'[s])
      /\ \A s \in SizeClass : Range(m_freelist'[s]) \subseteq Range(m_freelist[s])
      /\ <<c, e>> \notin Range(m_freelist'[TopClass])
      /\ \A s \in SizeClass : \A x \in Node :
           x \in Range(m_freelist'[s]) \/ (s = TopClass /\ x = <<c, e>>) <=>
             /\ x[1] \in LiveChunks /\ x[2] \in OffsetsOf(s)
             /\ Linked(BitsWith(C, c, x[1]), Owned(allocated', x[1]), x[2], s)
      /\ m_freelist'[TopClass] = m_freelist[TopClass]
  <2> HIDE DEF C, e
  <2>1. e = EnclosingBlock(o, TopClass)
    BY DEF e
  <2>2. Merged(C, allocated', m_freelist', c, e, TopClass)
    BY <1>3, <2>1, Merging
  <2> QED BY <2>2 DEF Merged
<1>5. e = 0 /\ ~Used(C, 0, TopClass)
  BY <1>4, TopBlock
<1>6. /\ \A x, s : <<x, s>> \notin Owned(allocated', c)
      /\ \A s \in SizeClass : \A x \in OffsetsOf(s) :
           Linked(C, Owned(allocated', c), x, s) <=> s = TopClass
  <2> HIDE DEF C
  <2> QED BY <1>4, <1>5, WholeTree
<1>7. LiveChunks' = LiveChunks \ {c} /\ LiveChunks' = Live(m_chunk_meta_map')
  BY <1>1, <1>2 DEF LiveChunks, Live
<1>8. ASSUME NEW b \in allocated' PROVE b[1] \in LiveChunks'
  <2>1. b[1] # c
    BY <1>4, <1>6, OwnedFacts, ZenonT(40)
  <2>2. b \in allocated
    BY DEF HandedIn
  <2> QED BY <1>1, <1>7, <2>1, <2>2
<1>9. ASSUME NEW d \in LiveChunks'
      PROVE  /\ d \in LiveChunks /\ d # c /\ m_chunk_meta_map'[d] = m_chunk_meta_map[d]
             /\ bitmap'[m_chunk_meta_map'[d]] = bitmap[m_chunk_meta_map[d]]
             /\ Owned(allocated', d) = Owned(allocated, d)
             /\ Tree(bitmap'[m_chunk_meta_map'[d]], Owned(allocated', d))
  <2>1. d \in LiveChunks /\ d # c /\ d \in Chunk
    BY <1>7 DEF LiveChunks
  <2>2. m_chunk_meta_map'[d] = m_chunk_meta_map[d]
    BY <1>1, <1>2, <2>1
  <2>3. m_chunk_meta_map[d] # m /\ m_chunk_meta_map[d] \in Meta
    BY <1>1, <2>1 DEF LiveChunks
  <2>4. bitmap'[m_chunk_meta_map'[d]] = bitmap[m_chunk_meta_map[d]]
    BY <1>1, <1>2, <2>2, <2>3
  <2>5. Tree(bitmap[m_chunk_meta_map[d]], Owned(allocated, d))
    BY <1>1, <2>1 DEF OrganizedNow, Organized
  <2> QED BY <1>4, <2>1, <2>2, <2>4, <2>5
<1>10. ASSUME NEW s \in SizeClass, NEW x \in Range(m_freelist'[s]) PROVE x \in Node /\ x[1] # c
  <2>1. x \in Node
    BY <1>4, RangeFacts
  <2> SUFFICES ASSUME x[1] = c PROVE FALSE
    BY <2>1
  <2>2. x[2] \in OffsetsOf(s) /\ Linked(C, Owned(allocated', c), x[2], s)
    BY <1>4, <2>1 DEF BitsWith
  <2>3. s = TopClass
    BY <1>6, <2>2
  <2>4. x[2] = 0 /\ x = <<x[1], x[2]>>
    BY <2>1, <2>2, <2>3, TopBlock DEF Node
  <2> QED BY <1>4, <1>5, <2>3, <2>4
<1>11. ASSUME NEW s \in SizeClass, NEW x \in Node
       PROVE  x \in Range(m_freelist'[s]) <=>
                IsLinked(bitmap', m_chunk_meta_map', allocated', x, s)
  <2>1. CASE x[1] = c
    BY <1>7, <1>10, <2>1 DEF IsLinked
  <2>2. CASE x[1] # c
    <3>1. x # <<c, e>>
      BY <2>2
    <3>2. x \in Range(m_freelist'[s]) <=>
            /\ x[1] \in LiveChunks /\ x[2] \in OffsetsOf(s)
            /\ Linked(bitmap[m_chunk_meta_map[x[1]]], Owned(allocated', x[1]), x[2], s)
      BY <1>4, <2>2, <3>1 DEF BitsWith
    <3>3. x[1] \in LiveChunks <=> x[1] \in LiveChunks'
      BY <1>7, <2>2
    <3> QED BY <1>7, <1>9, <3>2, <3>3 DEF IsLinked
  <2> QED BY <2>1, <2>2
<1>12. ASSUME NEW s \in SizeClass, NEW x \in Range(m_freelist'[s])
       PROVE  node_meta'[x] = m_chunk_meta_map'[x[1]]
  <2>1. x \in Node /\ x[1] # c /\ x \in Range(m_freelist[s])
    BY <1>4, <1>10
  <2>2. node_meta[x] = m_chunk_meta_map[x[1]] /\ x[1] \in LiveChunks
    BY <1>1, <2>1, ListedFacts DEF OrganizedNow
  <2>3. x[1] \in LiveChunks'
    BY <1>7, <2>1, <2>2
  <2> QED BY <1>2, <1>9, <2>1, <2>2, <2>3
<1>13. /\ bitmap' \in [Meta -> SUBSET BitIndex]
       /\ m_chunk_meta_map' \in [Chunk -> Meta \cup {Null}]
  BY <1>1, <1>2
<1>14. node_meta' \in [Node -> Meta \cup {Null}]
  BY <1>1, <1>2
<1>15. \A d, f \in LiveChunks' : m_chunk_meta_map'[d] = m_chunk_meta_map'[f] => d = f
  BY <1>1, <1>9
<1>16. OrganizedNow'
  BY <1>4, <1>7, <1>8, <1>9, <1>11, <1>12, <1>13, <1>14, <1>15 DEF OrganizedNow, Organized
<1> QED BY <1>4, <1>7, <1>16
-----------------------------------------------------------------------------
(* The supplier and the counters *)

\* What is held of the supplier: chunks with their nodes, no address twice.
Accounted ==
  /\ m_managed_chunk \in [Meta -> Chunk \cup {Null}]
  /\ m_chunk_meta_map \in [Chunk -> Meta \cup {Null}]
  /\ m_chunk_count \in Nat /\ IsFiniteSet(LiveChunks)
  /\ supplied \subseteq Chunk \cup Meta
  /\ \A c, d \in LiveChunks : m_chunk_meta_map[c] # d
  /\ alive => \A c \in LiveChunks : m_managed_chunk[m_chunk_meta_map[c]] = c
  /\ NothingLeaked

\* The limit, as a number of the code's unsigned type.
Limited == m_alloc_limit \in 0..(Modulus - 1) /\ LimitRespected

\* The inductive invariant.
IInv ==
  /\ TypeOK
  /\ alive => OrganizedNow
  /\ ~alive => allocated = {}
  /\ Accounted
  /\ OneSpareChunk
  /\ Limited

\* Numbers a multiple of d apart have one remainder.
LEMMA SameRemainder ==
  ASSUME NEW d \in Nat \ {0}, NEW x \in Int, NEW y \in Int, NEW k \in Int, x = y + d * k
  PROVE  x % d = y % d
<1> DEFINE p == x \div d
           q == y \div d
           e == p - q - k
           r == x % d
           t == y % d
<1>1. p \in Int /\ r \in 0..(d - 1) /\ x = d * p + r
  OBVIOUS
<1>2. q \in Int /\ t \in 0..(d - 1) /\ y = d * q + t
  OBVIOUS
<1>3. e \in Int /\ d * e = t - r
  <2>1. d * (p - q - k) = d * p - d * q - d * k
    BY <1>1, <1>2
  <2> HIDE DEF p, q, r, t
  <2> QED BY <1>1, <1>2, <2>1
<1> HIDE DEF p, q, e, r, t
<1>4. e = 0
  <2>1. ASSUME e >= 1 PROVE FALSE
    <3>1. PICK j \in Nat : e = 1 + j
      <4>1. e - 1 \in Nat /\ e = 1 + (e - 1)
        BY <1>3, <2>1
      <4> QED BY <4>1
    <3>2. d * e = d + d * j /\ d * j \in Nat
      BY <3>1
    <3> QED BY <1>1, <1>2, <1>3, <3>2
  <2>2. ASSUME e <= -1 PROVE FALSE
    <3>1. PICK j \in Nat : e = -1 - j
      <4>1. -1 - e \in Nat /\ e = -1 - (-1 - e)
        BY <1>3, <2>2
      <4> QED BY <4>1
    <3>2. d * e = -d - d * j /\ d * j \in Nat
      BY <3>1
    <3> QED BY <1>1, <1>2, <1>3, <3>2
  <2> QED BY <1>3, <2>1, <2>2
<1>5. r = t
  <2>1. d * e = 0
    BY <1>4
  <2> QED BY <1>1, <1>2, <1>3, <2>1
<1> QED BY <1>5 DEF r, t

\* The remainder of a number that fits in the code's type is the number.
LEMMA Fits == \A x \in Nat : x < Modulus => x % Modulus = x
<1> SUFFICES ASSUME NEW x \in Nat, x < Modulus PROVE x % Modulus = x
  OBVIOUS
<1>1. Modulus \in Nat \ {0} /\ x = Modulus * 0 + x
  BY LimitAssumption
<1> QED BY <1>1, DivisionUnique

\* A sum that wraps at each step is the whole sum wrapped once.
LEMMA RemainderOfSum ==
  ASSUME NEW a \in Int, NEW p \in Int
  PROVE  /\ a % Modulus \in 0..(Modulus - 1)
         /\ ((a % Modulus) + p) % Modulus = (a + p) % Modulus
<1> DEFINE q == a \div Modulus
           t == a % Modulus
<1>1. Modulus \in Nat \ {0}
  BY LimitAssumption
<1>2. q \in Int /\ t \in 0..(Modulus - 1) /\ a = Modulus * q + t
  BY <1>1
<1>3. t + p \in Int /\ a + p \in Int /\ -q \in Int
  BY <1>1, <1>2
<1>4. t + p = (a + p) + Modulus * (-q)
  <2>1. Modulus * (-q) = -(Modulus * q)
    BY <1>1, <1>2
  <2> DEFINE m == Modulus * q
  <2>2. m \in Int
    BY <1>1, <1>2
  <2> HIDE DEF q, t, m
  <2> QED BY <1>1, <1>2, <2>1, <2>2 DEF m
<1> HIDE DEF q, t
<1>5. (t + p) % Modulus = (a + p) % Modulus
  BY <1>1, <1>3, <1>4, SameRemainder
<1> QED BY <1>2, <1>5 DEF t

LEMMA LimitFacts ==
  PageSize \in Nat \ {0} /\ Modulus \in Nat \ {0} /\ AllocLimit \in Nat /\ AllocLimit < Modulus
<1>1. TopClass \in SizeClass /\ get_size(TopClass) = PageSize
  BY TopBlock, ClassFacts
<1> QED BY <1>1, ClassFacts, LimitAssumption

\* One chunk more, when the limit was not reached (m_alloc_limit -= ...).
LEMMA OneMore ==
  ASSUME Limited, m_chunk_count \in Nat, m_alloc_limit # 0,
         m_alloc_limit' = (m_alloc_limit - PageSize) % Modulus,
         m_chunk_count' = m_chunk_count + 1
  PROVE  Limited'
<1> DEFINE P == PageSize
           n == m_chunk_count
           held == n * P
           more == (n + 1) * P
           left == AllocLimit - held
<1>1. /\ held \in Nat /\ more \in Nat /\ more = held + P /\ left \in Int
      /\ m_chunk_count' * PageSize = more
  BY LimitFacts
<1>2. m_alloc_limit = left % Modulus
  BY DEF Limited, LimitRespected
<1>3. m_alloc_limit' \in 0..(Modulus - 1) /\ m_alloc_limit' = (AllocLimit - more) % Modulus
  <2> HIDE DEF held, more, left
  <2>1. -P \in Int /\ left + (-P) = AllocLimit - more /\ AllocLimit - more \in Int
    BY <1>1, LimitFacts DEF left
  <2>2. m_alloc_limit - PageSize = (left % Modulus) + (-P)
    BY <1>1, <1>2, LimitFacts, RemainderOfSum
  <2>3. ((left % Modulus) + (-P)) % Modulus = (left + (-P)) % Modulus
    BY <1>1, <2>1, RemainderOfSum
  <2>4. (AllocLimit - more) % Modulus \in 0..(Modulus - 1)
    BY <2>1, RemainderOfSum
  <2> QED BY <2>1, <2>2, <2>3, <2>4
<1>4. ASSUME AllocLimit % PageSize = 0 PROVE more <= AllocLimit
  <2> DEFINE k == AllocLimit \div PageSize
             all == k * P
  <2>1. k \in Nat /\ AllocLimit = P * k + (AllocLimit % P)
    BY LimitFacts, Division
  <2>2. AllocLimit = all /\ all \in Nat
    BY <1>4, <2>1, LimitFacts
  <2>3. ASSUME k <= n PROVE FALSE
    <3>1. PICK j \in Nat : n = k + j
      <4>1. n - k \in Nat /\ n = k + (n - k)
        BY <2>1, <2>3
      <4> QED BY <4>1
    <3>2. held = all + j * P /\ j * P \in Nat
      BY <2>1, <3>1, LimitFacts
    <3>3. held <= AllocLimit
      BY <1>4 DEF Limited, LimitRespected
    <3>4. left = 0
      <4> HIDE DEF held, all
      <4> QED BY <1>1, <2>2, <3>2, <3>3 DEF left
    <3>5. 0 % Modulus = 0
      BY Fits, LimitFacts
    <3> HIDE DEF left
    <3> QED BY <1>2, <3>4, <3>5
  <2>4. PICK j \in Nat : k = n + 1 + j
    <3>1. k - (n + 1) \in Nat /\ k = n + 1 + (k - (n + 1))
      BY <2>1, <2>3
    <3> QED BY <3>1
  <2>5. all = more + j * P /\ j * P \in Nat
    BY <2>4, LimitFacts
  <2> HIDE DEF more, all
  <2> QED BY <1>1, <2>2, <2>5
<1> HIDE DEF held, more, left
<1> QED BY <1>1, <1>3, <1>4 DEF Limited, LimitRespected

\* One chunk fewer (m_alloc_limit += ...).
LEMMA OneFewer ==
  ASSUME Limited, m_chunk_count \in Nat \ {0},
         m_alloc_limit' = (m_alloc_limit + PageSize) % Modulus,
         m_chunk_count' = m_chunk_count - 1
  PROVE  Limited'
<1> DEFINE P == PageSize
           n == m_chunk_count
           held == n * P
           less == (n - 1) * P
           left == AllocLimit - held
<1>1. /\ held \in Nat /\ less \in Nat /\ held = less + P /\ left \in Int
      /\ m_chunk_count' * PageSize = less
  BY LimitFacts
<1>2. m_alloc_limit = left % Modulus
  BY DEF Limited, LimitRespected
<1>3. m_alloc_limit' \in 0..(Modulus - 1) /\ m_alloc_limit' = (AllocLimit - less) % Modulus
  <2> HIDE DEF held, less, left
  <2>1. P \in Int /\ left + P = AllocLimit - less /\ AllocLimit - less \in Int
    BY <1>1, LimitFacts DEF left
  <2>2. m_alloc_limit' = ((left % Modulus) + P) % Modulus
    BY <1>2
  <2>3. ((left % Modulus) + P) % Modulus = (left + P) % Modulus
    BY <1>1, <2>1, RemainderOfSum
  <2>4. (AllocLimit - less) % Modulus \in 0..(Modulus - 1)
    BY <2>1, RemainderOfSum
  <2> QED BY <2>1, <2>2, <2>3, <2>4
<1>4. ASSUME AllocLimit % PageSize = 0 PROVE less <= AllocLimit
  <2>1. held <= AllocLimit
    BY <1>4 DEF Limited, LimitRespected
  <2> HIDE DEF held, less
  <2> QED BY <1>1, <2>1, LimitFacts
<1> HIDE DEF held, less, left
<1> QED BY <1>1, <1>3, <1>4 DEF Limited, LimitRespected
-----------------------------------------------------------------------------
(* The inductive invariant *)

\* A request served from a free block.
LEMMA FreeBlockKeeps ==
  ASSUME IInv, NEW size \in RequestSizes, AllocFromFreeBlock(size)
  PROVE  /\ IInv'
         /\ \E c \in Chunk, o \in Cell :
              /\ <<c, o, size>> \notin allocated
              /\ allocated' = allocated \cup {<<c, o, size>>}
<1> DEFINE a == get_sizeclass(size)
<1>1. a \in SizeClass /\ get_size(a) = size /\ alive /\ alive' /\ alive \in BOOLEAN /\ alive' \in BOOLEAN
  BY RequestFacts DEF AllocFromFreeBlock, IInv, TypeOK
<1>2. PICK l \in SizeClass :
        /\ ClassFound(m_freelist, a, l)
        /\ AllocInternal(m_freelist, node_meta, bitmap, a, l)
        /\ allocated' = allocated \cup {<<Head(m_freelist[l])[1], Head(m_freelist[l])[2], size>>}
  BY DEF AllocFromFreeBlock
<1>3. UNCHANGED <<m_managed_chunk, m_chunk_meta_map, m_alloc_limit, m_chunk_count, supplied, alive>>
  BY DEF AllocFromFreeBlock
<1> DEFINE c == Head(m_freelist[l])[1]
           o == Head(m_freelist[l])[2]
<1>4. HandedOut(allocated, allocated', c, o, a)
  BY <1>1, <1>2 DEF HandedOut
<1>5. Organized(m_freelist, node_meta, bitmap, m_chunk_meta_map, allocated)
  BY <1>1 DEF IInv, OrganizedNow
<1>6. /\ Organized(m_freelist', node_meta', bitmap', m_chunk_meta_map, allocated')
      /\ Range(m_freelist'[TopClass]) =
           Range(m_freelist[TopClass]) \ (IF l = TopClass THEN {Head(m_freelist[l])} ELSE {})
      /\ c \in Chunk /\ o \in Cell /\ <<c, o, get_size(a)>> \notin allocated
  <2> HIDE DEF a, c, o
  <2>1. c = Head(m_freelist[l])[1] /\ o = Head(m_freelist[l])[2] /\ get_size(a) \in RequestSizes
    BY <1>1 DEF c, o
  <2>2. Taken(m_freelist, m_chunk_meta_map, allocated, allocated', c, o, a, l)
    BY <1>1, <1>2, <1>4, <1>5, <2>1, TakeBlock
  <2> QED BY <2>2 DEF Taken
<1>7. OrganizedNow'
  BY <1>3, <1>6 DEF OrganizedNow
<1>8. OneSpareChunk'
  BY <1>1, <1>3, <1>6 DEF IInv, OneSpareChunk, InList
<1>9. LiveChunks' = LiveChunks
  BY <1>3 DEF LiveChunks
<1>10. Accounted' /\ Limited'
  <2>1. Accounted /\ Limited
    BY DEF IInv
  <2>2. NothingLeaked'
    BY <1>3, <1>9, <2>1 DEF Accounted, NothingLeaked
  <2> QED BY <1>3, <1>9, <2>1, <2>2 DEF Accounted, Limited, LimitRespected
<1>11. TypeOK'
  BY <1>1, <1>7, <1>10 DEF TypeOK, OrganizedNow, Organized, Accounted, Limited, AreBlocks
<1>12. IInv'
  BY <1>1, <1>7, <1>8, <1>10, <1>11 DEF IInv
<1> QED BY <1>1, <1>2, <1>6, <1>12

\* A request served from a new chunk.
LEMMA NewChunkKeeps ==
  ASSUME IInv, NEW size \in RequestSizes, NEW m \in Meta, NEW c \in Chunk,
         AllocFromNewChunk(size, m, c)
  PROVE  /\ IInv'
         /\ <<c, 0, size>> \notin allocated
<1> DEFINE a == get_sizeclass(size)
           freelist == [m_freelist EXCEPT ![TopClass] = <<<<c, 0>>>> \o @]
           metas == [node_meta EXCEPT ![<<c, 0>>] = m]
           bits == [bitmap EXCEPT ![m] = {}]
<1>1. a \in SizeClass /\ get_size(a) = size /\ alive /\ alive' /\ alive \in BOOLEAN /\ alive' \in BOOLEAN
  BY RequestFacts DEF AllocFromNewChunk, NeedsChunk, IInv, TypeOK
<1>2. /\ ~CanAlloc(m_freelist, a) /\ m_alloc_limit # 0
      /\ m # c /\ m \notin supplied /\ c \notin supplied
      /\ supplied' = supplied \cup {m, c}
      /\ m_chunk_meta_map' = [m_chunk_meta_map EXCEPT ![c] = m]
      /\ m_managed_chunk' = [m_managed_chunk EXCEPT ![m] = c]
      /\ m_alloc_limit' = (m_alloc_limit - PageSize) % Modulus
      /\ m_chunk_count' = m_chunk_count + 1
      /\ AllocInternal(freelist, metas, bits, a, TopClass)
      /\ allocated' = allocated \cup {<<c, 0, size>>}
      /\ alive' = alive
  BY DEF AllocFromNewChunk, NeedsChunk
<1>3. Organized(m_freelist, node_meta, bitmap, m_chunk_meta_map, allocated)
  BY <1>1 DEF IInv, OrganizedNow
<1>4. /\ Accounted /\ Limited /\ LiveChunks = Live(m_chunk_meta_map)
      /\ supplied = LiveChunks \cup {m_chunk_meta_map[d] : d \in LiveChunks}
      /\ m_chunk_meta_map \in [Chunk -> Meta \cup {Null}]
      /\ m_managed_chunk \in [Meta -> Chunk \cup {Null}]
      /\ m # Null /\ c # Null
  BY <1>1, NullAssumption DEF IInv, Accounted, NothingLeaked, LiveChunks, Live
<1>5. c \notin LiveChunks /\ \A d \in LiveChunks : m_chunk_meta_map[d] # m /\ m_chunk_meta_map[d] # c /\ d # m /\ d # c
  BY <1>2, <1>4
<1>6. ChunkAdded(m_freelist, node_meta, bitmap, m_chunk_meta_map,
                 freelist, metas, bits, m_chunk_meta_map', m, c)
  BY <1>2 DEF ChunkAdded
<1>7. \A s \in SizeClass : a <= s => m_freelist[s] = <<>>
  <2> HIDE DEF a
  <2> QED BY <1>1, <1>2, CanAllocFacts
<1>8. TopClass \in SizeClass /\ a <= TopClass /\ TopClass \in Nat /\ SizeClass = 0..TopClass
      /\ a \in Nat /\ m_freelist[TopClass] = <<>>
  <2>1. TopClass \in SizeClass /\ a <= TopClass /\ TopClass \in Nat /\ SizeClass = 0..TopClass
    BY <1>1, Neighbours
  <2> QED BY <1>1, <1>7, <2>1
<1>9. /\ Organized(freelist, metas, bits, m_chunk_meta_map', allocated)
      /\ Live(m_chunk_meta_map') = LiveChunks \cup {c}
      /\ \A s \in SizeClass : s # TopClass => freelist[s] = m_freelist[s]
      /\ freelist[TopClass] # <<>>
      /\ Head(freelist[TopClass]) = <<c, 0>> /\ Range(freelist[TopClass]) = {<<c, 0>>}
  <2> HIDE DEF freelist, metas, bits
  <2> QED BY <1>3, <1>4, <1>5, <1>6, <1>8, AddChunk
<1>10. ClassFound(freelist, a, TopClass)
  <2>1. ASSUME NEW s \in a..(TopClass - 1) PROVE freelist[s] = <<>>
    <3>1. s \in SizeClass /\ s # TopClass /\ a <= s
      BY <1>8
    <3> HIDE DEF freelist
    <3> QED BY <1>7, <1>9, <3>1
  <2>2. TopClass \in a..TopClass
    BY <1>8
  <2> HIDE DEF freelist, a
  <2> QED BY <1>9, <2>1, <2>2 DEF ClassFound
<1>11. HandedOut(allocated, allocated', c, 0, a)
  BY <1>1, <1>2 DEF HandedOut
<1>12. /\ Organized(m_freelist', node_meta', bitmap', m_chunk_meta_map', allocated')
       /\ Range(m_freelist'[TopClass]) = {}
       /\ <<c, 0, size>> \notin allocated
  <2> HIDE DEF freelist, metas, bits, a
  <2>1. c = Head(freelist[TopClass])[1] /\ 0 = Head(freelist[TopClass])[2] /\ get_size(a) \in RequestSizes
    BY <1>1, <1>9
  <2>2. AllocInternal(freelist, metas, bits, a, TopClass)
    BY <1>2 DEF freelist, metas, bits, a
  <2>3. Taken(freelist, m_chunk_meta_map', allocated, allocated', c, 0, a, TopClass)
    BY <1>1, <1>8, <1>9, <1>10, <1>11, <2>1, <2>2, TakeBlock
  <2> QED BY <1>1, <1>9, <2>3 DEF Taken
<1>13. OrganizedNow'
  BY <1>12 DEF OrganizedNow
<1>14. OneSpareChunk'
  BY <1>12 DEF OneSpareChunk, InList
<1>15. Limited'
  BY <1>2, <1>4, OneMore DEF Accounted
<1>16. Accounted'
  <2>1. LiveChunks' = LiveChunks \cup {c}
    BY <1>9 DEF LiveChunks, Live
  <2>2. m_chunk_meta_map'[c] = m /\ \A d \in LiveChunks : m_chunk_meta_map'[d] = m_chunk_meta_map[d]
    BY <1>2, <1>4, <1>5
  <2>3. m_managed_chunk'[m] = c /\ \A d \in LiveChunks :
          m_managed_chunk'[m_chunk_meta_map[d]] = m_managed_chunk[m_chunk_meta_map[d]]
    <3>1. \A d \in LiveChunks : m_chunk_meta_map[d] \in Meta
      BY <1>4 DEF LiveChunks
    <3> QED BY <1>2, <1>4, <1>5, <3>1
  <2>4. /\ m_managed_chunk' \in [Meta -> Chunk \cup {Null}]
        /\ m_chunk_meta_map' \in [Chunk -> Meta \cup {Null}]
        /\ m_chunk_count' \in Nat
        /\ supplied' \subseteq Chunk \cup Meta
    BY <1>2, <1>4 DEF Accounted
  <2>5. IsFiniteSet(LiveChunks) /\ m_chunk_count = Cardinality(LiveChunks)
    BY <1>4 DEF Accounted, NothingLeaked
  <2>6. IsFiniteSet(LiveChunks') /\ Cardinality(LiveChunks') = m_chunk_count'
    BY <1>2, <1>5, <2>1, <2>5, FS_AddElement
  <2>7. \A d, e \in LiveChunks' : m_chunk_meta_map'[d] # e
    <3>1. \A d, e \in LiveChunks : m_chunk_meta_map[d] # e
      BY <1>4 DEF Accounted
    <3> QED BY <1>2, <1>5, <2>1, <2>2, <3>1
  <2>8. \A d \in LiveChunks' : m_managed_chunk'[m_chunk_meta_map'[d]] = d
    <3>1. \A d \in LiveChunks : m_managed_chunk[m_chunk_meta_map[d]] = d
      BY <1>1, <1>4 DEF Accounted
    <3> QED BY <2>1, <2>2, <2>3, <3>1
  <2>9. supplied' = LiveChunks' \cup {m_chunk_meta_map'[d] : d \in LiveChunks'}
    BY <1>2, <1>4, <2>1, <2>2
  <2>10. \A d, e \in LiveChunks' : d # e => m_chunk_meta_map'[d] # m_chunk_meta_map'[e]
    <3>1. \A d, e \in LiveChunks : d # e => m_chunk_meta_map[d] # m_chunk_meta_map[e]
      BY <1>4 DEF Accounted, NothingLeaked
    <3> QED BY <1>5, <2>1, <2>2, <3>1
  <2>11. NothingLeaked'
    BY <1>1, <2>6, <2>9, <2>10 DEF NothingLeaked
  <2> QED BY <2>4, <2>6, <2>7, <2>8, <2>11 DEF Accounted
<1>17. TypeOK'
  BY <1>1, <1>13, <1>15, <1>16 DEF TypeOK, OrganizedNow, Organized, Accounted, Limited, AreBlocks
<1> QED BY <1>1, <1>12, <1>13, <1>14, <1>15, <1>16, <1>17 DEF IInv

\* A block comes back.
LEMMA FreeKeeps ==
  ASSUME IInv, NEW c, NEW o, NEW size, Free(c, o, size)
  PROVE  IInv'
<1> DEFINE a == get_sizeclass(size)
           m == m_chunk_meta_map[c]
<1>1. alive /\ alive' = alive /\ alive \in BOOLEAN /\ <<c, o, size>> \in allocated
  BY DEF Free, IInv, TypeOK
<1>2. OrganizedNow /\ Accounted /\ Limited
  BY <1>1 DEF IInv
<1>3. /\ c \in LiveChunks /\ o \in Cell /\ size \in RequestSizes
      /\ a \in SizeClass /\ get_size(a) = size
  <2>1. <<c, o, size>> \in Chunk \X Cell \X RequestSizes
    BY <1>1 DEF IInv, TypeOK
  <2>2. <<c, o, size>>[1] \in LiveChunks
    BY <1>1, <1>2 DEF OrganizedNow, Organized, Live, LiveChunks
  <2> QED BY <2>1, <2>2, RequestFacts
<1>4. HandedIn(allocated, allocated', c, o, a)
  BY <1>3 DEF Free, HandedIn
<1>5. m_managed_chunk[m] = c
  BY <1>1, <1>2, <1>3 DEF Accounted
<1>6. PICK t \in SizeClass :
        /\ ClassReached(m, o, a, t)
        /\ IF t = TopClass /\ ReleasesChunk
           THEN FreeChunk(m) /\ m_freelist' = MergedLists(c, o, a, t)
           ELSE /\ FreeInternal(m, c, o, a, t)
                /\ KeepBlock(MergedLists(c, o, a, t),
                             <<IF t = TopClass THEN m_managed_chunk[m] ELSE c, EnclosingBlock(o, t)>>, t)
  BY DEF Free
<1>7. /\ <<c, o, get_size(a)>> \in allocated /\ IsFiniteSet(LiveChunks)
      /\ m_chunk_count = Cardinality(LiveChunks) /\ m_chunk_count \in Nat \ {0}
  <2>1. IsFiniteSet(LiveChunks) /\ m_chunk_count = Cardinality(LiveChunks) /\ m_chunk_count \in Nat
    BY <1>2 DEF Accounted, NothingLeaked
  <2>2. m_chunk_count # 0
    BY <1>3, <2>1, FS_EmptySet
  <2> QED BY <1>1, <1>3, <2>1, <2>2
<1> HIDE DEF a
<1>8. CASE t = TopClass /\ ReleasesChunk
  <2>1. /\ FreeChunk(m_chunk_meta_map[c]) /\ m_freelist' = MergedLists(c, o, a, TopClass)
        /\ ClassReached(m_chunk_meta_map[c], o, a, TopClass)
        /\ m_managed_chunk[m_chunk_meta_map[c]] = c
    BY <1>5, <1>6, <1>8
  <2>2. /\ OrganizedNow'
        /\ m_freelist'[TopClass] = m_freelist[TopClass]
        /\ LiveChunks' = LiveChunks \ {c}
    BY <1>2, <1>3, <1>4, <1>7, <2>1, ReleaseMerged
  <2>3. /\ m_managed_chunk' = [m_managed_chunk EXCEPT ![m] = Null]
        /\ supplied' = supplied \ {c, m}
        /\ m_chunk_meta_map' = [m_chunk_meta_map EXCEPT ![c] = Null]
        /\ m_alloc_limit' = (m_alloc_limit + PageSize) % Modulus
        /\ m_chunk_count' = m_chunk_count - 1
    BY <1>5, <2>1 DEF FreeChunk
  <2>4. Limited'
    BY <1>2, <1>7, <2>3, OneFewer
  <2>5. OneSpareChunk'
    <3>1. InList(TopClass)' = InList(TopClass)
      BY <2>2 DEF InList
    <3>2. m_chunk_count # 1
      BY <1>7, <1>8 DEF ReleasesChunk
    <3>3. InList(TopClass) = {}
      BY <1>1, <3>2 DEF IInv, OneSpareChunk
    <3> QED BY <3>1, <3>3 DEF OneSpareChunk
  <2>6. Accounted'
    <3>1. /\ m_managed_chunk \in [Meta -> Chunk \cup {Null}]
          /\ m_chunk_meta_map \in [Chunk -> Meta \cup {Null}]
          /\ supplied \subseteq Chunk \cup Meta
          /\ \A d, f \in LiveChunks : m_chunk_meta_map[d] # f
          /\ \A d \in LiveChunks : m_managed_chunk[m_chunk_meta_map[d]] = d
          /\ supplied = LiveChunks \cup {m_chunk_meta_map[d] : d \in LiveChunks}
          /\ \A d, f \in LiveChunks : d # f => m_chunk_meta_map[d] # m_chunk_meta_map[f]
      BY <1>1, <1>2 DEF Accounted, NothingLeaked
    <3>2. /\ m_managed_chunk' \in [Meta -> Chunk \cup {Null}]
          /\ m_chunk_meta_map' \in [Chunk -> Meta \cup {Null}]
          /\ supplied' \subseteq Chunk \cup Meta
      BY <2>3, <3>1
    <3>3. ASSUME NEW d \in LiveChunks'
          PROVE  /\ d \in LiveChunks /\ d # c /\ m_chunk_meta_map'[d] = m_chunk_meta_map[d]
                 /\ m_chunk_meta_map[d] # m /\ m_chunk_meta_map[d] \in Meta
                 /\ m_managed_chunk'[m_chunk_meta_map'[d]] = m_managed_chunk[m_chunk_meta_map[d]]
      <4>1. d \in LiveChunks /\ d # c /\ d \in Chunk /\ m_chunk_meta_map[d] # Null
        BY <2>2 DEF LiveChunks
      <4>2. m_chunk_meta_map'[d] = m_chunk_meta_map[d]
        BY <2>3, <3>1, <4>1
      <4>3. m_chunk_meta_map[d] # m /\ m_chunk_meta_map[d] \in Meta
        BY <1>3, <3>1, <4>1
      <4> QED BY <2>3, <3>1, <4>1, <4>2, <4>3
    <3>4. IsFiniteSet(LiveChunks') /\ Cardinality(LiveChunks') = m_chunk_count' /\ m_chunk_count' \in Nat
      <4>1. IsFiniteSet(LiveChunks \ {c}) /\ Cardinality(LiveChunks \ {c}) = Cardinality(LiveChunks) - 1
        BY <1>3, <1>7, FS_RemoveElement
      <4> QED BY <1>7, <2>2, <2>3, <4>1
    <3>5. \A d, f \in LiveChunks' : m_chunk_meta_map'[d] # f
      BY <3>1, <3>3
    <3>6. \A d \in LiveChunks' : m_managed_chunk'[m_chunk_meta_map'[d]] = d
      BY <3>1, <3>3
    <3>7. supplied' = LiveChunks' \cup {m_chunk_meta_map'[d] : d \in LiveChunks'}
      <4>1. ASSUME NEW x \in supplied' PROVE x \in LiveChunks' \cup {m_chunk_meta_map'[d] : d \in LiveChunks'}
        <5>1. x \in supplied /\ x # c /\ x # m
          BY <2>3
        <5>2. CASE x \in LiveChunks
          BY <2>2, <5>1, <5>2
        <5>3. CASE x \notin LiveChunks
          <6>1. PICK d \in LiveChunks : x = m_chunk_meta_map[d]
            BY <3>1, <5>1, <5>3
          <6>2. d \in LiveChunks'
            BY <2>2, <5>1, <6>1
          <6> QED BY <3>3, <6>1, <6>2
        <5> QED BY <5>2, <5>3
      <4>2. ASSUME NEW d \in LiveChunks' PROVE d \in supplied' /\ m_chunk_meta_map'[d] \in supplied'
        <5>1. d \in supplied /\ m_chunk_meta_map[d] \in supplied
          BY <3>1, <3>3
        <5>2. d # m /\ m_chunk_meta_map[d] # c
          BY <1>3, <3>1, <3>3
        <5> QED BY <2>3, <3>3, <5>1, <5>2
      <4> QED BY <4>1, <4>2
    <3>8. \A d, f \in LiveChunks' : d # f => m_chunk_meta_map'[d] # m_chunk_meta_map'[f]
      BY <3>1, <3>3
    <3>9. NothingLeaked'
      BY <1>1, <3>4, <3>7, <3>8 DEF NothingLeaked
    <3> QED BY <3>2, <3>4, <3>5, <3>6, <3>9 DEF Accounted
  <2>7. TypeOK'
    BY <1>1, <2>2, <2>4, <2>6 DEF TypeOK, OrganizedNow, Organized, Accounted, Limited, AreBlocks
  <2> QED BY <1>1, <2>2, <2>4, <2>5, <2>6, <2>7 DEF IInv
<1>9. CASE ~(t = TopClass /\ ReleasesChunk)
  <2>1. /\ FreeInternal(m_chunk_meta_map[c], c, o, a, t)
        /\ KeepBlock(MergedLists(c, o, a, t), <<c, EnclosingBlock(o, t)>>, t)
        /\ ClassReached(m_chunk_meta_map[c], o, a, t)
    BY <1>5, <1>6, <1>9
  <2>2. /\ OrganizedNow'
        /\ t # TopClass => m_freelist'[TopClass] = m_freelist[TopClass]
    BY <1>2, <1>3, <1>4, <1>7, <2>1, KeepMerged
  <2>3. UNCHANGED <<supplied, m_chunk_meta_map, m_managed_chunk, m_alloc_limit, m_chunk_count>>
    BY <2>1 DEF KeepBlock
  <2>4. LiveChunks' = LiveChunks
    BY <2>3 DEF LiveChunks
  <2>5. Accounted' /\ Limited'
    <3>1. NothingLeaked'
      BY <1>1, <1>2, <2>3, <2>4 DEF Accounted, NothingLeaked
    <3> QED BY <1>1, <1>2, <2>3, <2>4, <3>1 DEF Accounted, Limited, LimitRespected
  <2>6. OneSpareChunk'
    <3>1. CASE t = TopClass
      <4>1. m_chunk_count = 1
        BY <1>7, <1>9, <3>1 DEF ReleasesChunk
      <4> QED BY <2>3, <4>1 DEF OneSpareChunk
    <3>2. CASE t # TopClass
      BY <1>1, <2>2, <2>3, <3>2 DEF IInv, OneSpareChunk, InList
    <3> QED BY <3>1, <3>2
  <2>7. TypeOK'
    BY <1>1, <2>2, <2>5 DEF TypeOK, OrganizedNow, Organized, Accounted, Limited, AreBlocks
  <2> QED BY <1>1, <2>2, <2>5, <2>6, <2>7 DEF IInv
<1> QED BY <1>8, <1>9

\* The supplier has no chunk: the node goes back, and nothing has changed.
LEMMA RefusedKeeps ==
  ASSUME IInv, NEW size, NEW m, AllocChunkRefused(size, m)
  PROVE  IInv' /\ UNCHANGED vars
<1>1. UNCHANGED vars
  BY DEF AllocChunkRefused, GiveBack, vars
<1> QED BY <1>1 DEF vars, IInv, TypeOK, OrganizedNow, Organized, Accounted, NothingLeaked,
                    LiveChunks, OneSpareChunk, InList, Limited, LimitRespected, IsLinked

\* The destructor gives back every chunk and every node.
LEMMA DestroyKeeps ==
  ASSUME IInv, Destroy
  PROVE  IInv'
<1>1. /\ alive /\ alive' = FALSE /\ allocated' = {}
      /\ supplied' = supplied \ UNION {{c, m_chunk_meta_map[c]} : c \in LiveChunks}
      /\ UNCHANGED <<m_freelist, node_meta, bitmap, m_managed_chunk, m_chunk_meta_map,
                     m_alloc_limit, m_chunk_count>>
  BY DEF Destroy, LiveChunks
<1>2. Accounted /\ Limited /\ TypeOK
  BY DEF IInv
<1>3. supplied = LiveChunks \cup {m_chunk_meta_map[c] : c \in LiveChunks}
  BY <1>1, <1>2 DEF Accounted, NothingLeaked
<1>4. supplied' = {}
  <2>1. ASSUME NEW x \in supplied PROVE \E c \in LiveChunks : x \in {c, m_chunk_meta_map[c]}
    BY <1>3
  <2> QED BY <1>1, <2>1
<1>5. LiveChunks' = LiveChunks
  BY <1>1 DEF LiveChunks
<1>6. Accounted' /\ Limited'
  <2>1. NothingLeaked'
    BY <1>1, <1>2, <1>4, <1>5 DEF Accounted, NothingLeaked
  <2> QED BY <1>1, <1>2, <1>4, <1>5, <2>1 DEF Accounted, Limited, LimitRespected
<1>7. TypeOK'
  BY <1>1, <1>2, <1>4 DEF TypeOK
<1>8. OneSpareChunk'
  BY <1>1 DEF OneSpareChunk
<1> QED BY <1>1, <1>6, <1>7, <1>8 DEF IInv

\* The invariant holds initially.
LEMMA InitIInv == Init => IInv
<1> SUFFICES ASSUME Init PROVE IInv
  OBVIOUS
<1> USE DEF Init
<1>1. LiveChunks = {} /\ Live(m_chunk_meta_map) = {}
  BY DEF LiveChunks, Live
<1>2. IsFiniteSet({}) /\ Cardinality({}) = 0
  BY FS_EmptySet
<1>3. \A s \in SizeClass : m_freelist[s] = <<>>
  OBVIOUS
<1>4. m_freelist \in [SizeClass -> Seq(Node)]
  OBVIOUS
<1>5. OrganizedNow
  <2>1. \A n, s : ~IsLinked(bitmap, m_chunk_meta_map, allocated, n, s)
    BY <1>1 DEF IsLinked
  <2> QED BY <1>1, <1>3, <1>4, <2>1, EmptyFacts DEF OrganizedNow, Organized, AreBlocks
<1>6. Accounted
  BY <1>1, <1>2 DEF Accounted, NothingLeaked
<1>7. OneSpareChunk
  BY <1>3, TopBlock, EmptyFacts DEF OneSpareChunk, InList
<1>8. Limited
  <2>1. 0 * PageSize = 0 /\ AllocLimit - 0 = AllocLimit
    BY LimitFacts
  <2>2. AllocLimit % Modulus = AllocLimit
    BY Fits, LimitFacts
  <2> QED BY <2>1, <2>2, LimitFacts DEF Limited, LimitRespected
<1>9. TypeOK
  BY <1>4, <1>6, <1>8 DEF TypeOK, Accounted, Limited
<1> QED BY <1>5, <1>6, <1>7, <1>8, <1>9 DEF IInv

\* The lists, the bitmaps, the meta words, the map and the counters agree
\* after any sequence of alloc, free and the destructor.
THEOREM IInvInvariant == Spec => []IInv
<1>1. IInv /\ [Next]_vars => IInv'
  <2> SUFFICES ASSUME IInv, [Next]_vars PROVE IInv'
    OBVIOUS
  <2>1. ASSUME NEW size \in RequestSizes, AllocFromFreeBlock(size) PROVE IInv'
    BY <2>1, FreeBlockKeeps
  <2>2. ASSUME NEW size \in RequestSizes, NEW m \in Meta, NEW c \in Chunk,
               AllocFromNewChunk(size, m, c)
        PROVE  IInv'
    BY <2>2, NewChunkKeeps
  <2>3. ASSUME NEW size \in RequestSizes, NEW m \in Meta, AllocChunkRefused(size, m) PROVE IInv'
    BY <2>3, RefusedKeeps
  <2>4. ASSUME NEW b \in allocated, Free(b[1], b[2], b[3]) PROVE IInv'
    BY <2>4, FreeKeeps
  <2>5. CASE Destroy
    BY <2>5, DestroyKeeps
  <2>6. CASE UNCHANGED vars
    BY <2>6 DEF vars, IInv, TypeOK, OrganizedNow, Organized, Accounted, NothingLeaked,
                LiveChunks, OneSpareChunk, InList, Limited, LimitRespected, IsLinked
  <2> QED BY <2>1, <2>2, <2>3, <2>4, <2>5, <2>6 DEF Next, Alloc
<1> QED BY <1>1, InitIInv, PTL DEF Spec
-----------------------------------------------------------------------------
(* The properties *)

\* For any limit m_alloc_limit is what is left of it, as an unsigned number,
\* and a limit of whole chunks is never exceeded; the other limits do wrap and
\* then bound nothing (BuddyManager.cpp:58,173).
THEOREM LimitRespectedAlways == Spec => []LimitRespected
<1>1. IInv => LimitRespected
  BY DEF IInv, Limited
<1> QED BY <1>1, IInvInvariant, PTL

\* No memory of the supplier is lost or kept without need, and the destructor
\* gives back all of it (BuddyManager.cpp:28-73).
THEOREM ChunksAccountedAlways == Spec => []ChunksAccounted
<1>1. IInv => ChunksAccounted
  BY DEF IInv, Accounted, ChunksAccounted
<1> QED BY <1>1, IInvInvariant, PTL

\* A block is in the list of its class exactly when its bit says free and the
\* block it is half of is split, and the meta words of the listed blocks are
\* those of their chunks (BuddyManager.cpp:111-161).
THEOREM FreeSpaceListedAlways == Spec => []FreeSpaceListed
<1>1. IInv => FreeSpaceListed
  <2> SUFFICES ASSUME IInv, alive PROVE ListsMatchBitmap /\ ListedMetaValid
    BY DEF IInv, FreeSpaceListed, ListsMatchBitmap, ListedMetaValid
  <2>1. /\ Organized(m_freelist, node_meta, bitmap, m_chunk_meta_map, allocated)
        /\ LiveChunks = Live(m_chunk_meta_map)
        /\ \A c \in LiveChunks : /\ m_managed_chunk[m_chunk_meta_map[c]] = c
                                 /\ m_chunk_meta_map[c] # Null
        /\ AreBlocks(allocated)
    BY DEF IInv, OrganizedNow, Organized, Accounted, LiveChunks, Live
  <2>2. ASSUME NEW s \in SizeClass
        PROVE  /\ NoRepeat(m_freelist[s])
               /\ InList(s) \subseteq LiveChunks \X OffsetsOf(s)
               /\ \A n \in InList(s) : /\ node_meta[n] # Null
                                       /\ node_meta[n] = m_chunk_meta_map[n[1]]
                                       /\ m_managed_chunk[node_meta[n]] = n[1]
    <3>1. NoRepeat(m_freelist[s])
      BY <2>1, ListedFacts
    <3>2. ASSUME NEW n \in InList(s)
          PROVE  /\ n = <<n[1], n[2]>> /\ n[1] \in LiveChunks /\ n[2] \in OffsetsOf(s)
                 /\ node_meta[n] = m_chunk_meta_map[n[1]]
      BY <2>1, ListedFacts DEF InList
    <3>3. InList(s) \subseteq LiveChunks \X OffsetsOf(s)
      BY <3>2
    <3> QED BY <2>1, <3>1, <3>2, <3>3
  <2>3. ASSUME NEW s \in SizeClass, NEW c \in LiveChunks, NEW o \in OffsetsOf(s)
        PROVE  <<c, o>> \in InList(s) <=>
                 /\ ~Used(bitmap[m_chunk_meta_map[c]], o, s)
                 /\ s # TopClass =>
                      /\ Used(bitmap[m_chunk_meta_map[c]], EnclosingBlock(o, s + 1), s + 1)
                      /\ <<c, EnclosingBlock(o, s + 1), get_size(s + 1)>> \notin allocated
    <3>1. c \in Chunk /\ o \in Cell /\ <<c, o>> \in Node
      BY CellFacts DEF LiveChunks, Node
    <3>2. <<c, o>> \in InList(s) <=>
            Linked(bitmap[m_chunk_meta_map[c]], Owned(allocated, c), o, s)
      BY <2>1, <3>1 DEF Organized, IsLinked, InList
    <3>3. s # TopClass =>
            (<<EnclosingBlock(o, s + 1), s + 1>> \in Owned(allocated, c) <=>
               <<c, EnclosingBlock(o, s + 1), get_size(s + 1)>> \in allocated)
      <4>1. s # TopClass => s + 1 \in SizeClass /\ EnclosingBlock(o, s + 1) \in Cell
        BY Neighbours, EnclosesItself, EnclosingFacts, CellFacts
      <4> QED BY <2>1, <4>1, OwnedFacts
    <3> QED BY <3>2, <3>3 DEF Linked, Split
  <2>4. ListsMatchBitmap
    <3>1. ASSUME NEW s \in SizeClass
          PROVE  \A i, j \in 1..Len(m_freelist[s]) : m_freelist[s][i] = m_freelist[s][j] => i = j
      BY <2>2 DEF NoRepeat
    <3>2. ASSUME NEW s \in SizeClass, NEW c \in LiveChunks, NEW o \in OffsetsOf(s)
          PROVE  <<c, o>> \in InList(s) <=>
                   /\ block_is_free(bitmap[m_chunk_meta_map[c]], o, s)
                   /\ s # TopClass =>
                        /\ ~block_is_free(bitmap[m_chunk_meta_map[c]], EnclosingBlock(o, s + 1), s + 1)
                        /\ <<c, EnclosingBlock(o, s + 1), get_size(s + 1)>> \notin allocated
      <4>1. \A x, t : block_is_free(bitmap[m_chunk_meta_map[c]], x, t) <=>
                       ~Used(bitmap[m_chunk_meta_map[c]], x, t)
        BY DEF Used, block_is_free
      <4> QED BY <2>3, <4>1
    <3> QED BY <2>2, <3>1, <3>2 DEF ListsMatchBitmap
  <2>5. ListedMetaValid
    BY <2>2 DEF ListedMetaValid
  <2> QED BY <2>4, <2>5
<1> QED BY <1>1, IInvInvariant, PTL

\* The block o of class s of chunk c is free and listed, or handed out.
ChunkBlock(c, o, s) ==
  /\ c \in LiveChunks /\ s \in SizeClass /\ o \in OffsetsOf(s)
  /\ Block(bitmap[m_chunk_meta_map[c]], Owned(allocated, c), o, s)

\* The cells of a block are those that it encloses.
LEMMA CellsFacts ==
  ASSUME NEW c, NEW s \in SizeClass, NEW o \in OffsetsOf(s)
  PROVE  /\ \A y : y \in CellsOf(c, o, get_size(s)) <=>
                     \E v \in Cell : y = <<c, v>> /\ EnclosingBlock(v, s) = o
         /\ <<c, o>> \in CellsOf(c, o, get_size(s))
<1>1. \A v \in Cell : o <= v /\ v < o + get_size(s) <=> EnclosingBlock(v, s) = o
  BY CellFacts, EnclosingFacts
<1>2. o \in Cell /\ EnclosingBlock(o, s) = o
  BY CellFacts, EnclosesItself
<1> QED BY <1>1, <1>2 DEF CellsOf

\* Clients' blocks and listed blocks are the blocks of the chunks' trees.
LEMMA BlockFacts ==
  ASSUME OrganizedNow
  PROVE  /\ \A b \in allocated : /\ b = <<b[1], b[2], get_size(get_sizeclass(b[3]))>>
                                 /\ b[3] = get_size(get_sizeclass(b[3]))
                                 /\ ChunkBlock(b[1], b[2], get_sizeclass(b[3]))
         /\ \A s \in SizeClass : \A n \in InList(s) : ChunkBlock(n[1], n[2], s)
         /\ \A c, o, s : ChunkBlock(c, o, s) =>
              <<c, o, get_size(s)>> \in allocated \/ <<c, o>> \in InList(s)
<1>1. /\ Organized(m_freelist, node_meta, bitmap, m_chunk_meta_map, allocated)
      /\ AreBlocks(allocated) /\ LiveChunks = Live(m_chunk_meta_map)
      /\ \A b \in allocated : b[1] \in LiveChunks
      /\ \A c \in LiveChunks : Tree(bitmap[m_chunk_meta_map[c]], Owned(allocated, c))
  BY DEF OrganizedNow, Organized, LiveChunks, Live
<1>2. ASSUME NEW b \in allocated
      PROVE  /\ b = <<b[1], b[2], get_size(get_sizeclass(b[3]))>>
             /\ b[3] = get_size(get_sizeclass(b[3]))
             /\ ChunkBlock(b[1], b[2], get_sizeclass(b[3]))
  <2>1. /\ b = <<b[1], b[2], b[3]>> /\ b[1] \in LiveChunks
        /\ get_sizeclass(b[3]) \in SizeClass
        /\ get_size(get_sizeclass(b[3])) = b[3]
        /\ <<b[2], get_sizeclass(b[3])>> \in Owned(allocated, b[1])
    BY <1>1, OwnedFacts
  <2>2. b[2] \in OffsetsOf(get_sizeclass(b[3]))
    BY <1>1, <2>1 DEF Tree
  <2> QED BY <2>1, <2>2 DEF ChunkBlock, Block
<1>3. ASSUME NEW s \in SizeClass, NEW n \in InList(s) PROVE ChunkBlock(n[1], n[2], s)
  BY <1>1, ListedFacts DEF InList, ChunkBlock, Block, IsLinked
<1>4. ASSUME NEW c, NEW o, NEW s, ChunkBlock(c, o, s)
      PROVE  <<c, o, get_size(s)>> \in allocated \/ <<c, o>> \in InList(s)
  <2>1. c \in LiveChunks /\ s \in SizeClass /\ o \in OffsetsOf(s) /\ o \in Cell /\ <<c, o>> \in Node
    BY <1>4, CellFacts DEF ChunkBlock, LiveChunks, Node
  <2>2. CASE <<o, s>> \in Owned(allocated, c)
    BY <1>1, <2>2, OwnedFacts
  <2>3. CASE Linked(bitmap[m_chunk_meta_map[c]], Owned(allocated, c), o, s)
    BY <1>1, <2>1, <2>3 DEF IsLinked, Organized, InList
  <2> QED BY <1>4, <2>2, <2>3 DEF ChunkBlock, Block
<1> QED BY <1>2, <1>3, <1>4

\* Two blocks of the chunks' trees share no memory.
LEMMA BlocksApart ==
  ASSUME OrganizedNow,
         NEW c, NEW o, NEW s, ChunkBlock(c, o, s),
         NEW d, NEW x, NEW t, ChunkBlock(d, x, t),
         NEW y, y \in CellsOf(c, o, get_size(s)), y \in CellsOf(d, x, get_size(t))
  PROVE  c = d /\ o = x /\ s = t
<1>1. /\ s \in SizeClass /\ o \in OffsetsOf(s) /\ t \in SizeClass /\ x \in OffsetsOf(t)
      /\ c \in LiveChunks
      /\ Block(bitmap[m_chunk_meta_map[c]], Owned(allocated, c), o, s)
      /\ Block(bitmap[m_chunk_meta_map[d]], Owned(allocated, d), x, t)
      /\ Tree(bitmap[m_chunk_meta_map[c]], Owned(allocated, c))
  BY DEF ChunkBlock, OrganizedNow, Organized, LiveChunks, Live
<1>2. PICK v \in Cell : y = <<c, v>> /\ EnclosingBlock(v, s) = o
  <2>1. \A z : z \in CellsOf(c, o, get_size(s)) <=>
                 \E u \in Cell : z = <<c, u>> /\ EnclosingBlock(u, s) = o
    BY <1>1, CellsFacts
  <2> QED BY <2>1
<1>3. PICK w \in Cell : y = <<d, w>> /\ EnclosingBlock(w, t) = x
  <2>1. \A z : z \in CellsOf(d, x, get_size(t)) <=>
                 \E u \in Cell : z = <<d, u>> /\ EnclosingBlock(u, t) = x
    BY <1>1, CellsFacts
  <2> QED BY <2>1
<1>4. c = d /\ v = w /\ v \in Units
  BY <1>2, <1>3, CellFacts
<1>5. s = t
  BY <1>1, <1>2, <1>3, <1>4, TreeTiles
<1> QED BY <1>2, <1>3, <1>4, <1>5

\* Every cell of a live chunk is in a block of the chunk's tree.
LEMMA CellCovered ==
  ASSUME OrganizedNow, NEW c \in LiveChunks, NEW v \in Cell
  PROVE  \E o, s : ChunkBlock(c, o, s) /\ <<c, v>> \in CellsOf(c, o, get_size(s))
<1>1. Tree(bitmap[m_chunk_meta_map[c]], Owned(allocated, c)) /\ v \in Units
  BY CellFacts DEF OrganizedNow, Organized, LiveChunks, Live
<1>2. PICK s \in SizeClass :
        Block(bitmap[m_chunk_meta_map[c]], Owned(allocated, c), EnclosingBlock(v, s), s)
  BY <1>1, TreeTiles
<1>3. EnclosingBlock(v, s) \in OffsetsOf(s)
  BY <1>1, EnclosingFacts
<1>4. <<c, v>> \in CellsOf(c, EnclosingBlock(v, s), get_size(s))
  BY <1>3, CellsFacts
<1> QED BY <1>2, <1>3, <1>4 DEF ChunkBlock

\* Free blocks and clients' blocks tile every chunk, whatever was split and
\* merged before: no memory is handed out twice and none is lost.
THEOREM MemoryTiledAlways == Spec => []MemoryTiled
<1>1. ASSUME IInv, alive PROVE MemoryTiled
  <2> DEFINE blocks == {<<b[1], b[2], b[3]>> : b \in allocated}
               \cup UNION {{<<n[1], n[2], get_size(szc)>> : n \in InList(szc)} : szc \in SizeClass}
  <2>1. OrganizedNow
    BY <1>1 DEF IInv
  <2>2. ASSUME NEW b \in blocks
        PROVE  \E c, o, s : ChunkBlock(c, o, s) /\ b = <<c, o, get_size(s)>>
    <3>1. CASE b \in {<<n[1], n[2], n[3]>> : n \in allocated}
      <4>1. PICK n \in allocated : b = <<n[1], n[2], n[3]>>
        BY <3>1
      <4> QED BY <2>1, <4>1, BlockFacts
    <3>2. CASE b \notin {<<n[1], n[2], n[3]>> : n \in allocated}
      <4>1. PICK s \in SizeClass : b \in {<<n[1], n[2], get_size(s)>> : n \in InList(s)}
        BY <3>2
      <4>2. PICK n \in InList(s) : b = <<n[1], n[2], get_size(s)>>
        BY <4>1
      <4> QED BY <2>1, <4>2, BlockFacts
    <3> QED BY <3>1, <3>2
  <2>3. ASSUME NEW c, NEW o, NEW s, ChunkBlock(c, o, s) PROVE <<c, o, get_size(s)>> \in blocks
    <3>1. CASE <<c, o, get_size(s)>> \in allocated
      <4> DEFINE b == <<c, o, get_size(s)>>
      <4>1. b = <<b[1], b[2], b[3]>> /\ b \in allocated
        BY <3>1
      <4> QED BY <4>1
    <3>2. CASE <<c, o>> \in InList(s)
      <4> DEFINE n == <<c, o>>
      <4>1. n \in InList(s) /\ <<c, o, get_size(s)>> = <<n[1], n[2], get_size(s)>>
        BY <3>2
      <4>2. <<c, o, get_size(s)>> \in {<<k[1], k[2], get_size(s)>> : k \in InList(s)}
        BY <4>1
      <4>3. s \in SizeClass
        BY <2>3 DEF ChunkBlock
      <4> QED BY <4>2, <4>3
    <3> QED BY <2>1, <2>3, <3>1, <3>2, BlockFacts
  <2> HIDE DEF blocks
  <2>4. ASSUME NEW b \in blocks, NEW y \in CellsOf(b[1], b[2], b[3]) PROVE y \in LiveChunks \X Cell
    <3>1. PICK c, o, s : ChunkBlock(c, o, s) /\ b = <<c, o, get_size(s)>>
      BY <2>2
    <3>2. y \in CellsOf(c, o, get_size(s))
      BY <2>4, <3>1
    <3> QED BY <3>1, <3>2 DEF ChunkBlock, CellsOf
  <2>5. ASSUME NEW y \in LiveChunks \X Cell PROVE \E b \in blocks : y \in CellsOf(b[1], b[2], b[3])
    <3>1. PICK c \in LiveChunks, v \in Cell : y = <<c, v>>
      OBVIOUS
    <3>2. PICK o, s : ChunkBlock(c, o, s) /\ <<c, v>> \in CellsOf(c, o, get_size(s))
      BY <2>1, CellCovered
    <3>3. <<c, o, get_size(s)>> \in blocks
      BY <2>3, <3>2
    <3> QED BY <3>1, <3>2, <3>3
  <2>6. UNION {CellsOf(b[1], b[2], b[3]) : b \in blocks} = LiveChunks \X Cell
    BY <2>4, <2>5
  <2>7. ASSUME NEW a \in blocks, NEW b \in blocks, a # b,
               NEW y, y \in CellsOf(a[1], a[2], a[3]), y \in CellsOf(b[1], b[2], b[3])
        PROVE  FALSE
    <3>1. PICK c, o, s : ChunkBlock(c, o, s) /\ a = <<c, o, get_size(s)>>
      BY <2>2
    <3>2. PICK d, x, t : ChunkBlock(d, x, t) /\ b = <<d, x, get_size(t)>>
      BY <2>2
    <3>3. y \in CellsOf(c, o, get_size(s)) /\ y \in CellsOf(d, x, get_size(t))
      BY <2>7, <3>1, <3>2
    <3>4. c = d /\ o = x /\ s = t
      BY <2>1, <3>1, <3>2, <3>3, BlocksApart
    <3> QED BY <2>7, <3>1, <3>2, <3>4
  <2>8. \A a, b \in blocks : a # b => CellsOf(a[1], a[2], a[3]) \cap CellsOf(b[1], b[2], b[3]) = {}
    BY <2>7
  <2> QED BY <2>6, <2>8 DEF MemoryTiled, blocks
<1>2. IInv => MemoryTiled
  BY <1>1 DEF MemoryTiled
<1> QED BY <1>2, IInvInvariant, PTL

\* Whenever an aligned range of a size is free, alloc serves that size without
\* a new chunk (BuddyManager.cpp:150-156).
THEOREM FreeRangeIsFoundAlways == Spec => []FreeRangeIsFound
<1>1. ASSUME IInv, alive, NEW s \in SizeClass, NEW c \in LiveChunks, NEW o \in OffsetsOf(s),
             \A b \in allocated : CellsOf(c, o, get_size(s)) \cap CellsOf(b[1], b[2], b[3]) = {}
      PROVE  CanAlloc(m_freelist, s)
  <2> DEFINE B == bitmap[m_chunk_meta_map[c]]
             W == Owned(allocated, c)
  <2>1. /\ Organized(m_freelist, node_meta, bitmap, m_chunk_meta_map, allocated)
        /\ c \in Live(m_chunk_meta_map) /\ c \in Chunk /\ AreBlocks(allocated) /\ Tree(B, W)
    BY <1>1 DEF IInv, OrganizedNow, Organized, LiveChunks, Live
  <2>2. ASSUME NEW t \in SizeClass, NEW x \in OffsetsOf(t), <<x, t>> \in W
        PROVE  /\ t <= s => EnclosingBlock(x, s) # o
               /\ s <= t => EnclosingBlock(o, t) # x
    <3>1. <<c, x, get_size(t)>> \in allocated
      BY <2>1, <2>2, OwnedFacts
    <3>2. CellsOf(c, o, get_size(s)) \cap CellsOf(c, x, get_size(t)) = {}
      BY <1>1, <3>1
    <3>3. x \in Cell /\ o \in Cell
      BY CellFacts
    <3>4. <<c, x>> \in CellsOf(c, x, get_size(t)) /\ <<c, o>> \in CellsOf(c, o, get_size(s))
      BY CellsFacts
    <3>5. EnclosingBlock(x, s) = o => <<c, x>> \in CellsOf(c, o, get_size(s))
      BY <3>3, CellsFacts
    <3>6. EnclosingBlock(o, t) = x => <<c, o>> \in CellsOf(c, x, get_size(t))
      BY <3>3, CellsFacts
    <3> QED BY <3>2, <3>4, <3>5, <3>6
  <2> HIDE DEF B, W
  <2>3. PICK l \in SizeClass : s <= l /\ Linked(B, W, EnclosingBlock(o, l), l)
    BY <2>1, <2>2, FreeFound
  <2> DEFINE e == EnclosingBlock(o, l)
  <2>4. e \in OffsetsOf(l) /\ e \in Cell /\ <<c, e>> \in Node
    BY <2>1, EnclosesItself, EnclosingFacts, CellFacts DEF Node
  <2>5. IsLinked(bitmap, m_chunk_meta_map, allocated, <<c, e>>, l)
    BY <2>1, <2>3, <2>4 DEF IsLinked, B, W
  <2>6. <<c, e>> \in Range(m_freelist[l])
    BY <2>1, <2>4, <2>5 DEF Organized
  <2>7. m_freelist[l] # <<>>
    BY <2>6, EmptyFacts
  <2> QED BY <2>3, <2>7, CanAllocFacts
<1>2. IInv => FreeRangeIsFound
  BY <1>1 DEF FreeRangeIsFound
<1> QED BY <1>2, IInvInvariant, PTL

\* Each client block has memory, and no two share any.
ClientsApart ==
  /\ \A b \in allocated : CellsOf(b[1], b[2], b[3]) # {}
  /\ \A b, d \in allocated :
       b # d => CellsOf(b[1], b[2], b[3]) \cap CellsOf(d[1], d[2], d[3]) = {}

\* No memory is ever two clients' at once.
THEOREM ClientsApartAlways == Spec => []ClientsApart
<1>1. ASSUME IInv, allocated # {} PROVE ClientsApart
  <2>1. OrganizedNow
    <3>1. alive => OrganizedNow
      BY <1>1 DEF IInv
    <3>2. alive
      BY <1>1 DEF IInv
    <3> QED BY <3>1, <3>2
  <2>2. ASSUME NEW b \in allocated
        PROVE  /\ b = <<b[1], b[2], b[3]>> /\ ChunkBlock(b[1], b[2], get_sizeclass(b[3]))
               /\ b[3] = get_size(get_sizeclass(b[3]))
    <3>1. b[3] = get_size(get_sizeclass(b[3])) /\ b = <<b[1], b[2], get_size(get_sizeclass(b[3]))>>
      BY <2>1, BlockFacts
    <3>2. ChunkBlock(b[1], b[2], get_sizeclass(b[3]))
      BY <2>1, BlockFacts
    <3> QED BY <3>1, <3>2
  <2>3. ASSUME NEW b \in allocated PROVE CellsOf(b[1], b[2], b[3]) # {}
    BY <2>2, CellsFacts DEF ChunkBlock
  <2>4. ASSUME NEW b \in allocated, NEW d \in allocated, b # d,
               NEW y, y \in CellsOf(b[1], b[2], b[3]), y \in CellsOf(d[1], d[2], d[3])
        PROVE  FALSE
    <3>1. /\ y \in CellsOf(b[1], b[2], get_size(get_sizeclass(b[3])))
          /\ y \in CellsOf(d[1], d[2], get_size(get_sizeclass(d[3])))
      BY <2>2, <2>4
    <3>2. b[1] = d[1] /\ b[2] = d[2] /\ get_sizeclass(b[3]) = get_sizeclass(d[3])
      BY <2>1, <2>2, <3>1, BlocksApart
    <3>3. b[3] = d[3]
      BY <2>2, <3>2
    <3>4. b = <<b[1], b[2], b[3]>> /\ d = <<d[1], d[2], d[3]>>
      BY <2>2
    <3> QED BY <2>4, <3>2, <3>3, <3>4
  <2> QED BY <2>3, <2>4 DEF ClientsApart
<1>2. IInv => ClientsApart
  BY <1>1 DEF ClientsApart
<1> QED BY <1>2, IInvInvariant, PTL

\* The memory clients have, as the abstract pool sees it.
ClientMemory == {CellsOf(b[1], b[2], b[3]) : b \in allocated}

\* Each step hands out memory no client has, takes back a block, closes the
\* allocator, or changes nothing clients see.
LEMMA PoolStep ==
  ASSUME IInv, ClientsApart, ClientsApart', [Next]_vars
  PROVE  [Pool!BNext]_ClientMemory
<1> DEFINE cells(b) == CellsOf(b[1], b[2], b[3])
<1>1. ASSUME NEW size \in RequestSizes, NEW c \in Chunk, NEW o \in Cell,
             <<c, o, size>> \notin allocated,
             allocated' = allocated \cup {<<c, o, size>>}
      PROVE  Pool!BNext
  <2> DEFINE n == <<c, o, size>>
             block == CellsOf(c, o, size)
  <2>1. cells(n) = block /\ n \in allocated'
    BY <1>1
  <2>2. block # {}
    BY <2>1 DEF ClientsApart
  <2>3. \A b \in allocated : cells(b) \cap block = {}
    <3>1. \A b \in allocated : b \in allocated' /\ b # n
      BY <1>1
    <3> QED BY <2>1, <3>1 DEF ClientsApart
  <2>4. block \cap UNION ClientMemory = {}
    BY <2>3 DEF ClientMemory
  <2>5. ClientMemory' = ClientMemory \cup {block}
    BY <1>1, <2>1 DEF ClientMemory
  <2>6. block \in AllBlocks
    BY DEF AllBlocks
  <2> HIDE DEF block
  <2>7. Pool!BAlloc(block)
    BY <2>2, <2>4, <2>5 DEF Pool!BAlloc, ClientMemory
  <2> QED BY <2>6, <2>7 DEF Pool!BNext
<1>2. ASSUME NEW b \in allocated, Free(b[1], b[2], b[3]) PROVE Pool!BNext
  <2>1. b \in Chunk \X Cell \X RequestSizes
    BY DEF IInv, TypeOK
  <2>2. b = <<b[1], b[2], b[3]>> /\ b[1] \in Chunk /\ b[2] \in Cell /\ b[3] \in RequestSizes
    BY <2>1
  <2>3. allocated' = allocated \ {b}
    BY <1>2, <2>2 DEF Free
  <2>4. \A d \in allocated : d # b => cells(d) # cells(b)
    BY DEF ClientsApart
  <2>5. ClientMemory' = ClientMemory \ {cells(b)} /\ cells(b) \in ClientMemory
    BY <2>3, <2>4 DEF ClientMemory
  <2>6. cells(b) \in AllBlocks
    BY <2>2 DEF AllBlocks
  <2> HIDE DEF cells
  <2>7. Pool!BFree(cells(b))
    BY <2>5 DEF Pool!BFree, ClientMemory
  <2> QED BY <2>6, <2>7 DEF Pool!BNext
<1>3. ASSUME Destroy PROVE Pool!BNext
  BY <1>3 DEF Destroy, Pool!BNext, Pool!BClose
<1>4. ASSUME NEW size \in RequestSizes, Alloc(size) PROVE Pool!BNext \/ UNCHANGED ClientMemory
  <2>1. CASE AllocFromFreeBlock(size)
    BY <1>1, <2>1, FreeBlockKeeps
  <2>2. ASSUME NEW m \in Meta, NEW c \in Chunk, AllocFromNewChunk(size, m, c) PROVE Pool!BNext
    <3>1. 0 \in Cell /\ allocated' = allocated \cup {<<c, 0, size>>}
      BY <2>2, TopBlock, CellFacts DEF AllocFromNewChunk
    <3>2. <<c, 0, size>> \notin allocated
      BY <2>2, NewChunkKeeps
    <3> QED BY <1>1, <3>1, <3>2
  <2>3. ASSUME NEW m \in Meta, AllocChunkRefused(size, m) PROVE UNCHANGED ClientMemory
    BY <2>3 DEF AllocChunkRefused, ClientMemory
  <2> QED BY <1>4, <2>1, <2>2, <2>3 DEF Alloc
<1>5. CASE UNCHANGED vars
  BY <1>5 DEF vars, ClientMemory
<1> QED BY <1>2, <1>3, <1>4, <1>5 DEF Next

\* The allocator implements the abstract pool: what alloc hands out is memory
\* no client has, and only free and the destructor take it back.
THEOREM ImplementsBlockPool == Spec => IsBlockPool
<1>1. Init => Pool!BInit
  BY DEF Init, Pool!BInit
<1>2. IInv /\ ClientsApart /\ ClientsApart' /\ [Next]_vars => [Pool!BNext]_ClientMemory
  BY PoolStep
<1> QED BY <1>1, <1>2, IInvInvariant, ClientsApartAlways, PTL DEF Spec, IsBlockPool, Pool!BSpec, ClientMemory
=============================================================================
