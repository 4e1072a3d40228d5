-------------------------- MODULE StructuresProofs --------------------------
(***************************************************************************)
(* Proofs about the sequential structures under both allocators.  The      *)
(* intrusive lists are sequences, for any set of nodes and whatever is     *)
(* written over those not listed: the list of free buddy blocks and the    *)
(* circular list of pages of include/Utility/IList.h, and the list of      *)
(* partly used spans of rpmalloc.c.  Linear probing finds every entry of   *)
(* the hash map, through every iteration of erase and of resize, for any   *)
(* keys and any table that TableAssumption allows (a power of two of       *)
(* buckets with room for one entry; the constructor takes others too);     *)
(* resize needs no second resize; and the table implements the partial     *)
(* map.                                                                    *)
(***************************************************************************)
EXTENDS PointerHashMap, ForwardList, List, SpanList, StandAloneBuddyManager,
        BuddyManagerMetaProofs, SequenceFacts, FiniteSetTheorems, TLAPS
-----------------------------------------------------------------------------
(* ForwardList *)

ForwardIInv == ForwardTypeOK /\ ForwardListIntact

\* Positions of the content have nodes, all different, with End around them.
LEMMA ForwardAtFacts ==
  ASSUME ForwardIInv
  PROVE  /\ Len(content) \in Nat
         /\ \A i \in Int : At(content, i) \in Address
         /\ \A i \in 1..Len(content) : /\ At(content, i) = content[i]
                                       /\ content[i] \in Node
                                       /\ content[i] # End
         /\ At(content, 0) = End
         /\ At(content, Len(content) + 1) = End
         /\ m_head = At(content, 1)
<1>1. content \in Seq(Node) /\ m_head = At(content, 1)
  BY DEF ForwardIInv, ForwardTypeOK, ForwardListIntact, Chained
<1>2. \A i \in 1..Len(content) : content[i] \in Node
  BY <1>1
<1>3. Len(content) \in Nat
  BY <1>1
<1> QED BY <1>1, <1>2, <1>3, EndAssumption DEF At, Address

\* A list starts empty.
LEMMA ForwardStart == ForwardInit => ForwardIInv
<1> SUFFICES ASSUME ForwardInit PROVE ForwardIInv
  OBVIOUS
<1>1. ForwardTypeOK
  BY GarbageAssumption DEF ForwardInit, ForwardTypeOK, Address
<1>2. Distinct(content) /\ Chained
  BY DEF ForwardInit, Distinct, Chained, At
<1> QED BY <1>1, <1>2 DEF ForwardIInv, ForwardListIntact

\* A node that is pushed is linked before the old first one.
LEMMA PushKeeps ==
  ASSUME ForwardIInv, NEW n \in Node, push(n)
  PROVE  ForwardIInv'
<1> DEFINE m == Len(content)
<1>1. /\ content' \in Seq(Node) /\ m \in Nat /\ Len(content') = m + 1 /\ content'[1] = n
      /\ \A i \in 2..(m + 1) : content'[i] = content[i - 1]
  <2>1. content' = <<n>> \o content /\ content \in Seq(Node)
    BY DEF push, ForwardIInv, ForwardTypeOK
  <2> QED BY <2>1, ConsFacts
<1>2. \A i \in 1..m : content[i] # n /\ content[i] \in Node /\ content[i] # End
  BY ForwardAtFacts DEF push, Listed
<1>3. Distinct(content')
  BY <1>1, <1>2 DEF Distinct, ForwardIInv, ForwardListIntact
<1>4. ForwardTypeOK'
  <2>1. m_head \in Address /\ next \in [Node -> Address] /\ prev \in [Node -> Address]
    BY DEF ForwardIInv, ForwardTypeOK
  <2> QED BY <2>1, <1>1 DEF ForwardTypeOK, push, Address
<1>5. /\ At(content, 1)' = n
      /\ \A i \in 2..(m + 2) : At(content, i)' = At(content, i - 1)
      /\ At(content, 0)' = End
  BY <1>1 DEF At
<1>6. /\ m_head' = n
      /\ next' = [next EXCEPT ![n] = m_head]
      /\ prev' = [x \in Node |-> IF x = n THEN End ELSE IF x = m_head THEN n ELSE prev[x]]
      /\ next \in [Node -> Address]
  BY DEF push, ForwardIInv, ForwardTypeOK
<1>7. m_head = At(content, 1)
  BY ForwardAtFacts
<1>8. ASSUME NEW i \in 1..Len(content')
      PROVE  /\ next'[content'[i]] = At(content, i + 1)'
             /\ prev'[content'[i]] = At(content, i - 1)'
  <2>1. CASE i = 1
    <3>1. At(content, 2)' = At(content, 1)
      BY <1>1, <1>5
    <3> QED BY <2>1, <3>1, <1>1, <1>5, <1>6, <1>7
  <2>2. CASE i # 1
    <3>1. /\ i - 1 \in 1..m /\ i \in 2..(m + 1) /\ i + 1 \in 2..(m + 2) /\ (i + 1) - 1 = i
          /\ (i - 1) + 1 = i
      BY <2>2, <1>1
    <3>2. content'[i] = content[i - 1] /\ content[i - 1] # n /\ content[i - 1] \in Node
      BY <3>1, <1>1, <1>2
    <3>3. /\ next[content[i - 1]] = At(content, i)
          /\ prev[content[i - 1]] = At(content, (i - 1) - 1)
      BY <3>1 DEF ForwardIInv, ForwardListIntact, Chained
    <3>4. At(content, i + 1)' = At(content, i)
      BY <3>1, <1>5
    <3>5. CASE i = 2
      <4>1. content[i - 1] = m_head
        BY <3>5, <3>1, <1>7 DEF At
      <4> QED BY <4>1, <3>2, <3>3, <3>4, <3>5, <1>5, <1>6
    <3>6. CASE i # 2
      <4>1. i - 1 \in 2..(m + 2) /\ 1 \in 1..m /\ i - 1 # 1
        BY <3>1, <3>6, <1>1
      <4>2. content[i - 1] # m_head
        BY <4>1, <3>1, <1>7 DEF At, ForwardIInv, ForwardListIntact, Distinct
      <4>3. At(content, i - 1)' = At(content, (i - 1) - 1)
        BY <4>1, <1>5
      <4> QED BY <4>2, <4>3, <3>2, <3>3, <3>4, <1>6
    <3> QED BY <3>5, <3>6
  <2> QED BY <2>1, <2>2
<1> QED BY <1>3, <1>4, <1>5, <1>6, <1>8 DEF ForwardIInv, ForwardListIntact, Chained

\* The node after the first becomes the first.
LEMMA PopKeeps ==
  ASSUME ForwardIInv, pop
  PROVE  ForwardIInv'
<1> DEFINE m == Len(content)
<1>1. content # <<>>
  BY ForwardAtFacts DEF pop, At
<1>2. /\ content' \in Seq(Node) /\ m \in Nat \ {0} /\ Len(content') = m - 1
      /\ \A i \in 1..(m - 1) : content'[i] = content[i + 1]
  <2>1. content' = Tail(content) /\ content \in Seq(Node)
    BY DEF pop, ForwardIInv, ForwardTypeOK
  <2> QED BY <1>1, <2>1, TailFacts
<1>3. /\ \A i \in 1..m : content[i] \in Node /\ content[i] # End
      /\ m_head = content[1]
  BY <1>2, ForwardAtFacts DEF At
<1>4. next[m_head] = At(content, 2)
  BY <1>2, <1>3 DEF ForwardIInv, ForwardListIntact, Chained
<1>5. Distinct(content')
  BY <1>2 DEF Distinct, ForwardIInv, ForwardListIntact
<1>6. /\ \A i \in 1..m : At(content, i)' = At(content, i + 1)
      /\ At(content, 0)' = End
  BY <1>2 DEF At
<1>7. /\ m_head' = next[m_head] /\ next' = next
      /\ prev' = [x \in Node |-> IF x = next[m_head] THEN End ELSE prev[x]]
  BY DEF pop, PrevAfterPop
<1>8. ForwardTypeOK'
  <2>1. m_head \in Node /\ next \in [Node -> Address] /\ prev \in [Node -> Address]
    BY <1>2, <1>3 DEF ForwardIInv, ForwardTypeOK
  <2> QED BY <2>1, <1>2, <1>7 DEF ForwardTypeOK, Address
<1>9. m_head' = At(content, 1)'
  BY <1>2, <1>4, <1>6, <1>7
<1>10. ASSUME NEW i \in 1..Len(content')
       PROVE  /\ next'[content'[i]] = At(content, i + 1)'
              /\ prev'[content'[i]] = At(content, i - 1)'
  <2>1. /\ i + 1 \in 1..m /\ i \in 1..m /\ i - 1 \in 0..m /\ 2 \in 1..m
        /\ (i + 1) - 1 = i
    BY <1>2
  <2>2. content'[i] = content[i + 1] /\ content[i + 1] \in Node
    BY <1>2, <1>3, <2>1
  <2>3. /\ next[content[i + 1]] = At(content, (i + 1) + 1)
        /\ prev[content[i + 1]] = At(content, (i + 1) - 1)
    BY <2>1 DEF ForwardIInv, ForwardListIntact, Chained
  <2>4. At(content, i + 1)' = At(content, (i + 1) + 1)
    BY <2>1, <1>6
  <2>5. next[m_head] = content[2]
    BY <1>4, <2>1 DEF At
  <2>6. CASE i = 1
    <3>1. prev'[content'[i]] = End
      BY <2>2, <2>5, <2>6, <1>7
    <3> QED BY <3>1, <2>2, <2>3, <2>4, <2>6, <1>6, <1>7
  <2>7. CASE i # 1
    <3>1. content[i + 1] # content[2]
      BY <2>1, <2>7 DEF ForwardIInv, ForwardListIntact, Distinct
    <3>2. At(content, i - 1)' = At(content, (i - 1) + 1)
      BY <2>1, <2>7, <1>6
    <3> QED BY <3>1, <3>2, <2>1, <2>2, <2>3, <2>4, <2>5, <1>7
  <2> QED BY <2>6, <2>7
<1> QED BY <1>5, <1>8, <1>9, <1>10 DEF ForwardIInv, ForwardListIntact, Chained

\* The neighbours of a removed inner node become each other's.
LEMMA RemoveInnerKeeps ==
  ASSUME ForwardIInv, NEW k \in 1..Len(content), m_head # content[k],
         RemoveInner(content[k]), content' = RemoveAt(content, k)
  PROVE  ForwardIInv'
<1> DEFINE m == Len(content)
<1>1. /\ content' \in Seq(Node) /\ m \in Nat /\ Len(content') = m - 1
      /\ \A i \in 1..(m - 1) : content'[i] = IF i < k THEN content[i] ELSE content[i + 1]
  <2>1. content \in Seq(Node)
    BY DEF ForwardIInv, ForwardTypeOK
  <2> QED BY <2>1, RemoveAtFacts
<1>2. /\ \A i \in 1..m : content[i] \in Node /\ content[i] # End
      /\ \A i \in Int : At(content, i) \in Address
      /\ m_head = At(content, 1)
  BY ForwardAtFacts
<1>3. k \in 2..m /\ k - 1 \in 1..m
  <2>1. k # 1
    BY <1>2 DEF At
  <2> QED BY <2>1, <1>1
<1>4. /\ prev[content[k]] = content[k - 1]
      /\ next[content[k]] = At(content, k + 1)
  BY <1>1, <1>3 DEF ForwardIInv, ForwardListIntact, Chained, At
<1>5. \A i, j \in 1..m : content[i] = content[j] => i = j
  BY DEF ForwardIInv, ForwardListIntact, Distinct
<1>6. Distinct(content')
  <2> DEFINE p(i) == IF i < k THEN i ELSE i + 1
  <2>1. \A i \in 1..(m - 1) : p(i) \in 1..m /\ content'[i] = content[p(i)]
    BY <1>1
  <2>2. \A i, j \in 1..(m - 1) : p(i) = p(j) => i = j
    BY <1>1
  <2> HIDE DEF p
  <2>3. ASSUME NEW i \in 1..(m - 1), NEW j \in 1..(m - 1), content'[i] = content'[j] PROVE i = j
    <3>1. content[p(i)] = content[p(j)] /\ p(i) \in 1..m /\ p(j) \in 1..m
      BY <2>1, <2>3
    <3>2. p(i) = p(j)
      BY <1>5, <3>1
    <3> QED BY <2>2, <3>2
  <2> QED BY <2>3, <1>1 DEF Distinct
<1>7. /\ m_head' = m_head
      /\ next' = [next EXCEPT ![content[k - 1]] = At(content, k + 1)]
      /\ prev' = [x \in Node |-> IF x = At(content, k + 1) THEN content[k - 1] ELSE prev[x]]
      /\ next \in [Node -> Address]
  BY <1>4 DEF RemoveInner, ForwardIInv, ForwardTypeOK
<1>8. ForwardTypeOK'
  <2>1. m_head \in Address /\ prev \in [Node -> Address] /\ At(content, k + 1) \in Address
    BY <1>2 DEF ForwardIInv, ForwardTypeOK
  <2> QED BY <2>1, <1>1, <1>2, <1>3, <1>7 DEF ForwardTypeOK, Address
<1>9. \A i \in 0..m : At(content, i)' = IF i < k THEN At(content, i) ELSE At(content, i + 1)
  BY <1>1 DEF At
<1>10. m_head' = At(content, 1)'
  <2>1. 1 \in 0..m /\ 1 < k
    BY <1>1, <1>3
  <2>2. At(content, 1)' = At(content, 1)
    BY <2>1, <1>9
  <2> QED BY <2>2, <1>2, <1>7
<1>11. ASSUME NEW i \in 1..Len(content')
       PROVE  /\ next'[content'[i]] = At(content, i + 1)'
              /\ prev'[content'[i]] = At(content, i - 1)'
  <2>1. i \in 1..(m - 1) /\ i \in 1..m /\ i + 1 \in 1..m /\ i - 1 \in 0..m /\ i + 1 \in 0..m
    BY <1>1
  <2>2. \A j \in 1..m : /\ next[content[j]] = At(content, j + 1)
                        /\ prev[content[j]] = At(content, j - 1)
    BY DEF ForwardIInv, ForwardListIntact, Chained
  <2>3. CASE i < k - 1
    <3>1. content'[i] = content[i] /\ content[i] \in Node
      BY <2>1, <2>3, <1>1, <1>2
    <3>2. content[i] # content[k - 1] /\ content[i] # At(content, k + 1)
      BY <2>1, <2>3, <1>2, <1>3, <1>5 DEF At
    <3>3. At(content, i + 1)' = At(content, i + 1) /\ At(content, i - 1)' = At(content, i - 1)
      BY <2>1, <2>3, <1>9
    <3> QED BY <3>1, <3>2, <3>3, <2>1, <2>2, <1>7
  <2>4. CASE i = k - 1
    <3>1. content'[i] = content[k - 1] /\ content[k - 1] \in Node
      BY <2>1, <2>4, <1>1, <1>2
    <3>2. content[k - 1] # At(content, k + 1)
      BY <1>1, <1>2, <1>3, <1>5 DEF At
    <3>3. At(content, i + 1)' = At(content, k + 1) /\ At(content, i - 1)' = At(content, (k - 1) - 1)
      BY <2>1, <2>4, <1>3, <1>9
    <3> QED BY <3>1, <3>2, <3>3, <2>2, <1>3, <1>7
  <2>5. CASE i = k
    <3>1. content'[i] = content[k + 1] /\ content[k + 1] \in Node /\ At(content, k + 1) = content[k + 1]
      BY <2>1, <2>5, <1>1, <1>2 DEF At
    <3>2. content[k + 1] # content[k - 1] /\ k + 1 \in 1..m
      BY <2>1, <2>5, <1>3, <1>5
    <3>3. /\ At(content, i + 1)' = At(content, (k + 1) + 1)
          /\ At(content, i - 1)' = content[k - 1]
      BY <2>1, <2>5, <1>3, <1>9 DEF At
    <3> QED BY <3>1, <3>2, <3>3, <2>2, <1>7
  <2>6. CASE i > k
    <3>1. content'[i] = content[i + 1] /\ content[i + 1] \in Node
      BY <2>1, <2>6, <1>1, <1>2
    <3>2. content[i + 1] # content[k - 1] /\ content[i + 1] # At(content, k + 1)
      BY <2>1, <2>6, <1>2, <1>3, <1>5 DEF At
    <3>3. /\ At(content, i + 1)' = At(content, (i + 1) + 1)
          /\ At(content, i - 1)' = At(content, (i - 1) + 1)
      BY <2>1, <2>6, <1>9
    <3>4. (i + 1) - 1 = (i - 1) + 1
      BY <2>1
    <3> QED BY <3>1, <3>2, <3>3, <3>4, <2>1, <2>2, <1>7
  <2> QED BY <2>1, <2>3, <2>4, <2>5, <2>6
<1> QED BY <1>6, <1>8, <1>10, <1>11 DEF ForwardIInv, ForwardListIntact, Chained

\* Each operation, and each write of a client, keeps the invariant.
LEMMA ForwardNextKeeps == ForwardIInv /\ [ForwardNext]_forwardVars => ForwardIInv'
<1> SUFFICES ASSUME ForwardIInv, [ForwardNext]_forwardVars PROVE ForwardIInv'
  OBVIOUS
<1>1. CASE pop
  BY <1>1, PopKeeps
<1>2. CASE popAll
  <2>1. ForwardTypeOK'
    BY <1>2 DEF popAll, ForwardIInv, ForwardTypeOK, Address
  <2>2. ForwardListIntact'
    BY <1>2 DEF popAll, ForwardListIntact, Distinct, Chained, At
  <2> QED BY <2>1, <2>2 DEF ForwardIInv
<1>3. ASSUME NEW n \in Node, push(n) PROVE ForwardIInv'
  BY <1>3, PushKeeps
<1>4. ASSUME NEW n \in Node, remove(n) PROVE ForwardIInv'
  <2>1. PICK k \in 1..Len(content) :
          /\ content[k] = n
          /\ IF m_head = n THEN pop ELSE RemoveInner(n) /\ content' = RemoveAt(content, k)
    BY <1>4 DEF remove
  <2>2. CASE m_head = n
    BY <2>1, <2>2, PopKeeps
  <2>3. CASE m_head # n
    BY <2>1, <2>3, RemoveInnerKeeps
  <2> QED BY <2>2, <2>3
<1>5. ASSUME NEW n \in Node, ForwardClientWrites(n) PROVE ForwardIInv'
  <2>1. PICK x \in Garbage, y \in Garbage :
          next' = [next EXCEPT ![n] = x] /\ prev' = [prev EXCEPT ![n] = y]
    BY <1>5 DEF ForwardClientWrites
  <2>2. m_head' = m_head /\ content' = content
    BY <1>5 DEF ForwardClientWrites
  <2>3. next \in [Node -> Address] /\ prev \in [Node -> Address]
    BY DEF ForwardIInv, ForwardTypeOK
  <2>4. ForwardTypeOK'
    BY <2>1, <2>2, <2>3, GarbageAssumption DEF ForwardIInv, ForwardTypeOK
  <2>5. \A i \in 1..Len(content) : content[i] # n /\ content[i] \in Node
    BY <1>5, ForwardAtFacts DEF ForwardClientWrites, Listed
  <2>6. \A i \in 1..Len(content) : /\ next'[content[i]] = next[content[i]]
                                   /\ prev'[content[i]] = prev[content[i]]
    BY <2>1, <2>3, <2>5
  <2>7. ForwardListIntact'
    BY <2>2, <2>6 DEF ForwardIInv, ForwardListIntact, Distinct, Chained, At
  <2> QED BY <2>4, <2>7 DEF ForwardIInv
<1>6. CASE UNCHANGED forwardVars
  BY <1>6 DEF forwardVars, ForwardIInv, ForwardTypeOK, ForwardListIntact, Distinct, Chained, At
<1> QED BY <1>1, <1>2, <1>3, <1>4, <1>5, <1>6 DEF ForwardNext

\* Both chains of the list spell its content at all times, for any nodes and
\* whatever clients write over them (class ForwardList, IList.h:89-181).
THEOREM ForwardListIntactAlways == ForwardSpec => []ForwardListIntact
<1>1. ForwardIInv => ForwardListIntact
  BY DEF ForwardIInv
<1> QED BY ForwardStart, ForwardNextKeeps, <1>1, PTL DEF ForwardSpec

\* Links are always nodes or null.
THEOREM ForwardTypeCorrect == ForwardSpec => []ForwardTypeOK
<1>1. ForwardIInv => ForwardTypeOK
  BY DEF ForwardIInv
<1> QED BY ForwardStart, ForwardNextKeeps, <1>1, PTL DEF ForwardSpec
-----------------------------------------------------------------------------
(* List *)

LinkPair == [next : [Address -> Address], prev : [Address -> Address]]

NotIn(n, s) == \A i \in 1..Len(s) : s[i] # n

\* Every address on the way around is an address; on a list without
\* duplicates different positions have different addresses.
LEMMA RingAtFacts ==
  ASSUME NEW s \in Seq(Node), Distinct(s)
  PROVE  /\ Len(s) \in Nat
         /\ \A i \in Int : At(s, i) \in Address
         /\ At(s, 0) = End
         /\ At(s, Len(s) + 1) = End
         /\ \A i, j \in 0..Len(s) : At(s, i) = At(s, j) => i = j
         /\ \A i, j \in 1..(Len(s) + 1) : At(s, i) = At(s, j) => i = j
<1>1. Len(s) \in Nat
  OBVIOUS
<1>2. \A i \in 1..Len(s) : s[i] \in Node
  OBVIOUS
<1>3. \A i \in 1..Len(s) : s[i] # End
  BY <1>2, EndAssumption
<1>4. \A i \in Int : At(s, i) \in Address
  BY <1>2 DEF At, Address
<1>5. At(s, 0) = End /\ At(s, Len(s) + 1) = End
  BY <1>1 DEF At
<1>6. ASSUME NEW i \in 0..(Len(s) + 1), NEW j \in 0..(Len(s) + 1), At(s, i) = At(s, j)
      PROVE  i = j \/ (i \notin 1..Len(s) /\ j \notin 1..Len(s))
  <2>1. CASE i \in 1..Len(s) /\ j \in 1..Len(s)
    BY <2>1, <1>6 DEF At, Distinct
  <2>2. CASE i \in 1..Len(s) /\ j \notin 1..Len(s)
    BY <2>2, <1>6, <1>3 DEF At
  <2>3. CASE i \notin 1..Len(s) /\ j \in 1..Len(s)
    BY <2>3, <1>6, <1>3 DEF At
  <2> QED BY <2>1, <2>2, <2>3
<1> QED BY <1>1, <1>4, <1>5, <1>6

\* Unlinking the node at position k leaves a ring of the others.
LEMMA UnlinkedRing ==
  ASSUME NEW l \in LinkPair, NEW s \in Seq(Node), NEW k \in 1..Len(s),
         Distinct(s), Ring(l, s)
  PROVE  /\ Unlinked(l, s[k]) \in LinkPair
         /\ RemoveAt(s, k) \in Seq(Node)
         /\ Distinct(RemoveAt(s, k))
         /\ NotIn(s[k], RemoveAt(s, k))
         /\ Ring(Unlinked(l, s[k]), RemoveAt(s, k))
<1> DEFINE t == RemoveAt(s, k)
           u == Unlinked(l, s[k])
<1>1. /\ t \in Seq(Node) /\ Len(s) \in Nat /\ Len(t) = Len(s) - 1
      /\ \A i \in 1..(Len(s) - 1) : t[i] = IF i < k THEN s[i] ELSE s[i + 1]
  BY RemoveAtFacts
<1>2. Distinct(t) /\ NotIn(s[k], t)
  <2> DEFINE p(i) == IF i < k THEN i ELSE i + 1
  <2>1. \A i \in 1..Len(t) : p(i) \in 1..Len(s) /\ p(i) # k /\ t[i] = s[p(i)]
    BY <1>1
  <2>2. \A i, j \in 1..Len(t) : p(i) = p(j) => i = j
    BY <1>1
  <2> HIDE DEF p, t
  <2>3. Distinct(t)
    BY <2>1, <2>2 DEF Distinct
  <2>4. NotIn(s[k], t)
    BY <2>1 DEF Distinct, NotIn
  <2> QED BY <2>3, <2>4
<1>3. \A i \in 0..Len(s) : At(t, i) = IF i < k THEN At(s, i) ELSE At(s, i + 1)
  BY <1>1 DEF At
<1>4. /\ l.next[s[k]] = At(s, k + 1) /\ l.prev[s[k]] = At(s, k - 1)
  <2>1. k \in 0..Len(s) /\ k - 1 \in 0..Len(s) /\ (k - 1) + 1 = k
    BY <1>1
  <2>2. At(s, k) = s[k]
    BY DEF At
  <2> QED BY <2>1, <2>2 DEF Ring
<1>5. /\ u.next = [l.next EXCEPT ![At(s, k - 1)] = At(s, k + 1)]
      /\ u.prev = [l.prev EXCEPT ![At(s, k + 1)] = At(s, k - 1)]
  BY <1>4 DEF Unlinked
<1>6. /\ At(s, k - 1) \in Address /\ At(s, k + 1) \in Address
      /\ \A i, j \in 0..Len(s) : At(s, i) = At(s, j) => i = j
      /\ \A i, j \in 1..(Len(s) + 1) : At(s, i) = At(s, j) => i = j
  BY RingAtFacts, <1>1
<1>7. u \in LinkPair
  BY <1>4, <1>6 DEF Unlinked, LinkPair
<1>8. l.next \in [Address -> Address] /\ l.prev \in [Address -> Address]
  BY DEF LinkPair
<1> HIDE DEF t, u
<1>9. ASSUME NEW i \in 0..Len(t)
      PROVE  u.next[At(t, i)] = At(t, i + 1) /\ u.prev[At(t, i + 1)] = At(t, i)
  <2>1. i \in 0..(Len(s) - 1) /\ i \in 0..Len(s) /\ i + 1 \in 0..Len(s)
    BY <1>1
  <2>2. CASE i < k - 1
    <3>1. At(t, i) = At(s, i) /\ At(t, i + 1) = At(s, i + 1)
      BY <2>1, <2>2, <1>3
    <3>2. At(s, i) # At(s, k - 1) /\ At(s, i + 1) # At(s, k + 1)
      <4>1. /\ i \in 0..Len(s) /\ k - 1 \in 0..Len(s) /\ i # k - 1
            /\ i + 1 \in 1..(Len(s) + 1) /\ k + 1 \in 1..(Len(s) + 1) /\ i + 1 # k + 1
        BY <2>1, <2>2, <1>1
      <4> QED BY <4>1, <1>6
    <3>3. l.next[At(s, i)] = At(s, i + 1) /\ l.prev[At(s, i + 1)] = At(s, i)
      BY <2>1 DEF Ring
    <3> QED BY <3>1, <3>2, <3>3, <1>5, <1>8
  <2>3. CASE i = k - 1
    <3>1. At(t, i) = At(s, k - 1) /\ At(t, i + 1) = At(s, k + 1)
      BY <2>1, <2>3, <1>1, <1>3
    <3> QED BY <3>1, <1>5, <1>6, <1>8
  <2>4. CASE i > k - 1
    <3>1. At(t, i) = At(s, i + 1) /\ At(t, i + 1) = At(s, (i + 1) + 1)
      BY <2>1, <2>4, <1>1, <1>3
    <3>2. At(s, i + 1) # At(s, k - 1) /\ At(s, (i + 1) + 1) # At(s, k + 1)
      <4>1. /\ i + 1 \in 0..Len(s) /\ k - 1 \in 0..Len(s) /\ i + 1 # k - 1
            /\ (i + 1) + 1 \in 1..(Len(s) + 1) /\ k + 1 \in 1..(Len(s) + 1)
            /\ (i + 1) + 1 # k + 1
        BY <2>1, <2>4, <1>1
      <4> QED BY <4>1, <1>6
    <3>3. /\ l.next[At(s, i + 1)] = At(s, (i + 1) + 1)
          /\ l.prev[At(s, (i + 1) + 1)] = At(s, i + 1)
      BY <2>1 DEF Ring
    <3> QED BY <3>1, <3>2, <3>3, <1>5, <1>8
  <2> QED BY <2>1, <2>2, <2>3, <2>4
<1>10. Ring(u, t)
  BY <1>9 DEF Ring
<1> QED BY <1>1, <1>2, <1>7, <1>10 DEF t, u

\* Linking a node at the front puts it before the others.
LEMMA LinkedFrontRing ==
  ASSUME NEW l \in LinkPair, NEW s \in Seq(Node), NEW n \in Node,
         Distinct(s), NotIn(n, s), Ring(l, s)
  PROVE  /\ LinkedFront(l, n) \in LinkPair
         /\ <<n>> \o s \in Seq(Node)
         /\ Distinct(<<n>> \o s)
         /\ Ring(LinkedFront(l, n), <<n>> \o s)
<1> DEFINE t == <<n>> \o s
           u == LinkedFront(l, n)
<1>1. /\ t \in Seq(Node) /\ Len(s) \in Nat /\ Len(t) = Len(s) + 1 /\ t[1] = n
      /\ \A i \in 2..(Len(s) + 1) : t[i] = s[i - 1]
  BY ConsFacts
<1>2. Distinct(t)
  BY <1>1 DEF Distinct, NotIn
<1>3. /\ At(s, 1) \in Address /\ At(s, 0) = End /\ At(s, Len(s) + 1) = End
      /\ \A i \in Int : At(s, i) \in Address
      /\ \A i, j \in 0..Len(s) : At(s, i) = At(s, j) => i = j
      /\ \A i, j \in 1..(Len(s) + 1) : At(s, i) = At(s, j) => i = j
  BY RingAtFacts
<1>4. /\ At(t, 0) = End /\ At(t, 1) = n
      /\ \A i \in 2..(Len(s) + 2) : At(t, i) = At(s, i - 1)
  BY <1>1 DEF At
<1>5. n # End /\ n \in Address /\ End \in Address
  BY EndAssumption DEF Address
<1>6. \A i \in Int : At(s, i) # n
  BY <1>5 DEF At, NotIn
<1>7. l.next \in [Address -> Address] /\ l.prev \in [Address -> Address]
  BY DEF LinkPair
<1>8. l.next[End] = At(s, 1)
  <2>1. 0 \in 0..Len(s)
    BY <1>1
  <2> QED BY <2>1, <1>3 DEF Ring
<1>9. /\ u.next = [l.next EXCEPT ![n] = At(s, 1), ![End] = n]
      /\ u.prev = [l.prev EXCEPT ![n] = End, ![At(s, 1)] = n]
  BY <1>8 DEF LinkedFront
<1>10. u \in LinkPair
  BY <1>3, <1>5, <1>8 DEF LinkedFront, LinkPair
<1> HIDE DEF t, u
<1>11. ASSUME NEW i \in 0..Len(t)
       PROVE  u.next[At(t, i)] = At(t, i + 1) /\ u.prev[At(t, i + 1)] = At(t, i)
  <2>1. CASE i = 0
    <3>1. u.next[End] = n /\ u.prev[n] = End
      BY <1>3, <1>5, <1>6, <1>7, <1>9
    <3> QED BY <2>1, <3>1, <1>4
  <2>2. CASE i = 1
    <3>1. At(t, 2) = At(s, 1)
      BY <1>1, <1>4
    <3>2. u.next[n] = At(s, 1) /\ u.prev[At(s, 1)] = n
      BY <1>3, <1>5, <1>7, <1>9
    <3> QED BY <2>2, <3>1, <3>2, <1>4
  <2>3. CASE i > 1
    <3>1. /\ i - 1 \in 1..Len(s) /\ i - 1 \in 0..Len(s) /\ (i - 1) + 1 = i /\ (i + 1) - 1 = i
          /\ i \in 2..(Len(s) + 1) /\ i \in Int /\ i - 1 \in Int
      BY <2>3, <1>1
    <3>2. At(t, i) = At(s, i - 1) /\ At(t, i + 1) = At(s, i)
      BY <3>1, <1>1, <1>4
    <3>3. l.next[At(s, i - 1)] = At(s, i) /\ l.prev[At(s, i)] = At(s, i - 1)
      BY <3>1 DEF Ring
    <3>4. At(s, i - 1) # End /\ At(s, i) # At(s, 1)
      BY <3>1, <1>1, <1>3
    <3>5. At(s, i - 1) # n /\ At(s, i) # n
      BY <3>1, <1>6
    <3> QED BY <3>1, <3>2, <3>3, <3>4, <3>5, <1>3, <1>7, <1>9
  <2> QED BY <1>1, <2>1, <2>2, <2>3
<1>12. Ring(u, t)
  BY <1>11 DEF Ring
<1> QED BY <1>1, <1>2, <1>10, <1>12 DEF t, u

\* Linking a node at the back puts it after the others.
LEMMA LinkedBackRing ==
  ASSUME NEW l \in LinkPair, NEW s \in Seq(Node), NEW n \in Node,
         Distinct(s), NotIn(n, s), Ring(l, s)
  PROVE  /\ LinkedBack(l, n) \in LinkPair
         /\ Append(s, n) \in Seq(Node)
         /\ Distinct(Append(s, n))
         /\ Ring(LinkedBack(l, n), Append(s, n))
<1> DEFINE t == Append(s, n)
           u == LinkedBack(l, n)
           m == Len(s)
<1>1. /\ t \in Seq(Node) /\ m \in Nat /\ Len(t) = m + 1 /\ t[m + 1] = n
      /\ \A i \in 1..m : t[i] = s[i]
  BY AppendFacts
<1>2. Distinct(t)
  BY <1>1 DEF Distinct, NotIn
<1>3. /\ At(s, 0) = End /\ At(s, m + 1) = End
      /\ \A i \in Int : At(s, i) \in Address
      /\ \A i, j \in 0..m : At(s, i) = At(s, j) => i = j
      /\ \A i, j \in 1..(m + 1) : At(s, i) = At(s, j) => i = j
  BY RingAtFacts
<1>4. /\ At(t, m + 2) = End /\ At(t, m + 1) = n
      /\ \A i \in 0..m : At(t, i) = At(s, i)
  BY <1>1 DEF At
<1>5. n # End /\ n \in Address /\ End \in Address
  BY EndAssumption DEF Address
<1>6. \A i \in Int : At(s, i) # n
  BY <1>5 DEF At, NotIn
<1>7. l.next \in [Address -> Address] /\ l.prev \in [Address -> Address]
  BY DEF LinkPair
<1>8. l.prev[End] = At(s, m) /\ At(s, m) \in Address
  <2>1. m \in 0..m /\ m \in Int
    BY <1>1
  <2> QED BY <2>1, <1>3 DEF Ring
<1>9. /\ u.next = [l.next EXCEPT ![n] = End, ![At(s, m)] = n]
      /\ u.prev = [l.prev EXCEPT ![n] = At(s, m), ![End] = n]
  BY <1>8 DEF LinkedBack
<1>10. u \in LinkPair
  BY <1>5, <1>8 DEF LinkedBack, LinkPair
<1> HIDE DEF t, u, m
<1>11. ASSUME NEW i \in 0..Len(t)
       PROVE  u.next[At(t, i)] = At(t, i + 1) /\ u.prev[At(t, i + 1)] = At(t, i)
  <2>1. CASE i = m + 1
    <3>1. u.next[n] = End /\ u.prev[End] = n
      BY <1>1, <1>5, <1>6, <1>7, <1>8, <1>9
    <3>2. i + 1 = m + 2
      BY <2>1, <1>1
    <3> QED BY <2>1, <3>1, <3>2, <1>4
  <2>2. CASE i = m
    <3>1. u.next[At(s, m)] = n /\ u.prev[n] = At(s, m)
      BY <1>5, <1>7, <1>8, <1>9
    <3>2. At(t, m) = At(s, m)
      BY <1>1, <1>4
    <3> QED BY <2>2, <3>1, <3>2, <1>4
  <2>3. CASE i < m
    <3>1. /\ i \in 0..m /\ m \in 0..m /\ i + 1 \in 0..m /\ i + 1 \in 1..(m + 1)
          /\ m + 1 \in 1..(m + 1) /\ i # m /\ i + 1 # m + 1 /\ i \in Int /\ i + 1 \in Int
      BY <2>3, <1>1
    <3>2. At(t, i) = At(s, i) /\ At(t, i + 1) = At(s, i + 1)
      BY <3>1, <1>4
    <3>3. l.next[At(s, i)] = At(s, i + 1) /\ l.prev[At(s, i + 1)] = At(s, i)
      BY <3>1 DEF Ring, m
    <3>4. At(s, i) # At(s, m) /\ At(s, i + 1) # End
      BY <3>1, <1>3
    <3>5. At(s, i) # n /\ At(s, i + 1) # n
      BY <3>1, <1>6
    <3> QED BY <3>1, <3>2, <3>3, <3>4, <3>5, <1>3, <1>7, <1>9
  <2> QED BY <1>1, <2>1, <2>2, <2>3
<1>12. Ring(u, t)
  BY <1>11 DEF Ring
<1> QED BY <1>1, <1>2, <1>10, <1>12 DEF t, u

\* Writing over a node that is not listed changes no ring.
LEMMA UnlistedRing ==
  ASSUME NEW l \in LinkPair, NEW s \in Seq(Node), NEW n \in Node, NotIn(n, s), Ring(l, s),
         NEW k \in LinkPair,
         \A a \in Address \ {n} : k.next[a] = l.next[a] /\ k.prev[a] = l.prev[a]
  PROVE  Ring(k, s)
<1>1. \A i \in Int : At(s, i) # n /\ At(s, i) \in Address
  <2>1. \A i \in 1..Len(s) : s[i] # n /\ s[i] \in Node
    BY DEF NotIn
  <2> QED BY <2>1, EndAssumption DEF At, Address
<1>2. l.next \in [Address -> Address] /\ l.prev \in [Address -> Address]
  BY DEF LinkPair
<1> QED BY <1>1, <1>2 DEF Ring
-----------------------------------------------------------------------------
RingIInv == RingTypeOK /\ RingIntact

\* A list starts as a ring of its own head (IList.h:268-272).
LEMMA RingStart == RingInit => RingIInv
<1> SUFFICES ASSUME RingInit PROVE RingIInv
  OBVIOUS
<1>1. RingTypeOK
  BY GarbageAssumption DEF RingInit, RingTypeOK, Address
<1>2. Distinct(ring) /\ Ring(Links, ring)
  BY DEF RingInit, Distinct, Ring, Links, At
<1> QED BY <1>1, <1>2 DEF RingIInv, RingIntact

\* The links and the ring as the lemmas above want them, and back.
LEMMA RingUnpack ==
  ASSUME RingIInv
  PROVE  /\ Links \in LinkPair /\ ring \in Seq(Node)
         /\ Distinct(ring) /\ Ring(Links, ring)
  BY DEF RingIInv, RingTypeOK, RingIntact, Links, LinkPair

\* The way back: links and ring that fit together are the invariant.
LEMMA RingPack ==
  ASSUME NEW l \in LinkPair, Become(l), ring' \in Seq(Node),
         Distinct(ring'), Ring(l, ring')
  PROVE  RingIInv'
<1>1. succ' \in [Address -> Address] /\ pred' \in [Address -> Address]
  BY DEF Become, LinkPair
<1>2. Ring([next |-> succ', prev |-> pred'], ring')
  BY DEF Become, Ring
<1> QED BY <1>1, <1>2 DEF RingIInv, RingTypeOK, RingIntact, Links

\* Removing a listed node, whichever it is.
LEMMA RingRemoveKeeps ==
  ASSUME RingIInv, NEW n, removeFromRing(n)
  PROVE  RingIInv'
<1>1. PICK k \in 1..Len(ring) :
        /\ ring[k] = n
        /\ Become(Unlinked(Links, n))
        /\ ring' = RemoveAt(ring, k)
  BY DEF removeFromRing
<1>2. /\ Unlinked(Links, n) \in LinkPair
      /\ ring' \in Seq(Node) /\ Distinct(ring')
      /\ Ring(Unlinked(Links, n), ring')
  BY <1>1, RingUnpack, UnlinkedRing
<1> QED BY <1>1, <1>2, RingPack

\* Each operation, and each write of a client, keeps the invariant.
LEMMA RingNextKeeps == RingIInv /\ [RingNext]_ringVars => RingIInv'
<1> SUFFICES ASSUME RingIInv, [RingNext]_ringVars PROVE RingIInv'
  OBVIOUS
<1>1. /\ Links \in LinkPair /\ ring \in Seq(Node)
      /\ Distinct(ring) /\ Ring(Links, ring)
  BY RingUnpack
<1>2. CASE pop_front
  BY <1>2, RingRemoveKeeps DEF pop_front
<1>3. CASE pop_back
  BY <1>3, RingRemoveKeeps DEF pop_back
<1>4. ASSUME NEW n \in Node, push_front(n) PROVE RingIInv'
  <2>1. NotIn(n, ring)
    BY <1>4 DEF push_front, Listed, NotIn
  <2>2. /\ LinkedFront(Links, n) \in LinkPair
        /\ <<n>> \o ring \in Seq(Node) /\ Distinct(<<n>> \o ring)
        /\ Ring(LinkedFront(Links, n), <<n>> \o ring)
    BY <1>1, <2>1, LinkedFrontRing
  <2> QED BY <1>4, <2>2, RingPack DEF push_front
<1>5. ASSUME NEW n \in Node, push_back(n) PROVE RingIInv'
  <2>1. NotIn(n, ring)
    BY <1>5 DEF push_back, Listed, NotIn
  <2>2. /\ LinkedBack(Links, n) \in LinkPair
        /\ Append(ring, n) \in Seq(Node) /\ Distinct(Append(ring, n))
        /\ Ring(LinkedBack(Links, n), Append(ring, n))
    BY <1>1, <2>1, LinkedBackRing
  <2> QED BY <1>5, <2>2, RingPack DEF push_back
<1>6. ASSUME NEW n \in Node, removeFromRing(n) PROVE RingIInv'
  BY <1>6, RingRemoveKeeps
<1>7. ASSUME NEW n \in Node, move_front(n) PROVE RingIInv'
  <2>1. PICK k \in 1..Len(ring) :
          /\ ring[k] = n
          /\ Become(LinkedFront(Unlinked(Links, n), n))
          /\ ring' = <<n>> \o RemoveAt(ring, k)
    BY <1>7 DEF move_front
  <2> DEFINE u == Unlinked(Links, n)
             s == RemoveAt(ring, k)
  <2>2. u \in LinkPair /\ s \in Seq(Node) /\ Distinct(s) /\ NotIn(n, s) /\ Ring(u, s)
    BY <1>1, <2>1, UnlinkedRing
  <2> HIDE DEF u, s
  <2>3. /\ LinkedFront(u, n) \in LinkPair
        /\ <<n>> \o s \in Seq(Node) /\ Distinct(<<n>> \o s)
        /\ Ring(LinkedFront(u, n), <<n>> \o s)
    BY <2>2, LinkedFrontRing
  <2>4. Become(LinkedFront(u, n)) /\ ring' = <<n>> \o s
    BY <2>1 DEF u, s
  <2> QED BY <2>3, <2>4, RingPack
<1>8. ASSUME NEW n \in Node, move_back(n) PROVE RingIInv'
  <2>1. PICK k \in 1..Len(ring) :
          /\ ring[k] = n
          /\ Become(LinkedBack(Unlinked(Links, n), n))
          /\ ring' = Append(RemoveAt(ring, k), n)
    BY <1>8 DEF move_back
  <2> DEFINE u == Unlinked(Links, n)
             s == RemoveAt(ring, k)
  <2>2. u \in LinkPair /\ s \in Seq(Node) /\ Distinct(s) /\ NotIn(n, s) /\ Ring(u, s)
    BY <1>1, <2>1, UnlinkedRing
  <2> HIDE DEF u, s
  <2>3. /\ LinkedBack(u, n) \in LinkPair
        /\ Append(s, n) \in Seq(Node) /\ Distinct(Append(s, n))
        /\ Ring(LinkedBack(u, n), Append(s, n))
    BY <2>2, LinkedBackRing
  <2>4. Become(LinkedBack(u, n)) /\ ring' = Append(s, n)
    BY <2>1 DEF u, s
  <2> QED BY <2>3, <2>4, RingPack
<1>9. ASSUME NEW n \in Node, RingClientWrites(n) PROVE RingIInv'
  <2>1. PICK x \in Garbage, y \in Garbage :
          succ' = [succ EXCEPT ![n] = x] /\ pred' = [pred EXCEPT ![n] = y]
    BY <1>9 DEF RingClientWrites
  <2> DEFINE k == [next |-> succ', prev |-> pred']
  <2>2. k \in LinkPair /\ ring' = ring
    BY <1>1, <1>9, <2>1, GarbageAssumption DEF RingClientWrites, Links, LinkPair
  <2>3. NotIn(n, ring)
    BY <1>9 DEF RingClientWrites, Listed, NotIn
  <2>4. \A a \in Address \ {n} : k.next[a] = Links.next[a] /\ k.prev[a] = Links.prev[a]
    BY <1>1, <2>1 DEF Links, LinkPair
  <2>5. Become(k)
    BY DEF Become
  <2> HIDE DEF k
  <2>6. Ring(k, ring)
    BY <1>1, <2>2, <2>3, <2>4, UnlistedRing
  <2> QED BY <1>1, <2>2, <2>5, <2>6, RingPack
<1>10. CASE UNCHANGED ringVars
  <2>1. Become(Links) /\ ring' = ring
    BY <1>10 DEF ringVars, Become, Links
  <2> QED BY <1>1, <2>1, RingPack
<1> QED BY <1>2, <1>3, <1>4, <1>5, <1>6, <1>7, <1>8, <1>9, <1>10 DEF RingNext

\* The list is its ring, in both directions, at all times, for any nodes
\* and whatever clients write over them (class List, IList.h:258-362).
THEOREM RingIntactAlways == RingSpec => []RingIntact
<1>1. RingIInv => RingIntact
  BY DEF RingIInv
<1> QED BY RingStart, RingNextKeeps, <1>1, PTL DEF RingSpec

\* Links are always addresses of nodes or of the list object: nothing else is
\* ever dereferenced.
THEOREM RingTypeCorrect == RingSpec => []RingTypeOK
<1>1. RingIInv => RingTypeOK
  BY DEF RingIInv
<1> QED BY RingStart, RingNextKeeps, <1>1, PTL DEF RingSpec
-----------------------------------------------------------------------------
(* SpanList *)

SpanIInv == SpanListTypeOK /\ SpanListIntact

\* Positions of the spans have nodes, with End around them, and the head is
\* the first (heap->size_cache, rpmalloc.c:749-760).
LEMMA SpanAtFacts ==
  ASSUME SpanIInv
  PROVE  /\ Len(spans) \in Nat
         /\ \A i \in Int : At(spans, i) \in Address
         /\ \A i \in 1..Len(spans) : /\ At(spans, i) = spans[i]
                                     /\ spans[i] \in Node
                                     /\ spans[i] # End
         /\ \A i, j \in 1..Len(spans) : spans[i] = spans[j] => i = j
         /\ head = At(spans, 1)
         /\ At(spans, Len(spans) + 1) = End
<1>1. spans \in Seq(Node) /\ head = At(spans, 1) /\ Distinct(spans)
  BY DEF SpanIInv, SpanListTypeOK, SpanListIntact
<1>2. \A i \in 1..Len(spans) : spans[i] \in Node
  BY <1>1
<1>3. Len(spans) \in Nat
  BY <1>1
<1> QED BY <1>1, <1>2, <1>3, EndAssumption DEF At, Address, Distinct

\* The words of the spans listed, without the prev of the first.
LEMMA SpanWords ==
  ASSUME SpanIInv
  PROVE  /\ next_span \in [Node -> Address]
         /\ prev_span \in [Node -> Address]
         /\ \A i \in 1..Len(spans) : next_span[spans[i]] = At(spans, i + 1)
         /\ \A i \in 2..Len(spans) : prev_span[spans[i]] = At(spans, i - 1)
<1>1. Len(spans) \in Nat
  BY SpanAtFacts
<1> QED BY <1>1 DEF SpanIInv, SpanListTypeOK, SpanListIntact

\* A heap starts with no span listed.
LEMMA SpanStart == SpanInit => SpanIInv
<1> SUFFICES ASSUME SpanInit PROVE SpanIInv
  OBVIOUS
<1>1. SpanListTypeOK
  BY GarbageAssumption DEF SpanInit, SpanListTypeOK, Address
<1>2. SpanListIntact
  BY DEF SpanInit, Distinct, SpanListIntact, At
<1> QED BY <1>1, <1>2 DEF SpanIInv

\* The span added is linked before the old first one, and its own prev keeps
\* what a client wrote there (_memory_list_add, rpmalloc.c:1036-1050).
LEMMA SpanAddKeeps ==
  ASSUME SpanIInv, NEW n \in Node, _memory_list_add(n)
  PROVE  SpanIInv'
<1> DEFINE m == Len(spans)
<1>1. /\ spans' \in Seq(Node) /\ m \in Nat /\ Len(spans') = m + 1 /\ spans'[1] = n
      /\ \A i \in 2..(m + 1) : spans'[i] = spans[i - 1]
  <2>1. spans' = <<n>> \o spans /\ spans \in Seq(Node)
    BY DEF _memory_list_add, SpanIInv, SpanListTypeOK
  <2> QED BY <2>1, ConsFacts
<1>2. \A i \in 1..m : spans[i] # n /\ spans[i] \in Node /\ spans[i] # End
  BY SpanAtFacts DEF _memory_list_add, Listed
<1>3. Distinct(spans')
  <2>1. \A i, j \in 1..m : spans[i] = spans[j] => i = j
    BY SpanAtFacts
  <2>2. ASSUME NEW i \in 1..(m + 1), NEW j \in 1..(m + 1), spans'[i] = spans'[j] PROVE i = j
    <3>1. \A k \in Nat : \A l \in 1..(k + 1) : l = 1 \/ (l \in 2..(k + 1) /\ l - 1 \in 1..k)
      OBVIOUS
    <3>2. /\ i = 1 \/ (i \in 2..(m + 1) /\ i - 1 \in 1..m)
          /\ j = 1 \/ (j \in 2..(m + 1) /\ j - 1 \in 1..m)
      BY <1>1, <3>1
    <3>3. CASE i = 1 \/ j = 1
      BY <1>1, <1>2, <2>2, <3>2, <3>3
    <3>4. CASE i # 1 /\ j # 1
      <4>1. spans[i - 1] = spans[j - 1]
        BY <1>1, <2>2, <3>2, <3>4
      <4>2. i - 1 = j - 1
        BY <2>1, <3>2, <3>4, <4>1
      <4> QED BY <1>1, <4>2
    <3> QED BY <3>3, <3>4
  <2> QED BY <1>1, <2>2 DEF Distinct
<1>4. SpanListTypeOK'
  <2>1. head \in Address /\ next_span \in [Node -> Address] /\ prev_span \in [Node -> Address]
    BY DEF SpanIInv, SpanListTypeOK
  <2> QED BY <2>1, <1>1 DEF SpanListTypeOK, _memory_list_add, Address
<1>5. /\ At(spans, 1)' = n
      /\ \A i \in 2..(m + 2) : At(spans, i)' = At(spans, i - 1)
  BY <1>1 DEF At
<1>6. /\ head' = n
      /\ next_span' = [next_span EXCEPT ![n] = head]
      /\ prev_span' = [x \in Node |-> IF x = head THEN n ELSE prev_span[x]]
      /\ next_span \in [Node -> Address]
  BY DEF _memory_list_add, SpanIInv, SpanListTypeOK
<1>7. head = At(spans, 1)
  BY SpanAtFacts
<1>8. ASSUME NEW i \in 1..Len(spans')
      PROVE  /\ next_span'[spans'[i]] = At(spans, i + 1)'
             /\ i > 1 => prev_span'[spans'[i]] = At(spans, i - 1)'
  <2>1. CASE i = 1
    <3>1. At(spans, 2)' = At(spans, 1)
      BY <1>1, <1>5
    <3> QED BY <2>1, <3>1, <1>1, <1>6, <1>7
  <2>2. CASE i # 1
    <3>1. /\ i - 1 \in 1..m /\ i \in 2..(m + 1) /\ i + 1 \in 2..(m + 2) /\ (i + 1) - 1 = i
          /\ (i - 1) + 1 = i
      BY <2>2, <1>1
    <3>2. spans'[i] = spans[i - 1] /\ spans[i - 1] # n /\ spans[i - 1] \in Node
      BY <3>1, <1>1, <1>2
    <3>3. next_span[spans[i - 1]] = At(spans, i) /\ At(spans, i + 1)' = At(spans, i)
      BY <3>1, <1>5, SpanWords
    <3>4. CASE i = 2
      <4>1. spans[i - 1] = head
        BY <3>4, <3>1, <1>7 DEF At
      <4> QED BY <4>1, <3>2, <3>3, <3>4, <1>5, <1>6
    <3>5. CASE i # 2
      <4>1. i - 1 \in 2..(m + 2) /\ i - 1 \in 2..m /\ 1 \in 1..m /\ i - 1 # 1
        BY <3>1, <3>5, <1>1
      <4>2. spans[i - 1] # head
        BY <4>1, <3>1, SpanAtFacts
      <4>3. prev_span[spans[i - 1]] = At(spans, (i - 1) - 1)
        BY <4>1, SpanWords
      <4>4. At(spans, i - 1)' = At(spans, (i - 1) - 1)
        BY <4>1, <1>5
      <4> QED BY <4>2, <4>3, <4>4, <3>2, <3>3, <1>6
    <3> QED BY <3>4, <3>5
  <2> QED BY <2>1, <2>2
<1> QED BY <1>3, <1>4, <1>5, <1>6, <1>8 DEF SpanIInv, SpanListIntact

\* The span after the first becomes the first; its prev keeps pointing at the
\* one that left, and nothing reads it (rpmalloc.c:749-760, 1056-1059).
LEMMA SpanTakeKeeps ==
  ASSUME SpanIInv, TakeFirst
  PROVE  SpanIInv'
<1> DEFINE m == Len(spans)
<1>1. spans # <<>>
  BY SpanAtFacts DEF TakeFirst, At
<1>2. /\ spans' \in Seq(Node) /\ m \in Nat \ {0} /\ Len(spans') = m - 1
      /\ \A i \in 1..(m - 1) : spans'[i] = spans[i + 1]
  <2>1. spans' = Tail(spans) /\ spans \in Seq(Node)
    BY DEF TakeFirst, SpanIInv, SpanListTypeOK
  <2> QED BY <1>1, <2>1, TailFacts
<1>3. spans[1] \in Node /\ head = spans[1]
  BY <1>2, SpanAtFacts DEF At
<1>4. next_span[head] = At(spans, 2)
  <2>1. 1 \in 1..m /\ 1 + 1 = 2
    BY <1>2
  <2> QED BY <2>1, <1>3, SpanWords
<1>5. Distinct(spans')
  BY <1>2, SMTT(30) DEF Distinct, SpanIInv, SpanListIntact
<1>6. \A i \in 1..m : At(spans, i)' = At(spans, i + 1)
  BY <1>2 DEF At
<1>7. head' = next_span[head] /\ next_span' = next_span /\ prev_span' = prev_span
  BY DEF TakeFirst
<1>8. SpanListTypeOK'
  BY <1>2, <1>3, <1>7, SpanWords DEF SpanListTypeOK
<1>9. head' = At(spans, 1)'
  BY <1>2, <1>4, <1>6, <1>7
<1>10. ASSUME NEW i \in 1..Len(spans')
       PROVE  /\ next_span'[spans'[i]] = At(spans, i + 1)'
              /\ i > 1 => prev_span'[spans'[i]] = At(spans, i - 1)'
  <2>1. i + 1 \in 1..m /\ i + 1 \in 2..m /\ i \in 1..(m - 1) /\ (i + 1) - 1 = i
    BY <1>2
  <2>2. /\ next_span[spans[i + 1]] = At(spans, (i + 1) + 1)
        /\ prev_span[spans[i + 1]] = At(spans, (i + 1) - 1)
    BY <2>1, SpanWords
  <2>3. At(spans, i + 1)' = At(spans, (i + 1) + 1)
    BY <2>1, <1>6
  <2>4. ASSUME i > 1
        PROVE  At(spans, i - 1)' = At(spans, (i + 1) - 1)
    <3>1. i - 1 \in 1..m /\ (i - 1) + 1 = (i + 1) - 1
      BY <2>1, <2>4
    <3> QED BY <3>1, <1>6
  <2> QED BY <2>1, <2>2, <2>3, <2>4, <1>2, <1>7
<1> QED BY <1>5, <1>8, <1>9, <1>10 DEF SpanIInv, SpanListIntact

\* The neighbours of a later span that is removed become each other's: its
\* prev is one of those that are true (rpmalloc.c:1060-1066).
LEMMA SpanRemoveLaterKeeps ==
  ASSUME SpanIInv, NEW k \in 1..Len(spans), head # spans[k],
         RemoveLater(spans[k]), spans' = RemoveAt(spans, k)
  PROVE  SpanIInv'
<1> DEFINE m == Len(spans)
<1>1. /\ spans' \in Seq(Node) /\ m \in Nat /\ Len(spans') = m - 1
      /\ \A i \in 1..(m - 1) : spans'[i] = IF i < k THEN spans[i] ELSE spans[i + 1]
  <2>1. spans \in Seq(Node)
    BY DEF SpanIInv, SpanListTypeOK
  <2> QED BY <2>1, RemoveAtFacts
<1>2. /\ \A i \in 1..m : spans[i] \in Node /\ spans[i] # End
      /\ \A i \in Int : At(spans, i) \in Address
      /\ head = At(spans, 1)
  BY SpanAtFacts
<1>3. k \in 2..m /\ k - 1 \in 1..m
  <2>1. k # 1
    BY <1>2 DEF At
  <2> QED BY <2>1, <1>1
<1>4. prev_span[spans[k]] = spans[k - 1] /\ next_span[spans[k]] = At(spans, k + 1)
  BY <1>1, <1>3, SpanWords DEF At
<1>5. \A i, j \in 1..m : spans[i] = spans[j] => i = j
  BY SpanAtFacts
<1>6. Distinct(spans')
  <2> DEFINE p(i) == IF i < k THEN i ELSE i + 1
  <2>1. \A i \in 1..(m - 1) : p(i) \in 1..m /\ spans'[i] = spans[p(i)]
    BY <1>1
  <2>2. \A i, j \in 1..(m - 1) : p(i) = p(j) => i = j
    BY <1>1
  <2> HIDE DEF p
  <2>3. ASSUME NEW i \in 1..(m - 1), NEW j \in 1..(m - 1), spans'[i] = spans'[j] PROVE i = j
    <3>1. spans[p(i)] = spans[p(j)] /\ p(i) \in 1..m /\ p(j) \in 1..m
      BY <2>1, <2>3
    <3>2. p(i) = p(j)
      BY <1>5, <3>1
    <3> QED BY <2>2, <3>2
  <2> QED BY <2>3, <1>1 DEF Distinct
<1>7. /\ head' = head
      /\ next_span' = [next_span EXCEPT ![spans[k - 1]] = At(spans, k + 1)]
      /\ prev_span' = [x \in Node |-> IF x = At(spans, k + 1) THEN spans[k - 1] ELSE prev_span[x]]
      /\ next_span \in [Node -> Address] /\ prev_span \in [Node -> Address]
  BY <1>4, SpanWords DEF RemoveLater
<1>8. SpanListTypeOK'
  <2>1. head \in Address /\ At(spans, k + 1) \in Address
    BY <1>2 DEF SpanIInv, SpanListTypeOK
  <2> QED BY <2>1, <1>1, <1>2, <1>3, <1>7 DEF SpanListTypeOK, Address
<1>9. \A i \in 0..m : At(spans, i)' = IF i < k THEN At(spans, i) ELSE At(spans, i + 1)
  BY <1>1 DEF At
<1>10. head' = At(spans, 1)'
  <2>1. 1 \in 0..m /\ 1 < k
    BY <1>1, <1>3
  <2>2. At(spans, 1)' = At(spans, 1)
    BY <2>1, <1>9
  <2> QED BY <2>2, <1>2, <1>7
<1>11. ASSUME NEW i \in 1..Len(spans')
       PROVE  /\ next_span'[spans'[i]] = At(spans, i + 1)'
              /\ i > 1 => prev_span'[spans'[i]] = At(spans, i - 1)'
  <2>1. i \in 1..(m - 1) /\ i \in 1..m /\ i + 1 \in 2..m /\ i + 1 \in 1..m
        /\ i - 1 \in 0..m /\ i + 1 \in 0..m /\ (i + 1) - 1 = (i - 1) + 1
    BY <1>1
  <2>2. /\ \A j \in 1..m : next_span[spans[j]] = At(spans, j + 1)
        /\ \A j \in 2..m : prev_span[spans[j]] = At(spans, j - 1)
    BY SpanWords
  <2>3. CASE i < k - 1
    <3>1. spans'[i] = spans[i] /\ spans[i] \in Node
      BY <2>1, <2>3, <1>1, <1>2, SMTT(30)
    <3>2. spans[i] # spans[k - 1] /\ spans[i] # At(spans, k + 1)
      BY <2>1, <2>3, <1>2, <1>3, <1>5 DEF At
    <3>3. At(spans, i + 1)' = At(spans, i + 1) /\ At(spans, i - 1)' = At(spans, i - 1)
      BY <2>1, <2>3, <1>9
    <3>4. i > 1 => i \in 2..m
      BY <2>1
    <3> QED BY <3>1, <3>2, <3>3, <3>4, <2>1, <2>2, <1>7
  <2>4. CASE i = k - 1
    <3>1. spans'[i] = spans[k - 1] /\ spans[k - 1] \in Node
      BY <2>1, <2>4, <1>1, <1>2, SMTT(30)
    <3>2. spans[k - 1] # At(spans, k + 1)
      BY <1>1, <1>2, <1>3, <1>5 DEF At
    <3>3. At(spans, i + 1)' = At(spans, k + 1) /\ At(spans, i - 1)' = At(spans, (k - 1) - 1)
      BY <2>1, <2>4, <1>3, <1>9
    <3>4. i > 1 => k - 1 \in 2..m
      BY <2>1, <2>4
    <3> QED BY <3>1, <3>2, <3>3, <3>4, <2>2, <1>3, <1>7
  <2>5. CASE i = k
    <3>1. spans'[i] = spans[k + 1] /\ spans[k + 1] \in Node /\ At(spans, k + 1) = spans[k + 1]
      BY <2>1, <2>5, <1>1, <1>2 DEF At
    <3>2. spans[k + 1] # spans[k - 1] /\ k + 1 \in 1..m
      BY <2>1, <2>5, <1>3, <1>5
    <3>3. /\ At(spans, i + 1)' = At(spans, (k + 1) + 1)
          /\ At(spans, i - 1)' = spans[k - 1]
      BY <2>1, <2>5, <1>3, <1>9 DEF At
    <3> QED BY <3>1, <3>2, <3>3, <2>2, <1>7
  <2>6. CASE i > k
    <3>1. spans'[i] = spans[i + 1] /\ spans[i + 1] \in Node
      BY <2>1, <2>6, <1>1, <1>2, SMTT(30)
    <3>2. spans[i + 1] # spans[k - 1] /\ spans[i + 1] # At(spans, k + 1)
      BY <2>1, <2>6, <1>2, <1>3, <1>5 DEF At
    <3>3. /\ At(spans, i + 1)' = At(spans, (i + 1) + 1)
          /\ At(spans, i - 1)' = At(spans, (i - 1) + 1)
      BY <2>1, <2>6, <1>9
    <3> QED BY <3>1, <3>2, <3>3, <2>1, <2>2, <1>7
  <2> QED BY <2>1, <2>3, <2>4, <2>5, <2>6, SMTT(30)
<1> QED BY <1>6, <1>8, <1>10, <1>11 DEF SpanIInv, SpanListIntact

\* Each operation, and each write of a client, keeps the invariant.
LEMMA SpanNextKeeps == SpanIInv /\ [SpanNext]_spanVars => SpanIInv'
<1> SUFFICES ASSUME SpanIInv, [SpanNext]_spanVars PROVE SpanIInv'
  OBVIOUS
<1>1. CASE PromoteFirst
  BY <1>1, SpanTakeKeeps DEF PromoteFirst
<1>2. ASSUME NEW n \in Node, _memory_list_add(n) PROVE SpanIInv'
  BY <1>2, SpanAddKeeps
<1>3. ASSUME NEW n \in Node, _memory_list_remove(n) PROVE SpanIInv'
  <2>1. PICK k \in 1..Len(spans) :
          /\ spans[k] = n
          /\ IF head = n THEN TakeFirst ELSE RemoveLater(n) /\ spans' = RemoveAt(spans, k)
    BY <1>3 DEF _memory_list_remove
  <2>2. CASE head = n
    BY <2>1, <2>2, SpanTakeKeeps
  <2>3. CASE head # n
    BY <2>1, <2>3, SpanRemoveLaterKeeps
  <2> QED BY <2>2, <2>3
<1>4. ASSUME NEW n \in Node, SpanClientWrites(n) PROVE SpanIInv'
  <2>1. PICK x \in Garbage, y \in Garbage :
          next_span' = [next_span EXCEPT ![n] = x] /\ prev_span' = [prev_span EXCEPT ![n] = y]
    BY <1>4 DEF SpanClientWrites
  <2>2. head' = head /\ spans' = spans
    BY <1>4 DEF SpanClientWrites
  <2>3. SpanListTypeOK'
    BY <2>1, <2>2, GarbageAssumption DEF SpanIInv, SpanListTypeOK
  <2>4. \A i \in 1..Len(spans) : spans[i] # n /\ spans[i] \in Node
    BY <1>4, SpanAtFacts DEF SpanClientWrites, Listed
  <2>5. \A i \in 1..Len(spans) : /\ next_span'[spans[i]] = next_span[spans[i]]
                                 /\ prev_span'[spans[i]] = prev_span[spans[i]]
    BY <2>1, <2>4, SpanWords
  <2>6. SpanListIntact'
    BY <2>2, <2>5 DEF SpanIInv, SpanListIntact, Distinct, At
  <2> QED BY <2>3, <2>6 DEF SpanIInv
<1>5. CASE UNCHANGED spanVars
  BY <1>5 DEF spanVars, SpanIInv, SpanListTypeOK, SpanListIntact, Distinct, At
<1> QED BY <1>1, <1>2, <1>3, <1>4, <1>5 DEF SpanNext

\* The list of partly used spans is a sequence at all times, for any spans and
\* whatever is written over them when they are active or full, though the
\* first one's prev need not be true (rpmalloc.c:1035-1067, 749-760).
THEOREM SpanListIntactAlways == SpanListSpec => []SpanListIntact
<1>1. SpanIInv => SpanListIntact
  BY DEF SpanIInv
<1> QED BY SpanStart, SpanNextKeeps, <1>1, PTL DEF SpanListSpec
-----------------------------------------------------------------------------
(* PointerHashMap: the inductive invariant *)

KeyAt(b) == m_buckets[b].first

\* The table is large enough that growing it makes room for one entry more.
RoomToGrow ==
  /\ m_num_buckets * LoadNum >= LoadDen
  /\ loop = "resize" => /\ m_num_buckets = 2 * OldBuckets
                      /\ OldBuckets \in Nat \ {0}
                      /\ OldBuckets * LoadNum >= LoadDen

\* The old buckets that resize has still to move.
Left == {i \in index..(OldBuckets - 1) : Full(old_buckets[i])}

\* The count is exact, and within the load factor.
Counted ==
  /\ m_element_count = Cardinality(Occupied)
  /\ loop # "resize" => m_element_count * LoadDen <= m_num_buckets * LoadNum
  /\ loop = "resize" => (m_element_count + Cardinality(Left)) * LoadDen <= OldBuckets * LoadNum

\* No key is in the table twice, nor in both tables of a resize.
OncePerKey ==
  /\ \A b, c \in Occupied : KeyAt(b) = KeyAt(c) => b = c
  /\ loop = "resize" =>
       /\ \A i, j \in Left : old_buckets[i].first = old_buckets[j].first => i = j
       /\ \A i \in Left, b \in Occupied : old_buckets[i].first # KeyAt(b)

\* An entry has a value.
HasValues ==
  /\ \A b \in Occupied : m_buckets[b].second \in Val
  /\ loop = "resize" => /\ \A i \in Left : old_buckets[i].second \in Val
                      /\ pending.second \in Val

\* erase: the cells from the hole to the neighbour are in use.
ErasePath ==
  loop = "erase" =>
    /\ hole # neighbour /\ hole \in Occupied
    /\ \A c \in Bucket : Offset(hole, c) < Offset(hole, neighbour) => c \in Occupied

MapIInv ==
  /\ MapTypeOK
  /\ RoomToGrow
  /\ Counted
  /\ OncePerKey
  /\ HasValues
  /\ ErasePath
  /\ ProbesUnbroken
-----------------------------------------------------------------------------
(* Tables of n cells, apart from the state they are in *)

Cells(n) == 0..(n - 1)
Contents == [first : Key \cup {nullptr}, second : Val \cup {Null}]
Steps(n, a, b) == (b - a) % n
Ideal(n, cell) == cell.first % n
InUse(n, T) == {b \in Cells(n) : T[b].first # nullptr}

\* c is one of the cells a probe looks at before it comes to b.
Before(n, T, c, b) == Steps(n, Ideal(n, T[b]), c) < Steps(n, Ideal(n, T[b]), b)

\* A probe for the entry of b comes to it.
Reached(n, T, b) == \A c \in Cells(n) : Before(n, T, c, b) => c \in InUse(n, T)

\* The first cell from the ideal one of key on that is empty or has the key.
Found(n, T, key, g) ==
  /\ g \in Cells(n) /\ T[g].first \in {nullptr, key}
  /\ \A c \in Cells(n) : Steps(n, key % n, c) < Steps(n, key % n, g)
                           => T[c].first \notin {nullptr, key}

\* Remainders of numbers less than a turn away from the table.
LEMMA Remainders ==
  ASSUME NEW n \in Nat \ {0}, NEW x \in Int
  PROVE  /\ x \in 0..(n - 1) => x % n = x
         /\ x \in n..(2 * n - 1) => x % n = x - n
         /\ 0 - n <= x /\ x < 0 => x % n = x + n
<1>1. x \in 0..(n - 1) => x % n = x
  OBVIOUS
<1>2. x \in n..(2 * n - 1) => x % n = x - n
  OBVIOUS
<1>3. 0 - n <= x /\ x < 0 => x % n = x + n
  OBVIOUS
<1> QED BY <1>1, <1>2, <1>3

\* What the remainders are.
LEMMA Circle ==
  ASSUME NEW n \in Nat \ {0}
  PROVE  /\ \A a, b \in Cells(n) :
              Steps(n, a, b) = IF a <= b THEN b - a ELSE b - a + n
         /\ \A b \in Cells(n) : (b + 1) % n = IF b = n - 1 THEN 0 ELSE b + 1
         /\ \A a, d \in Cells(n) : (a + d) % n = IF a + d < n THEN a + d ELSE a + d - n
         /\ \A k \in Nat : k % n \in Cells(n)
<1>1. ASSUME NEW a \in Cells(n), NEW b \in Cells(n)
      PROVE  Steps(n, a, b) = IF a <= b THEN b - a ELSE b - a + n
  <2>1. CASE a <= b
    <3>1. b - a \in 0..(n - 1)
      BY <2>1 DEF Cells
    <3> QED BY <2>1, <3>1, Remainders DEF Steps
  <2>2. CASE ~(a <= b)
    <3>1. b - a \in Int /\ 0 - n <= b - a /\ b - a < 0
      BY <2>2 DEF Cells
    <3> QED BY <2>2, <3>1, Remainders DEF Steps
  <2> QED BY <2>1, <2>2
<1>2. ASSUME NEW a \in Cells(n), NEW d \in Cells(n)
      PROVE  (a + d) % n = IF a + d < n THEN a + d ELSE a + d - n
  <2>1. CASE a + d < n
    <3>1. a + d \in 0..(n - 1)
      BY <2>1 DEF Cells
    <3> QED BY <2>1, <3>1, Remainders
  <2>2. CASE ~(a + d < n)
    <3> DEFINE x == a + d
    <3>1. x \in Int /\ x \in n..(2 * n - 1)
      BY <2>2 DEF Cells
    <3> HIDE DEF x
    <3>2. x % n = x - n
      BY <3>1, Remainders
    <3> QED BY <2>2, <3>2 DEF x, Cells
  <2> QED BY <2>1, <2>2
<1>3. ASSUME NEW b \in Cells(n) PROVE (b + 1) % n = IF b = n - 1 THEN 0 ELSE b + 1
  <2>1. CASE b = n - 1
    <3>1. b + 1 \in n..(2 * n - 1) /\ b + 1 - n = 0
      BY <2>1 DEF Cells
    <3> QED BY <2>1, <3>1, Remainders
  <2>2. CASE b # n - 1
    <3>1. b + 1 \in 0..(n - 1)
      BY <2>2 DEF Cells
    <3> QED BY <2>2, <3>1, Remainders
  <2> QED BY <2>1, <2>2
<1>4. ASSUME NEW k \in Nat PROVE k % n \in Cells(n)
  BY DEF Cells
<1> QED BY <1>1, <1>2, <1>3, <1>4

\* The ideal cell of an entry is a cell.
LEMMA IdealCell ==
  ASSUME NEW n \in Nat \ {0}, NEW T \in [Cells(n) -> Contents], NEW b \in Cells(n)
  PROVE  Ideal(n, T[b]) \in Cells(n)
<1>1. T[b].first \in Nat
  <2>1. T[b] \in Contents
    OBVIOUS
  <2>2. T[b].first \in Key \/ T[b].first = nullptr
    BY <2>1 DEF Contents
  <2>3. Key \subseteq Nat /\ nullptr \in Nat
    BY KeyAssumption DEF nullptr
  <2> QED BY <2>2, <2>3
<1> QED BY <1>1, Circle DEF Ideal

\* A table with a free cell has a place for every key, and entries that are
\* reached are found.
LEMMA FoundOnce ==
  ASSUME NEW n \in Nat \ {0}, NEW T \in [Cells(n) -> Contents], NEW key \in Key,
         NEW g, Found(n, T, key, g)
  PROVE  /\ \A h : Found(n, T, key, h) => h = g
         /\ \A b \in InUse(n, T) : T[b].first = key /\ Reached(n, T, b) => T[g].first = key
<1>1. key \in Nat \ {0} /\ key % n \in Cells(n) /\ nullptr = 0
  BY KeyAssumption, Circle DEF nullptr
<1>2. \A a, b \in Cells(n) : Steps(n, a, b) = IF a <= b THEN b - a ELSE b - a + n
  BY Circle
<1>3. ASSUME NEW b \in Cells(n), NEW c \in Cells(n),
             ~(Steps(n, key % n, c) < Steps(n, key % n, b)),
             ~(Steps(n, key % n, b) < Steps(n, key % n, c))
      PROVE  b = c
  <2> DEFINE i == key % n
  <2>1. i \in Nat /\ b \in Nat /\ c \in Nat /\ i < n /\ b < n /\ c < n
    BY <1>1 DEF Cells
  <2>2. /\ Steps(n, i, b) = IF i <= b THEN b - i ELSE b - i + n
        /\ Steps(n, i, c) = IF i <= c THEN c - i ELSE c - i + n
    BY <1>1, <1>2
  <2> HIDE DEF i
  <2>3. ~(Steps(n, i, c) < Steps(n, i, b)) /\ ~(Steps(n, i, b) < Steps(n, i, c))
    BY <1>3 DEF i
  <2> QED BY <2>1, <2>2, <2>3
<1>4. ASSUME NEW h, Found(n, T, key, h) PROVE h = g
  BY <1>3, <1>4 DEF Found
<1>5. ASSUME NEW b \in InUse(n, T), T[b].first = key, Reached(n, T, b)
      PROVE  T[g].first = key
  <2>1. b \in Cells(n) /\ g \in Cells(n) /\ Ideal(n, T[b]) = key % n
    BY <1>5 DEF InUse, Found, Ideal
  <2>2. ~(Steps(n, key % n, b) < Steps(n, key % n, g))
    BY <1>5, <2>1 DEF Found
  <2>3. CASE Steps(n, key % n, g) < Steps(n, key % n, b)
    <3>1. g \in InUse(n, T)
      BY <1>5, <2>1, <2>3 DEF Reached, Before
    <3> QED BY <3>1 DEF InUse, Found
  <2>4. CASE ~(Steps(n, key % n, g) < Steps(n, key % n, b))
    BY <1>3, <1>5, <2>1, <2>2, <2>4
  <2> QED BY <2>3, <2>4
<1> QED BY <1>4, <1>5

\* Steps lead to the cell they count the way to.
LEMMA Walk ==
  ASSUME NEW n \in Nat \ {0}, NEW i \in Cells(n)
  PROVE  /\ \A c \in Cells(n) : /\ Steps(n, i, c) \in Cells(n)
                                /\ (i + Steps(n, i, c)) % n = c
         /\ \A d \in Cells(n) : /\ (i + d) % n \in Cells(n)
                                /\ Steps(n, i, (i + d) % n) = d
<1>1. i \in Nat /\ i < n
  BY DEF Cells
<1>2. ASSUME NEW c \in Cells(n)
      PROVE  Steps(n, i, c) \in Cells(n) /\ (i + Steps(n, i, c)) % n = c
  <2> DEFINE d == Steps(n, i, c)
  <2>1. c \in Nat /\ c < n /\ d = IF i <= c THEN c - i ELSE c - i + n
    BY Circle DEF Cells
  <2> HIDE DEF d
  <2>2. d \in Cells(n)
    BY <1>1, <2>1 DEF Cells
  <2>3. (i + d) % n = IF i + d < n THEN i + d ELSE i + d - n
    BY <2>2, Circle
  <2>4. (i + d) % n = c
    BY <1>1, <2>1, <2>3
  <2> QED BY <2>2, <2>4 DEF d
<1>3. ASSUME NEW d \in Cells(n)
      PROVE  (i + d) % n \in Cells(n) /\ Steps(n, i, (i + d) % n) = d
  <2> DEFINE c == (i + d) % n
  <2>1. c = IF i + d < n THEN i + d ELSE i + d - n
    BY Circle
  <2> HIDE DEF c
  <2>2. d \in Nat /\ d < n
    BY DEF Cells
  <2>3. c \in Cells(n)
    BY <1>1, <2>1, <2>2 DEF Cells
  <2>4. Steps(n, i, c) = IF i <= c THEN c - i ELSE c - i + n
    BY <2>3, Circle
  <2>5. Steps(n, i, c) = d
    BY <1>1, <2>1, <2>2, <2>4
  <2> QED BY <2>3, <2>5 DEF c
<1> QED BY <1>2, <1>3

\* If a walk from i passes h before b, and one from h passes x before b, then
\* the walk from i passes x before b.
LEMMA WalkThrough ==
  ASSUME NEW n \in Nat \ {0}, NEW i \in Cells(n), NEW h \in Cells(n),
         NEW x \in Cells(n), NEW b \in Cells(n),
         Steps(n, i, h) < Steps(n, i, b), Steps(n, h, x) < Steps(n, h, b)
  PROVE  Steps(n, i, x) < Steps(n, i, b)
<1>1. /\ Steps(n, i, h) = IF i <= h THEN h - i ELSE h - i + n
      /\ Steps(n, i, b) = IF i <= b THEN b - i ELSE b - i + n
      /\ Steps(n, h, x) = IF h <= x THEN x - h ELSE x - h + n
      /\ Steps(n, h, b) = IF h <= b THEN b - h ELSE b - h + n
      /\ Steps(n, i, x) = IF i <= x THEN x - i ELSE x - i + n
  BY Circle
<1>2. /\ i \in Nat /\ h \in Nat /\ x \in Nat /\ b \in Nat
      /\ i < n /\ h < n /\ x < n /\ b < n
  BY DEF Cells
<1> QED BY <1>1, <1>2

\* Going on from x by one cell, to y: x is the only cell passed, and if y is
\* the start h of the walk, the walk has passed every cell.
LEMMA WalkOn ==
  ASSUME NEW n \in Nat \ {0}, NEW h \in Cells(n), NEW x \in Cells(n),
         NEW y, y = (x + 1) % n
  PROVE  /\ y \in Cells(n)
         /\ Steps(n, h, h) = 0
         /\ \A c \in Cells(n) :
              /\ ~(Steps(n, h, c) < Steps(n, h, h))
              /\ Steps(n, h, c) < Steps(n, h, y) => c = x \/ Steps(n, h, c) < Steps(n, h, x)
              /\ y = h => c = x \/ Steps(n, h, c) < Steps(n, h, x)
<1>1. y = IF x = n - 1 THEN 0 ELSE x + 1
  BY Circle
<1>2. /\ h \in Nat /\ x \in Nat /\ h < n /\ x < n
  BY DEF Cells
<1>3. y \in Cells(n)
  BY <1>1, <1>2 DEF Cells
<1>4. \A a, b \in Cells(n) : Steps(n, a, b) = IF a <= b THEN b - a ELSE b - a + n
  BY Circle
<1>5. /\ Steps(n, h, h) = 0
      /\ Steps(n, h, y) = IF h <= y THEN y - h ELSE y - h + n
      /\ Steps(n, h, x) = IF h <= x THEN x - h ELSE x - h + n
  BY <1>2, <1>3, <1>4
<1>6. ASSUME NEW c \in Cells(n)
      PROVE  /\ ~(Steps(n, h, c) < Steps(n, h, h))
             /\ Steps(n, h, c) < Steps(n, h, y) => c = x \/ Steps(n, h, c) < Steps(n, h, x)
             /\ y = h => c = x \/ Steps(n, h, c) < Steps(n, h, x)
  <2>1. c \in Nat /\ c < n
    BY DEF Cells
  <2>2. Steps(n, h, c) = IF h <= c THEN c - h ELSE c - h + n
    BY <1>4, SMTT(30)
  <2> QED BY <2>1, <2>2, <1>1, <1>2, <1>5
<1> QED BY <1>3, <1>5, <1>6

\* A table that is not full has a place for every key, which is the cell that
\* get_bucket returns.
LEMMA FirstStop ==
  ASSUME NEW n \in Nat \ {0}, NEW T \in [Cells(n) -> Contents], NEW key \in Nat,
         InUse(n, T) # Cells(n), NEW stops, NEW g,
         stops = {d \in Cells(n) : T[((key % n) + d) % n].first \in {nullptr, key}},
         g = ((key % n) + Min(stops)) % n
  PROVE  Found(n, T, key, g)
<1> DEFINE i == key % n
           m == Min(stops)
<1>1. i \in Cells(n)
  BY Circle
<1> HIDE DEF i
<1>2. stops = {d \in Cells(n) : T[(i + d) % n].first \in {nullptr, key}}
  BY DEF i
<1>3. PICK c \in Cells(n) : T[c].first = nullptr
  BY DEF InUse
<1>4. Steps(n, i, c) \in stops
  BY <1>1, <1>2, <1>3, Walk
<1>5. stops \subseteq Nat /\ stops # {}
  BY <1>2, <1>4 DEF Cells
<1>6. m \in stops /\ \A d \in stops : m <= d
  BY <1>5, LeastElement DEF Min
<1> HIDE DEF m
<1>7. g = (i + m) % n
  BY DEF i, m
<1>8. m \in Cells(n) /\ T[g].first \in {nullptr, key}
  BY <1>2, <1>6, <1>7
<1>9. g \in Cells(n) /\ Steps(n, i, g) = m
  BY <1>1, <1>7, <1>8, Walk
<1>10. ASSUME NEW b \in Cells(n), Steps(n, i, b) < Steps(n, i, g)
       PROVE  T[b].first \notin {nullptr, key}
  <2> DEFINE d == Steps(n, i, b)
  <2>1. d \in Cells(n) /\ (i + d) % n = b
    BY <1>1, Walk
  <2>2. d < m
    BY <1>9, <1>10
  <2> HIDE DEF d
  <2>3. d \notin stops
    BY <1>6, <1>8, <2>1, <2>2 DEF Cells
  <2> QED BY <1>2, <2>1, <2>3
<1> QED BY <1>8, <1>9, <1>10 DEF Found, i

\* Putting an entry into the cell that was found for its key: every entry is
\* reached as before, and so is the new one.
LEMMA PutReaches ==
  ASSUME NEW n \in Nat \ {0}, NEW T \in [Cells(n) -> Contents], NEW e \in Contents,
         e.first # nullptr, NEW h, Found(n, T, e.first, h), T[h].first = nullptr,
         NEW U \in [Cells(n) -> Contents],
         U[h] = e, \A b \in Cells(n) : b # h => U[b] = T[b]
  PROVE  /\ h \in Cells(n) /\ h \notin InUse(n, T)
         /\ InUse(n, U) = InUse(n, T) \cup {h}
         /\ Reached(n, U, h)
         /\ \A b \in InUse(n, T) : Reached(n, T, b) => Reached(n, U, b)
<1>1. h \in Cells(n)
  BY DEF Found
<1>2. /\ U \in [Cells(n) -> Contents]
      /\ U[h] = e /\ \A b \in Cells(n) : b # h => U[b] = T[b]
  OBVIOUS
<1>3. h \notin InUse(n, T) /\ InUse(n, U) = InUse(n, T) \cup {h}
  BY <1>1, <1>2 DEF InUse
<1>4. ASSUME NEW c \in Cells(n), Before(n, U, c, h) PROVE c \in InUse(n, U)
  <2>1. T[c].first # nullptr
    BY <1>2, <1>4 DEF Before, Ideal, Found
  <2> QED BY <1>3, <2>1 DEF InUse
<1>5. ASSUME NEW b \in InUse(n, T), Reached(n, T, b), NEW c \in Cells(n), Before(n, U, c, b)
      PROVE  c \in InUse(n, U)
  <2>1. b \in Cells(n) /\ U[b] = T[b]
    BY <1>2, <1>3 DEF InUse
  <2>2. Before(n, T, c, b)
    BY <1>5, <2>1 DEF Before
  <2> QED BY <1>3, <1>5, <2>2 DEF Reached
<1>6. Reached(n, U, h)
  BY <1>4 DEF Reached
<1>7. \A b \in InUse(n, T) : Reached(n, T, b) => Reached(n, U, b)
  BY <1>5 DEF Reached
<1> QED BY <1>1, <1>3, <1>6, <1>7

\* erase moves the entry of x into the hole h, on whose way it is: every entry
\* is reached as before, but for the one to be erased, which is now at x.
LEMMA ShiftReaches ==
  ASSUME NEW n \in Nat \ {0}, NEW T \in [Cells(n) -> Contents],
         NEW h \in InUse(n, T), NEW x \in InUse(n, T), h # x, Before(n, T, h, x),
         \A b \in InUse(n, T) : b # h => Reached(n, T, b),
         NEW U \in [Cells(n) -> Contents], U[h] = T[x], U[x] = T[h],
         \A b \in Cells(n) : b # h /\ b # x => U[b] = T[b]
  PROVE  /\ InUse(n, U) = InUse(n, T)
         /\ \A b \in InUse(n, U) : b # x => Reached(n, U, b)
<1>1. h \in Cells(n) /\ x \in Cells(n) /\ T[h].first # nullptr /\ T[x].first # nullptr
  BY DEF InUse
<1>2. /\ U \in [Cells(n) -> Contents]
      /\ U[h] = T[x] /\ U[x] = T[h]
      /\ \A b \in Cells(n) : b # h /\ b # x => U[b] = T[b]
  OBVIOUS
<1>3. InUse(n, U) = InUse(n, T)
  BY <1>1, <1>2 DEF InUse
<1>4. ASSUME NEW b \in InUse(n, U), b # x, NEW c \in Cells(n), Before(n, U, c, b)
      PROVE  c \in InUse(n, U)
  <2>1. CASE b = h
    <3>1. /\ Steps(n, Ideal(n, T[x]), c) < Steps(n, Ideal(n, T[x]), h)
          /\ Steps(n, Ideal(n, T[x]), h) < Steps(n, Ideal(n, T[x]), x)
      BY <1>2, <1>4, <2>1 DEF Before
    <3>2. /\ Steps(n, Ideal(n, T[x]), c) \in Nat /\ Steps(n, Ideal(n, T[x]), h) \in Nat
          /\ Steps(n, Ideal(n, T[x]), x) \in Nat
      <4>1. Ideal(n, T[x]) \in Cells(n)
        BY <1>1, IdealCell
      <4>2. \A d \in Cells(n) : Steps(n, Ideal(n, T[x]), d) \in Cells(n)
        BY <4>1, Walk
      <4>3. Cells(n) \subseteq Nat
        BY DEF Cells
      <4> QED BY <1>1, <4>2, <4>3
    <3>3. Before(n, T, c, x)
      BY <3>1, <3>2 DEF Before
    <3> QED BY <1>3, <3>3 DEF Reached
  <2>2. CASE b # h
    <3>1. b \in InUse(n, T) /\ b \in Cells(n) /\ U[b] = T[b]
      BY <1>2, <1>3, <1>4, <2>2 DEF InUse
    <3>2. Before(n, T, c, b)
      BY <1>4, <3>1 DEF Before
    <3> QED BY <1>3, <2>2, <3>1, <3>2 DEF Reached
  <2> QED BY <2>1, <2>2
<1>5. \A b \in InUse(n, U) : b # x => Reached(n, U, b)
  BY <1>4 DEF Reached
<1> QED BY <1>3, <1>5

\* erase empties the hole h when the next cell x is empty: every other entry
\* is reached as before, since none that lies between h and x has h on its
\* way, and one that lies beyond x has not, as x is empty.
LEMMA EmptyReaches ==
  ASSUME NEW n \in Nat \ {0}, NEW T \in [Cells(n) -> Contents],
         NEW h \in InUse(n, T), NEW x \in Cells(n), T[x].first = nullptr,
         \A b \in InUse(n, T) : b # h =>
            /\ Reached(n, T, b)
            /\ Steps(n, h, b) < Steps(n, h, x) => ~Before(n, T, h, b),
         NEW U \in [Cells(n) -> Contents], U[h] = EmptyCell,
         \A b \in Cells(n) : b # h => U[b] = T[b]
  PROVE  /\ InUse(n, U) = InUse(n, T) \ {h}
         /\ \A b \in InUse(n, U) : Reached(n, U, b)
<1>1. h \in Cells(n) /\ T[h].first # nullptr /\ x # h
  BY DEF InUse
<1>2. EmptyCell \in Contents /\ EmptyCell.first = nullptr
  BY DEF EmptyCell, Contents
<1>3. /\ U \in [Cells(n) -> Contents]
      /\ U[h] = EmptyCell
      /\ \A b \in Cells(n) : b # h => U[b] = T[b]
  OBVIOUS
<1>4. InUse(n, U) = InUse(n, T) \ {h}
  BY <1>1, <1>2, <1>3 DEF InUse
<1>5. ASSUME NEW b \in InUse(n, U), NEW c \in Cells(n), Before(n, U, c, b)
      PROVE  c \in InUse(n, U)
  <2>1. b \in InUse(n, T) /\ b # h /\ b \in Cells(n) /\ U[b] = T[b]
    BY <1>3, <1>4 DEF InUse
  <2>2. Before(n, T, c, b)
    BY <1>5, <2>1 DEF Before
  <2>3. c \in InUse(n, T)
    BY <2>1, <2>2 DEF Reached
  <2>4. ASSUME c = h PROVE FALSE
    <3> DEFINE i == Ideal(n, T[b])
    <3>1. i \in Cells(n)
      BY <2>1, IdealCell
    <3>2. Steps(n, i, h) < Steps(n, i, b)
      BY <2>2, <2>4 DEF Before
    <3>3. ~(Steps(n, h, b) < Steps(n, h, x))
      BY <2>1, <2>2, <2>4
    <3>4. b # x
      BY <2>1 DEF InUse
    <3>5. /\ Steps(n, h, b) = IF h <= b THEN b - h ELSE b - h + n
          /\ Steps(n, h, x) = IF h <= x THEN x - h ELSE x - h + n
      BY <1>1, <2>1, Circle
    <3>6. Steps(n, h, x) < Steps(n, h, b)
      BY <1>1, <2>1, <3>3, <3>4, <3>5 DEF Cells
    <3> HIDE DEF i
    <3>7. Steps(n, i, x) < Steps(n, i, b)
      BY <1>1, <2>1, <3>1, <3>2, <3>6, WalkThrough
    <3>8. Before(n, T, x, b)
      BY <3>7 DEF Before, i
    <3>9. x \in InUse(n, T)
      BY <2>1, <3>8 DEF Reached
    <3> QED BY <3>9 DEF InUse
  <2> QED BY <1>4, <2>3, <2>4
<1>6. \A b \in InUse(n, U) : Reached(n, U, b)
  BY <1>5 DEF Reached
<1> QED BY <1>4, <1>6
-----------------------------------------------------------------------------
(* The state of the map as a table *)

\* ProbesUnbroken of a table of n cells in phase p with hole h and neighbour x.
Probes(n, T, p, h, x) ==
  \A b \in InUse(n, T) : ~(p = "erase" /\ b = h) =>
    /\ Reached(n, T, b)
    /\ p = "erase" /\ Steps(n, h, b) < Steps(n, h, x) => ~Before(n, T, h, b)

\* The definitions of the map are those about tables.
LEMMA AsTable ==
  /\ Bucket = Cells(m_num_buckets)
  /\ Occupied = InUse(m_num_buckets, m_buckets)
  /\ \A a, b : Offset(a, b) = Steps(m_num_buckets, a, b)
  /\ ProbesUnbroken <=> Probes(m_num_buckets, m_buckets, loop, hole, neighbour)
  /\ MapTypeOK => /\ m_num_buckets \in Nat \ {0}
               /\ m_buckets \in [Cells(m_num_buckets) -> Contents]
               /\ hole \in Cells(m_num_buckets) /\ neighbour \in Cells(m_num_buckets)
<1>1. Bucket = Cells(m_num_buckets)
  BY DEF Bucket, Cells
<1>2. Occupied = InUse(m_num_buckets, m_buckets)
  BY <1>1 DEF Occupied, InUse, Full
<1>3. \A a, b : Offset(a, b) = Steps(m_num_buckets, a, b)
  BY DEF Offset, Steps
<1>4. ProbesUnbroken <=> Probes(m_num_buckets, m_buckets, loop, hole, neighbour)
  BY <1>1, <1>2, <1>3 DEF ProbesUnbroken, Probes, Reached, Before, Ideal,
     get_ideal_bucket, hash, is_between
<1>5. MapTypeOK => /\ m_num_buckets \in Nat \ {0}
                /\ m_buckets \in [Cells(m_num_buckets) -> Contents]
                /\ hole \in Cells(m_num_buckets) /\ neighbour \in Cells(m_num_buckets)
  BY <1>1 DEF MapTypeOK, Contents
<1> QED BY <1>1, <1>2, <1>3, <1>4, <1>5

\* The same of the state after a step.
LEMMA AsTableNext ==
  /\ Bucket' = Cells(m_num_buckets')
  /\ Occupied' = InUse(m_num_buckets', m_buckets')
  /\ Probes(m_num_buckets', m_buckets', loop', hole', neighbour') => ProbesUnbroken'
<1>1. Bucket' = Cells(m_num_buckets')
  BY DEF Bucket, Cells
<1>2. Occupied' = InUse(m_num_buckets', m_buckets')
  BY <1>1 DEF Occupied, InUse, Full
<1>3. Probes(m_num_buckets', m_buckets', loop', hole', neighbour') => ProbesUnbroken'
  BY <1>1, <1>2 DEF ProbesUnbroken, Probes, Reached, Before, Ideal,
     get_ideal_bucket, hash, is_between, Offset, Steps
<1> QED BY <1>1, <1>2, <1>3

\* As many entries as the load factor admits leave a cell free.
LEMMA LoadLeavesRoom ==
  ASSUME NEW n \in Nat \ {0}, NEW c \in Nat, c * LoadDen <= n * LoadNum
  PROVE  c < n
<1>1. LoadNum \in Nat /\ LoadDen \in Nat \ {0} /\ LoadNum < LoadDen
  BY TableAssumption
<1>2. n * LoadNum < n * LoadDen
  BY <1>1
<1>3. c * LoadDen < n * LoadDen
  BY <1>1, <1>2
<1> QED BY <1>1, <1>3

\* The cells in use can be counted.
LEMMA InUseCount ==
  ASSUME NEW n \in Nat \ {0}, NEW T
  PROVE  /\ IsFiniteSet(InUse(n, T)) /\ Cardinality(InUse(n, T)) \in Nat
         /\ Cardinality(InUse(n, T)) < n => InUse(n, T) # Cells(n)
<1>1. IsFiniteSet(Cells(n)) /\ Cardinality(Cells(n)) = n
  BY FS_Interval DEF Cells
<1>2. InUse(n, T) \subseteq Cells(n)
  BY DEF InUse
<1>3. IsFiniteSet(InUse(n, T))
  BY <1>1, <1>2, FS_Subset
<1>4. Cardinality(InUse(n, T)) \in Nat
  BY <1>3, FS_CardinalityType
<1> QED BY <1>1, <1>3, <1>4

\* What the invariant says of the count: a cell is always free.
LEMMA RoomLeft ==
  ASSUME MapTypeOK, RoomToGrow, Counted
  PROVE  /\ m_element_count < m_num_buckets
         /\ InUse(m_num_buckets, m_buckets) # Cells(m_num_buckets)
<1> DEFINE c == m_element_count
           n == m_num_buckets
<1>1. n \in Nat \ {0} /\ c \in Nat /\ LoadNum \in Nat /\ LoadDen \in Nat \ {0}
  BY TableAssumption DEF MapTypeOK
<1>2. c = Cardinality(InUse(n, m_buckets))
  BY AsTable DEF Counted
<1>3. c * LoadDen <= n * LoadNum
  <2>1. CASE loop # "resize"
    BY <2>1 DEF Counted
  <2>2. CASE loop = "resize"
    <3> DEFINE l == Cardinality(Left)
               o == OldBuckets
    <3>1. o \in Nat \ {0} /\ n = 2 * o /\ (c + l) * LoadDen <= o * LoadNum
      BY <2>2 DEF Counted, RoomToGrow
    <3>2. l \in Nat
      <4>1. IsFiniteSet(index..(o - 1))
        <5>1. index \in Int /\ o - 1 \in Int
          BY <2>2, <3>1 DEF MapTypeOK
        <5> QED BY <5>1, FS_Interval
      <4>2. Left \subseteq index..(o - 1)
        BY DEF Left
      <4> QED BY <4>1, <4>2, FS_Subset, FS_CardinalityType
    <3> HIDE DEF l, o, c, n
    <3>3. c * LoadDen <= (c + l) * LoadDen
      BY <1>1, <3>2
    <3>4. o * LoadNum <= n * LoadNum
      BY <1>1, <3>1
    <3> QED BY <1>1, <3>1, <3>2, <3>3, <3>4
  <2> QED BY <2>1, <2>2
<1>4. c < n
  BY <1>1, <1>3, LoadLeavesRoom
<1> QED BY <1>1, <1>2, <1>4, InUseCount

\* get_bucket ends, at the cell that has the key or at an empty one.
LEMMA BucketFound ==
  ASSUME MapTypeOK, InUse(m_num_buckets, m_buckets) # Cells(m_num_buckets), NEW key \in Key
  PROVE  Found(m_num_buckets, m_buckets, key, get_bucket(key))
<1> DEFINE n == m_num_buckets
           T == m_buckets
           stops == {d \in Cells(n) : T[((key % n) + d) % n].first \in {nullptr, key}}
           g == ((key % n) + Min(stops)) % n
<1>1. n \in Nat \ {0} /\ T \in [Cells(n) -> Contents]
  BY AsTable
<1>2. key \in Nat
  BY KeyAssumption
<1>3. get_bucket(key) = g
  BY DEF get_bucket, get_ideal_bucket, hash, Bucket, Cells
<1>4. PICK s, f : s = stops /\ f = g
  OBVIOUS
<1> HIDE DEF n, T
<1>5. Found(n, T, key, f)
  BY <1>1, <1>2, <1>4, FirstStop DEF n, T
<1> QED BY <1>3, <1>4, <1>5 DEF n, T
-----------------------------------------------------------------------------
(* Putting an entry *)

\* What the cells in use hold is what Put leaves there, and one more entry.
Stored(key, val, h) ==
  /\ InUse(m_num_buckets', m_buckets') = InUse(m_num_buckets, m_buckets) \cup {h}
  /\ m_buckets'[h] = [first |-> key, second |-> val]
  /\ \A b \in InUse(m_num_buckets, m_buckets) : m_buckets'[b] = m_buckets[b]

\* Put changes nothing, when there is no key or the key is in the table; or it
\* stores the entry in an empty cell.
LEMMA PutStores ==
  ASSUME MapIInv, loop # "erase", NEW key \in Key \cup {nullptr}, NEW val \in Val \cup {Null},
         Put(key, val), m_num_buckets' = m_num_buckets
  PROVE  \/ /\ m_buckets' = m_buckets /\ m_element_count' = m_element_count
            /\ key # nullptr => \E b \in Occupied : KeyAt(b) = key
         \/ /\ key \in Key /\ \A b \in Occupied : KeyAt(b) # key
            /\ m_element_count' = m_element_count + 1
            /\ m_buckets' \in [Cells(m_num_buckets) -> Contents]
            /\ \A b \in InUse(m_num_buckets', m_buckets') :
                 Reached(m_num_buckets', m_buckets', b)
            /\ \E h \in Cells(m_num_buckets) \ Occupied : Stored(key, val, h)
<1> DEFINE n == m_num_buckets
           T == m_buckets
           U == m_buckets'
           g == get_bucket(key)
           e == [first |-> key, second |-> val]
<1>1. /\ n \in Nat \ {0} /\ T \in [Cells(n) -> Contents] /\ Occupied = InUse(n, T)
      /\ MapTypeOK /\ InUse(n, T) # Cells(n)
      /\ \A b \in InUse(n, T) : Reached(n, T, b)
  BY AsTable, RoomLeft DEF MapIInv, Probes
<1>2. CASE key = nullptr
  BY <1>2 DEF Put
<1>3. CASE key # nullptr
  <2>1. key \in Key
    BY <1>3
  <2>2. Found(n, T, key, g)
    BY <1>1, <2>1, BucketFound
  <2>3. g \in Cells(n) /\ T[g].first \in {nullptr, key}
    BY <2>2 DEF Found
  <2>4. CASE T[g].first = key
    <3>1. g \in Occupied /\ KeyAt(g) = key
      BY <1>1, <1>3, <2>3, <2>4 DEF InUse, KeyAt
    <3>2. m_buckets' = m_buckets /\ m_element_count' = m_element_count
      BY <1>3, <2>4 DEF Put
    <3> QED BY <3>1, <3>2
  <2>5. CASE T[g].first = nullptr
    <3>1. U = [T EXCEPT ![g] = e] /\ m_element_count' = m_element_count + 1
      BY <1>3, <2>5 DEF Put
    <3>2. e \in Contents /\ e.first = key
      BY DEF Contents
    <3>3. ASSUME NEW b \in InUse(n, T) PROVE T[b].first # key
      BY <1>1, <1>3, <2>1, <2>2, <2>5, FoundOnce
    <3> HIDE DEF n, T, U, g, e
    <3>4. /\ U \in [Cells(n) -> Contents]
          /\ U[g] = e /\ \A b \in Cells(n) : b # g => U[b] = T[b]
      BY <1>1, <2>3, <3>1, <3>2
    <3>5. /\ g \in Cells(n) /\ g \notin InUse(n, T)
          /\ InUse(n, U) = InUse(n, T) \cup {g}
          /\ Reached(n, U, g)
          /\ \A b \in InUse(n, T) : Reached(n, T, b) => Reached(n, U, b)
      <4>1. e.first # nullptr /\ Found(n, T, e.first, g)
        BY <1>3, <2>2, <3>2
      <4> QED BY <1>1, <2>5, <3>2, <3>4, <4>1, PutReaches
    <3>6. \A b \in InUse(n, U) : Reached(n, U, b)
      BY <1>1, <3>5
    <3>7. \A b \in InUse(n, T) : U[b] = T[b]
      BY <3>4, <3>5 DEF InUse
    <3>8. Stored(key, val, g)
      BY <3>4, <3>5, <3>7 DEF Stored, n, T, U, e
    <3>9. g \in Cells(n) \ Occupied /\ \A b \in Occupied : KeyAt(b) # key
      BY <1>1, <3>3, <3>5 DEF T, KeyAt
    <3> QED BY <2>1, <3>1, <3>4, <3>6, <3>8, <3>9 DEF n, T, U
  <2> QED BY <2>3, <2>4, <2>5
<1> QED BY <1>2, <1>3

\* What Put keeps of the invariant when no erase is under way.
LEMMA PutKeeps ==
  ASSUME MapIInv, loop # "erase", NEW key \in Key \cup {nullptr}, NEW val \in Val \cup {Null},
         key # nullptr => val \in Val,
         Put(key, val), m_num_buckets' = m_num_buckets, loop' # "erase"
  PROVE  /\ m_buckets' \in [Cells(m_num_buckets) -> Contents]
         /\ m_element_count' \in 0..m_num_buckets
         /\ m_element_count' <= m_element_count + 1
         /\ m_element_count' = Cardinality(Occupied')
         /\ \A b, c \in Occupied' : KeyAt(b)' = KeyAt(c)' => b = c
         /\ \A b \in Occupied' : m_buckets'[b].second \in Val
         /\ ProbesUnbroken'
<1> DEFINE n == m_num_buckets
           T == m_buckets
           U == m_buckets'
<1>1. /\ n \in Nat \ {0} /\ T \in [Cells(n) -> Contents] /\ Occupied = InUse(n, T)
      /\ \A b \in InUse(n, T) : Reached(n, T, b)
      /\ m_element_count \in Nat /\ m_element_count < n
      /\ m_element_count = Cardinality(InUse(n, T))
      /\ \A b, c \in InUse(n, T) : T[b].first = T[c].first => b = c
      /\ \A b \in InUse(n, T) : T[b].second \in Val
  BY AsTable, RoomLeft DEF MapIInv, Probes, MapTypeOK, Counted, OncePerKey, HasValues, KeyAt
<1>2. Occupied' = InUse(n, U)
  BY AsTableNext
<1>3. (\A b \in InUse(n, U) : Reached(n, U, b)) => ProbesUnbroken'
  BY AsTableNext DEF Probes
<1>4. CASE m_buckets' = m_buckets /\ m_element_count' = m_element_count
  BY <1>1, <1>2, <1>3, <1>4 DEF KeyAt
<1>5. CASE /\ key \in Key /\ \A b \in Occupied : KeyAt(b) # key
           /\ m_element_count' = m_element_count + 1
           /\ m_buckets' \in [Cells(m_num_buckets) -> Contents]
           /\ \A b \in InUse(m_num_buckets', m_buckets') :
                Reached(m_num_buckets', m_buckets', b)
           /\ \E h \in Cells(m_num_buckets) \ Occupied : Stored(key, val, h)
  <2>1. PICK h \in Cells(n) \ InUse(n, T) : Stored(key, val, h)
    BY <1>1, <1>5
  <2>2. /\ InUse(n, U) = InUse(n, T) \cup {h}
        /\ U[h].first = key /\ U[h].second = val
        /\ \A b \in InUse(n, T) : U[b] = T[b]
    BY <2>1 DEF Stored
  <2>3. Cardinality(InUse(n, U)) = Cardinality(InUse(n, T)) + 1
    <3>1. IsFiniteSet(InUse(n, T))
      BY <1>1, InUseCount
    <3> QED BY <2>1, <2>2, <3>1, FS_AddElement
  <2>4. ASSUME NEW b \in InUse(n, U), NEW c \in InUse(n, U), U[b].first = U[c].first
        PROVE  b = c
    BY <1>1, <1>5, <2>2, <2>4 DEF KeyAt
  <2>5. ASSUME NEW b \in InUse(n, U) PROVE U[b].second \in Val
    <3>1. val \in Val
      BY <1>5, KeyAssumption
    <3> QED BY <1>1, <2>2, <3>1
  <2> QED BY <1>1, <1>2, <1>3, <1>5, <2>3, <2>4, <2>5 DEF KeyAt
<1>6. \/ /\ m_buckets' = m_buckets /\ m_element_count' = m_element_count
         /\ key # nullptr => \E b \in Occupied : KeyAt(b) = key
      \/ /\ key \in Key /\ \A b \in Occupied : KeyAt(b) # key
         /\ m_element_count' = m_element_count + 1
         /\ m_buckets' \in [Cells(m_num_buckets) -> Contents]
         /\ \A b \in InUse(m_num_buckets', m_buckets') :
              Reached(m_num_buckets', m_buckets', b)
         /\ \E h \in Cells(m_num_buckets) \ Occupied : Stored(key, val, h)
  BY PutStores
<1> QED BY <1>4, <1>5, <1>6
-----------------------------------------------------------------------------
(* Every step keeps the invariant *)

\* More entries are a heavier load.
LEMMA Heavier ==
  ASSUME NEW a \in Nat, NEW b \in Nat, a <= b
  PROVE  a * LoadDen <= b * LoadDen
<1>1. LoadDen \in Nat
  BY TableAssumption
<1> QED BY <1>1

\* The empty table of MapInit and of resize.
LEMMA EmptyTableFacts ==
  ASSUME NEW n \in Nat \ {0}
  PROVE  /\ EmptyTable(n) \in [Cells(n) -> Contents]
         /\ InUse(n, EmptyTable(n)) = {}
         /\ Cardinality(InUse(n, EmptyTable(n))) = 0
<1>1. EmptyCell \in Contents /\ EmptyCell.first = nullptr
  BY DEF EmptyCell, Contents
<1>2. EmptyTable(n) = [b \in Cells(n) |-> EmptyCell]
  BY DEF EmptyTable, Cells
<1>3. InUse(n, EmptyTable(n)) = {}
  BY <1>1, <1>2 DEF InUse
<1> QED BY <1>1, <1>2, <1>3, FS_EmptySet

\* The empty map of the constructor.
LEMMA InitHolds == MapInit => MapIInv
<1> SUFFICES ASSUME MapInit PROVE MapIInv
  OBVIOUS
<1> DEFINE n == m_num_buckets
<1>1. /\ n \in Nat \ {0} /\ n * LoadNum >= LoadDen /\ LoadNum \in Nat /\ LoadDen \in Nat \ {0}
      /\ m_buckets = EmptyTable(n) /\ m_element_count = 0
      /\ loop = "idle" /\ pending = EmptyCell /\ hole = 0 /\ neighbour = 0
  BY TableAssumption DEF MapInit, AtRest
<1>2. Occupied = {} /\ Cardinality(Occupied) = 0 /\ m_buckets \in [Cells(n) -> Contents]
  BY <1>1, EmptyTableFacts, AsTable
<1>3. Bucket = Cells(n) /\ 0 \in Bucket /\ EmptyCell \in Contents
  BY <1>1 DEF Bucket, Cells, EmptyCell, Contents
<1>4. MapTypeOK
  BY <1>1, <1>2, <1>3 DEF MapTypeOK, Contents
<1>5. RoomToGrow
  BY <1>1 DEF RoomToGrow
<1>6. Counted
  BY <1>1, <1>2 DEF Counted
<1>7. OncePerKey /\ HasValues /\ ErasePath /\ ProbesUnbroken
  BY <1>1, <1>2 DEF OncePerKey, HasValues, ErasePath, ProbesUnbroken
<1> QED BY <1>4, <1>5, <1>6, <1>7 DEF MapIInv

\* insert with room for one entry more.
LEMMA InsertStep ==
  ASSUME MapIInv, NEW key \in Key \cup {nullptr}, NEW val \in Val, Insert(key, val)
  PROVE  MapIInv'
<1> DEFINE n == m_num_buckets
<1>1. /\ loop = "idle" /\ loop' = "idle" /\ m_num_buckets' = m_num_buckets
      /\ Put(key, val) /\ ~NeedsResize
      /\ pending' = pending /\ hole' = hole /\ neighbour' = neighbour
  BY DEF Insert
<1>2. /\ m_buckets' \in [Cells(m_num_buckets) -> Contents]
      /\ m_element_count' \in 0..m_num_buckets
      /\ m_element_count' <= m_element_count + 1
      /\ m_element_count' = Cardinality(Occupied')
      /\ \A b, c \in Occupied' : KeyAt(b)' = KeyAt(c)' => b = c
      /\ \A b \in Occupied' : m_buckets'[b].second \in Val
      /\ ProbesUnbroken'
  BY <1>1, PutKeeps
<1>3. n \in Nat \ {0} /\ m_element_count \in Nat /\ Bucket = Cells(n) /\ Bucket' = Cells(n)
  BY <1>1, AsTable, AsTableNext DEF MapIInv, MapTypeOK
<1>4. MapTypeOK'
  BY <1>1, <1>2, <1>3 DEF MapIInv, MapTypeOK, Contents
<1>5. RoomToGrow'
  BY <1>1 DEF MapIInv, RoomToGrow
<1>6. m_element_count' * LoadDen <= n * LoadNum
  <2> DEFINE a == m_element_count'
             c == m_element_count + 1
             l == n * LoadNum
  <2>1. a \in Nat /\ c \in Nat /\ a <= c
    BY <1>2, <1>3
  <2>2. ~(c * LoadDen > l)
    BY <1>1 DEF NeedsResize
  <2>3. LoadDen \in Nat /\ l \in Nat
    BY <1>3, TableAssumption
  <2> HIDE DEF a, c, l
  <2>4. a * LoadDen <= c * LoadDen
    BY <2>1, Heavier
  <2>5. a * LoadDen <= l
    BY <2>1, <2>2, <2>3, <2>4
  <2> QED BY <2>5 DEF a, l
<1>7. Counted'
  BY <1>1, <1>2, <1>6 DEF Counted
<1>8. OncePerKey' /\ HasValues' /\ ErasePath'
  BY <1>1, <1>2 DEF OncePerKey, HasValues, ErasePath
<1> QED BY <1>2, <1>4, <1>5, <1>7, <1>8 DEF MapIInv

\* insert without room: the table doubles, and all its entries are to move.
LEMMA InsertResizesStep ==
  ASSUME MapIInv, NEW key \in Key \cup {nullptr}, NEW val \in Val, InsertResizes(key, val)
  PROVE  MapIInv'
<1> DEFINE n == m_num_buckets
           m == m_num_buckets'
<1>1. /\ loop = "idle" /\ loop' = "resize" /\ m = 2 * n
      /\ old_buckets' = m_buckets /\ m_buckets' = EmptyTable(m)
      /\ m_element_count' = 0 /\ index' = 0
      /\ pending' = [first |-> key, second |-> val]
      /\ hole' = hole /\ neighbour' = neighbour
  BY DEF InsertResizes, NewBuckets
<1>2. /\ n \in Nat \ {0} /\ m \in Nat \ {0} /\ m_buckets \in [Cells(n) -> Contents]
      /\ Bucket = Cells(n) /\ Bucket' = Cells(m) /\ Cells(n) \subseteq Cells(m)
      /\ Occupied = InUse(n, m_buckets)
  BY <1>1, AsTable, AsTableNext DEF MapIInv, Cells
<1>3. OldBuckets' = n
  BY <1>1, <1>2 DEF OldBuckets
<1>4. Occupied' = {} /\ Cardinality(Occupied') = 0 /\ m_buckets' \in [Cells(m) -> Contents]
  BY <1>1, <1>2, EmptyTableFacts, AsTableNext
<1>5. Left' = Occupied
  BY <1>1, <1>2, <1>3 DEF Left, Occupied, Bucket, Full
<1>6. pending' \in [first : Key \cup {nullptr}, second : Val \cup {Null}]
  BY <1>1
<1>7. MapTypeOK'
  <2>1. old_buckets' \in [0..(OldBuckets' - 1) -> Contents] /\ index' \in 0..OldBuckets'
    BY <1>1, <1>2, <1>3 DEF Cells
  <2>2. hole \in Cells(n) /\ neighbour \in Cells(n)
    BY AsTable DEF MapIInv
  <2>3. m_element_count' \in 0..m
    BY <1>1, <1>2
  <2> QED BY <1>1, <1>2, <1>4, <1>6, <2>1, <2>2, <2>3 DEF MapTypeOK, Contents
<1>8. n * LoadNum >= LoadDen /\ LoadNum \in Nat /\ LoadDen \in Nat
  BY TableAssumption DEF MapIInv, RoomToGrow
<1>9. m * LoadNum >= n * LoadNum
  BY <1>1, <1>2, <1>8
<1>10. RoomToGrow'
  <2>1. m * LoadNum >= LoadDen
    <3> DEFINE p == m * LoadNum
               q == n * LoadNum
    <3>1. p \in Nat /\ q \in Nat
      <4>1. n \in Nat /\ m \in Nat /\ LoadNum \in Nat
        BY <1>2, <1>8
      <4> QED BY <4>1, <1>1
    <3>2. p >= q /\ q >= LoadDen
      BY <1>8, <1>9
    <3> HIDE DEF p, q
    <3>3. p >= LoadDen
      BY <1>8, <3>1, <3>2
    <3> QED BY <3>3 DEF p
  <2> QED BY <1>1, <1>2, <1>3, <1>8, <2>1 DEF RoomToGrow
<1>11. Counted'
  <2>1. m_element_count = Cardinality(Occupied) /\ m_element_count \in Nat
        /\ m_element_count * LoadDen <= n * LoadNum
    BY <1>1 DEF MapIInv, Counted, MapTypeOK
  <2>2. 0 + Cardinality(Left') = m_element_count
    BY <1>5, <2>1
  <2> QED BY <1>1, <1>3, <1>4, <2>1, <2>2 DEF Counted
<1>12. OncePerKey'
  BY <1>1, <1>4, <1>5 DEF MapIInv, OncePerKey, KeyAt
<1>13. HasValues'
  BY <1>1, <1>4, <1>5 DEF MapIInv, HasValues
<1>14. ErasePath' /\ ProbesUnbroken'
  BY <1>1, <1>4 DEF ErasePath, ProbesUnbroken
<1> QED BY <1>7, <1>10, <1>11, <1>12, <1>13, <1>14 DEF MapIInv

\* One round of the loop of resize: the entry of the old bucket is moved, so
\* that the entries in both tables together are as many as before.
LEMMA ResizeMovesStep ==
  ASSUME MapIInv, ResizeMoves
  PROVE  MapIInv'
<1> DEFINE n == m_num_buckets
           key == old_buckets[index].first
           val == old_buckets[index].second
           o == OldBuckets
<1>1. /\ loop = "resize" /\ loop' = "resize" /\ m_num_buckets' = m_num_buckets
      /\ index < o /\ index' = index + 1 /\ Put(key, val)
      /\ old_buckets' = old_buckets
      /\ pending' = pending /\ hole' = hole /\ neighbour' = neighbour
  BY DEF ResizeMoves, RoundsOfResize
<1>2. /\ n \in Nat \ {0} /\ m_element_count \in Nat /\ Bucket = Cells(n) /\ Bucket' = Cells(n)
      /\ o \in Nat \ {0} /\ index \in 0..o /\ OldBuckets' = o
      /\ old_buckets \in [0..(o - 1) -> Contents]
  BY <1>1, AsTable, AsTableNext DEF MapIInv, MapTypeOK, RoomToGrow, OldBuckets, Contents
<1>3. /\ index \in 0..(o - 1) /\ index' \in 0..o
      /\ key \in Key \cup {nullptr} /\ val \in Val \cup {Null}
  <2>1. index \in 0..(o - 1) /\ index' \in 0..o
    BY <1>1, <1>2
  <2>2. old_buckets[index] \in Contents
    BY <1>2, <2>1
  <2> QED BY <2>1, <2>2 DEF Contents
<1>4. key # nullptr <=> index \in Left
  BY <1>2, <1>3 DEF Left, Full
<1>5. key # nullptr => val \in Val
  BY <1>1, <1>4 DEF MapIInv, HasValues
<1>6. Left' = Left \ {index}
  BY <1>1, <1>2, <1>3 DEF Left
<1>7. /\ m_buckets' \in [Cells(m_num_buckets) -> Contents]
      /\ m_element_count' \in 0..m_num_buckets
      /\ m_element_count' <= m_element_count + 1
      /\ m_element_count' = Cardinality(Occupied')
      /\ \A b, c \in Occupied' : KeyAt(b)' = KeyAt(c)' => b = c
      /\ \A b \in Occupied' : m_buckets'[b].second \in Val
      /\ ProbesUnbroken'
  BY <1>1, <1>3, <1>5, PutKeeps
<1>8. MapTypeOK'
  BY <1>1, <1>2, <1>3, <1>7 DEF MapIInv, MapTypeOK, Contents
<1>9. RoomToGrow'
  BY <1>1, <1>2 DEF MapIInv, RoomToGrow
<1>10. IsFiniteSet(Left) /\ Cardinality(Left) \in Nat
  <2>1. IsFiniteSet(index..(o - 1))
    BY <1>2, <1>3, FS_Interval
  <2>2. Left \subseteq index..(o - 1)
    BY DEF Left
  <2> QED BY <2>1, <2>2, FS_Subset, FS_CardinalityType
<1>11. /\ Cardinality(Left') \in Nat
       /\ m_element_count' + Cardinality(Left') <= m_element_count + Cardinality(Left)
  <2>1. CASE key = nullptr
    <3>1. Left' = Left /\ m_element_count' = m_element_count
      BY <1>1, <1>4, <1>6, <2>1 DEF Put
    <3> QED BY <1>2, <1>10, <3>1
  <2>2. CASE key # nullptr
    <3>1. Cardinality(Left') = Cardinality(Left) - 1 /\ IsFiniteSet(Left')
      BY <1>4, <1>6, <1>10, <2>2, FS_RemoveElement
    <3>2. Cardinality(Left') \in Nat
      BY <3>1, FS_CardinalityType
    <3> QED BY <1>2, <1>7, <1>10, <3>1, <3>2
  <2> QED BY <2>1, <2>2
<1>12. Counted'
  <2> DEFINE a == m_element_count' + Cardinality(Left')
             b == m_element_count + Cardinality(Left)
             l == o * LoadNum
  <2>1. a \in Nat /\ b \in Nat /\ a <= b
    BY <1>2, <1>7, <1>10, <1>11
  <2>2. b * LoadDen <= l /\ LoadDen \in Nat /\ l \in Nat
    BY <1>1, <1>2, TableAssumption DEF MapIInv, Counted
  <2> HIDE DEF a, b, l
  <2>3. a * LoadDen <= b * LoadDen
    BY <2>1, Heavier
  <2>4. a * LoadDen <= l
    BY <2>1, <2>2, <2>3
  <2>5. (m_element_count' + Cardinality(Left')) * LoadDen <= OldBuckets' * LoadNum
    BY <1>2, <2>4 DEF a, l
  <2> QED BY <1>1, <1>7, <2>5 DEF Counted
<1>13. ASSUME NEW i \in Left', NEW b \in Occupied' PROVE old_buckets'[i].first # KeyAt(b)'
  <2>1. i \in Left /\ i # index
    BY <1>6
  <2>2. CASE m_buckets' = m_buckets
    <3>1. b \in Occupied
      BY <1>1, <2>2, AsTable, AsTableNext
    <3> QED BY <1>1, <2>1, <2>2, <3>1 DEF MapIInv, OncePerKey, KeyAt
  <2>3. CASE key \in Key /\ \E h \in Cells(n) \ Occupied : Stored(key, val, h)
    <3>1. index \in Left
      BY <1>4, <2>3, KeyAssumption
    <3>2. PICK h \in Cells(n) \ Occupied : Stored(key, val, h)
      BY <2>3
    <3>3. \/ b \in Occupied /\ m_buckets'[b] = m_buckets[b]
          \/ b = h /\ m_buckets'[b].first = key
      <4>1. b \in InUse(m_num_buckets', m_buckets') /\ Occupied = InUse(n, m_buckets)
        BY AsTable, AsTableNext
      <4> QED BY <3>2, <4>1 DEF Stored
    <3>4. old_buckets[i].first # key
      BY <1>1, <2>1, <3>1 DEF MapIInv, OncePerKey
    <3>5. b \in Occupied => old_buckets[i].first # m_buckets[b].first
      BY <1>1, <2>1 DEF MapIInv, OncePerKey, KeyAt
    <3> QED BY <1>1, <3>3, <3>4, <3>5 DEF KeyAt
  <2>4. m_buckets' = m_buckets \/ (key \in Key /\ \E h \in Cells(n) \ Occupied : Stored(key, val, h))
    BY <1>1, <1>3, PutStores
  <2> QED BY <2>2, <2>3, <2>4
<1>14. OncePerKey'
  <2>1. \A i, j \in Left' : old_buckets'[i].first = old_buckets'[j].first => i = j
    BY <1>1, <1>6 DEF MapIInv, OncePerKey
  <2> QED BY <1>1, <1>7, <1>13, <2>1 DEF OncePerKey
<1>15. HasValues'
  BY <1>1, <1>6, <1>7 DEF MapIInv, HasValues
<1>16. ErasePath'
  BY <1>1 DEF ErasePath
<1> QED BY <1>7, <1>8, <1>9, <1>12, <1>14, <1>15, <1>16 DEF MapIInv

\* The loop of resize is over: the pair that needed the room is put.
LEMMA ResizeEndsStep ==
  ASSUME MapIInv, ResizeEnds
  PROVE  MapIInv'
<1> DEFINE n == m_num_buckets
           o == OldBuckets
<1>1. /\ loop = "resize" /\ loop' = "idle" /\ m_num_buckets' = m_num_buckets
      /\ index = o /\ Put(pending.first, pending.second)
      /\ pending' = EmptyCell /\ hole' = hole /\ neighbour' = neighbour
  BY DEF ResizeEnds, RoundsOfResize
<1>2. /\ n \in Nat \ {0} /\ m_element_count \in Nat /\ Bucket = Cells(n) /\ Bucket' = Cells(n)
      /\ o \in Nat \ {0} /\ n = 2 * o /\ o * LoadNum >= LoadDen
  BY <1>1, AsTable, AsTableNext DEF MapIInv, MapTypeOK, RoomToGrow
<1>3. /\ pending.first \in Key \cup {nullptr} /\ pending.second \in Val \cup {Null}
      /\ pending.second \in Val
  BY <1>1 DEF MapIInv, MapTypeOK, HasValues
<1>4. /\ m_buckets' \in [Cells(m_num_buckets) -> Contents]
      /\ m_element_count' \in 0..m_num_buckets
      /\ m_element_count' <= m_element_count + 1
      /\ m_element_count' = Cardinality(Occupied')
      /\ \A b, c \in Occupied' : KeyAt(b)' = KeyAt(c)' => b = c
      /\ \A b \in Occupied' : m_buckets'[b].second \in Val
      /\ ProbesUnbroken'
  BY <1>1, <1>3, PutKeeps
<1>5. MapTypeOK'
  <2>1. EmptyCell \in Contents
    BY DEF EmptyCell, Contents
  <2> QED BY <1>1, <1>2, <1>4, <2>1 DEF MapIInv, MapTypeOK, Contents
<1>6. RoomToGrow'
  BY <1>1 DEF MapIInv, RoomToGrow
<1>7. Left = {}
  BY <1>1, <1>2 DEF Left
<1>8. m_element_count' * LoadDen <= n * LoadNum
  <2> DEFINE a == m_element_count'
             c == m_element_count
             q == o * LoadNum
  <2>1. a \in Nat /\ c \in Nat /\ c + 1 \in Nat /\ a <= c + 1
    BY <1>2, <1>4
  <2>2. Cardinality(Left) = 0
    BY <1>7, FS_EmptySet
  <2>3. c + 0 = c
    BY <2>1
  <2>4. LoadDen \in Nat /\ LoadNum \in Nat /\ q \in Nat /\ q >= LoadDen
    BY <1>2, TableAssumption
  <2>5. c * LoadDen <= q
    BY <1>1, <2>2, <2>3 DEF MapIInv, Counted
  <2>6. n * LoadNum = q + q
    BY <1>2, <2>4
  <2> HIDE DEF a, c, q
  <2>7. a * LoadDen <= (c + 1) * LoadDen
    BY <2>1, Heavier
  <2>8. (c + 1) * LoadDen = c * LoadDen + LoadDen
    BY <2>1, <2>4
  <2>9. a * LoadDen \in Nat /\ c * LoadDen \in Nat
    BY <2>1, <2>4
  <2>10. a * LoadDen <= q + q
    BY <2>4, <2>5, <2>7, <2>8, <2>9
  <2> QED BY <2>6, <2>10 DEF a
<1>9. Counted'
  BY <1>1, <1>4, <1>8 DEF Counted
<1>10. OncePerKey' /\ HasValues' /\ ErasePath'
  BY <1>1, <1>4 DEF OncePerKey, HasValues, ErasePath
<1> QED BY <1>4, <1>5, <1>6, <1>9, <1>10 DEF MapIInv

\* erase finds the entry; all others are reached without the hole's help so far.
LEMMA EraseStep ==
  ASSUME MapIInv, NEW key \in Key, Erase(key)
  PROVE  MapIInv'
<1> DEFINE n == m_num_buckets
           T == m_buckets
           g == get_bucket(key)
           x == get_next_bucket(g)
<1>1. /\ loop = "idle" /\ loop' = "erase" /\ m_num_buckets' = m_num_buckets
      /\ T[g].first = key /\ hole' = g /\ neighbour' = x
      /\ m_buckets' = m_buckets /\ m_element_count' = m_element_count /\ pending' = pending
  BY DEF Erase
<1>2. /\ MapTypeOK /\ n \in Nat \ {0} /\ T \in [Cells(n) -> Contents] /\ InUse(n, T) # Cells(n)
      /\ Bucket = Cells(n) /\ Bucket' = Cells(n) /\ Occupied = InUse(n, T)
      /\ Occupied' = InUse(n, T) /\ \A b \in InUse(n, T) : Reached(n, T, b)
  BY <1>1, AsTable, AsTableNext, RoomLeft DEF MapIInv, Probes
<1>3. g \in InUse(n, T)
  <2>1. g \in Cells(n)
    BY <1>2, BucketFound DEF Found
  <2> QED BY <1>1, <2>1, KeyAssumption DEF InUse
<1>4. g \in Cells(n) /\ x = (g + 1) % n
  BY <1>3 DEF InUse, get_next_bucket
<1>5. /\ x \in Cells(n)
      /\ \A c \in Cells(n) : /\ Steps(n, g, c) < Steps(n, g, x) => c = g
                             /\ x = g => c = g
  <2> HIDE DEF n, g, x
  <2> QED BY <1>2, <1>4, WalkOn
<1>6. x # g
  <2>1. PICK c \in Cells(n) : c \notin InUse(n, T)
    BY <1>2 DEF InUse
  <2> QED BY <1>3, <1>5, <2>1
<1>7. MapTypeOK'
  BY <1>1, <1>2, <1>4, <1>5 DEF MapTypeOK, Contents
<1>8. RoomToGrow' /\ Counted' /\ OncePerKey' /\ HasValues'
  BY <1>1, <1>2 DEF MapIInv, RoomToGrow, Counted, OncePerKey, HasValues, KeyAt
<1>9. ErasePath'
  <2>1. \A c \in Cells(n) : Offset(hole, c)' = Steps(n, g, c)
    BY <1>1 DEF Offset, Steps
  <2>2. Offset(hole, neighbour)' = Steps(n, g, x)
    BY <1>1 DEF Offset, Steps
  <2> QED BY <1>1, <1>2, <1>3, <1>5, <1>6, <2>1, <2>2 DEF ErasePath
<1>10. ProbesUnbroken'
  <2>1. Probes(n, T, "erase", g, x)
    BY <1>2, <1>5 DEF Probes, InUse
  <2> QED BY <1>1, <2>1, AsTableNext
<1> QED BY <1>7, <1>8, <1>9, <1>10 DEF MapIInv

\* What the invariant says inside the loop of erase.
LEMMA Erasing ==
  ASSUME MapIInv, loop = "erase"
  PROVE  /\ m_num_buckets \in Nat \ {0}
         /\ m_buckets \in [Cells(m_num_buckets) -> Contents]
         /\ InUse(m_num_buckets, m_buckets) # Cells(m_num_buckets)
         /\ Occupied = InUse(m_num_buckets, m_buckets)
         /\ hole \in Cells(m_num_buckets) /\ neighbour \in Cells(m_num_buckets)
         /\ hole # neighbour /\ hole \in InUse(m_num_buckets, m_buckets)
         /\ \A c \in Cells(m_num_buckets) :
              Steps(m_num_buckets, hole, c) < Steps(m_num_buckets, hole, neighbour)
                => c \in InUse(m_num_buckets, m_buckets)
         /\ \A b \in InUse(m_num_buckets, m_buckets) : b # hole =>
              /\ Reached(m_num_buckets, m_buckets, b)
              /\ Steps(m_num_buckets, hole, b) < Steps(m_num_buckets, hole, neighbour)
                   => ~Before(m_num_buckets, m_buckets, hole, b)
         /\ Fits(neighbour) <=> Before(m_num_buckets, m_buckets, hole, neighbour)
         /\ m_element_count \in Nat
         /\ m_element_count = Cardinality(InUse(m_num_buckets, m_buckets))
         /\ m_element_count * LoadDen <= m_num_buckets * LoadNum
<1>1. MapTypeOK /\ RoomToGrow /\ Counted /\ ErasePath /\ ProbesUnbroken
  BY DEF MapIInv
<1>2. /\ m_num_buckets \in Nat \ {0}
      /\ m_buckets \in [Cells(m_num_buckets) -> Contents]
      /\ InUse(m_num_buckets, m_buckets) # Cells(m_num_buckets)
      /\ Occupied = InUse(m_num_buckets, m_buckets)
      /\ hole \in Cells(m_num_buckets) /\ neighbour \in Cells(m_num_buckets)
  BY <1>1, AsTable, RoomLeft
<1>3. /\ hole # neighbour /\ hole \in InUse(m_num_buckets, m_buckets)
      /\ \A c \in Cells(m_num_buckets) :
           Steps(m_num_buckets, hole, c) < Steps(m_num_buckets, hole, neighbour)
             => c \in InUse(m_num_buckets, m_buckets)
  BY <1>1, AsTable DEF ErasePath
<1>4. \A b \in InUse(m_num_buckets, m_buckets) : b # hole =>
        /\ Reached(m_num_buckets, m_buckets, b)
        /\ Steps(m_num_buckets, hole, b) < Steps(m_num_buckets, hole, neighbour)
             => ~Before(m_num_buckets, m_buckets, hole, b)
  BY <1>1, AsTable DEF Probes
<1>5. Fits(neighbour) <=> Before(m_num_buckets, m_buckets, hole, neighbour)
  BY AsTable DEF Fits, Before, is_between, Ideal, get_ideal_bucket, hash
<1>6. /\ m_element_count \in Nat
      /\ m_element_count = Cardinality(InUse(m_num_buckets, m_buckets))
      /\ m_element_count * LoadDen <= m_num_buckets * LoadNum
  BY <1>1, <1>2 DEF MapTypeOK, Counted
<1> QED BY <1>2, <1>3, <1>4, <1>5, <1>6

\* erase moves an entry into the hole: the hole is now where the entry was,
\* and no entry lies between it and the next neighbour.
LEMMA EraseShiftsStep ==
  ASSUME MapIInv, EraseShifts
  PROVE  MapIInv'
<1> DEFINE n == m_num_buckets
           T == m_buckets
           U == m_buckets'
           h == hole
           x == neighbour
           y == get_next_bucket(x)
<1>1. /\ loop = "erase" /\ loop' = "erase" /\ m_num_buckets' = m_num_buckets
      /\ T[x].first # nullptr /\ Fits(x)
      /\ U = [T EXCEPT ![h] = T[x], ![x] = T[h]]
      /\ hole' = x /\ neighbour' = y
      /\ m_element_count' = m_element_count /\ pending' = pending
  BY DEF EraseShifts
<1>2. /\ n \in Nat \ {0} /\ T \in [Cells(n) -> Contents]
      /\ h \in Cells(n) /\ x \in Cells(n) /\ h # x /\ h \in InUse(n, T)
      /\ Before(n, T, h, x)
      /\ \A b \in InUse(n, T) : b # h => Reached(n, T, b)
      /\ Occupied = InUse(n, T)
      /\ m_element_count = Cardinality(InUse(n, T))
  BY <1>1, Erasing
<1>3. x \in InUse(n, T)
  BY <1>1, <1>2 DEF InUse
<1>4. Bucket = Cells(n) /\ Bucket' = Cells(n) /\ Occupied' = InUse(n, U) /\ y = (x + 1) % n
  BY <1>1, AsTable, AsTableNext DEF get_next_bucket
<1> HIDE DEF n, T, U, h, x, y
<1>5. /\ U \in [Cells(n) -> Contents] /\ U[h] = T[x] /\ U[x] = T[h]
      /\ \A b \in Cells(n) : b # h /\ b # x => U[b] = T[b]
  BY <1>1, <1>2
<1>6. /\ InUse(n, U) = InUse(n, T)
      /\ \A b \in InUse(n, U) : b # x => Reached(n, U, b)
  BY <1>2, <1>3, <1>5, ShiftReaches
<1>7. /\ y \in Cells(n)
      /\ \A c \in Cells(n) : /\ Steps(n, x, c) < Steps(n, x, y) => c = x
                             /\ y = x => c = x
  BY <1>2, <1>4, WalkOn
<1>8. y # x
  BY <1>2, <1>7
<1>9. MapTypeOK'
  BY <1>1, <1>2, <1>4, <1>5, <1>7 DEF MapIInv, MapTypeOK, Contents, n, T, U, x, y
<1>10. RoomToGrow' /\ Counted'
  BY <1>1, <1>2, <1>4, <1>6 DEF MapIInv, RoomToGrow, Counted, n
<1>11. OncePerKey'
  <2>1. \A b, c \in InUse(n, T) : T[b].first = T[c].first => b = c
    BY <1>2 DEF MapIInv, OncePerKey, KeyAt, T
  <2>2. ASSUME NEW b \in InUse(n, U), NEW c \in InUse(n, U), U[b].first = U[c].first
        PROVE  b = c
    <3>1. b \in InUse(n, T) /\ c \in InUse(n, T) /\ b \in Cells(n) /\ c \in Cells(n)
      BY <1>6 DEF InUse
    <3> QED BY <1>2, <1>3, <1>5, <2>1, <2>2, <3>1
  <2> QED BY <1>1, <1>4, <2>2 DEF OncePerKey, KeyAt, U
<1>12. HasValues'
  <2>1. \A b \in InUse(n, T) : T[b].second \in Val
    BY <1>2 DEF MapIInv, HasValues, T
  <2>2. ASSUME NEW b \in InUse(n, U) PROVE U[b].second \in Val
    <3>1. b \in InUse(n, T) /\ b \in Cells(n)
      BY <1>6 DEF InUse
    <3> QED BY <1>2, <1>3, <1>5, <2>1, <3>1
  <2> QED BY <1>1, <1>4, <2>2 DEF HasValues, U
<1>13. ErasePath'
  <2>1. \A c \in Cells(n) : Offset(hole, c)' = Steps(n, x, c)
    BY <1>1 DEF Offset, Steps, n
  <2>2. Offset(hole, neighbour)' = Steps(n, x, y)
    BY <1>1 DEF Offset, Steps, n
  <2> QED BY <1>1, <1>3, <1>4, <1>6, <1>7, <1>8, <2>1, <2>2 DEF ErasePath
<1>14. ProbesUnbroken'
  <2>1. Probes(n, U, "erase", x, y)
    BY <1>6, <1>7 DEF Probes, InUse
  <2> QED BY <1>1, <2>1, AsTableNext DEF n, U
<1> QED BY <1>9, <1>10, <1>11, <1>12, <1>13, <1>14 DEF MapIInv

\* erase passes an entry that has not the hole on its way.  It does not come
\* back to the hole, because a cell on the way is empty.
LEMMA EraseSkipsStep ==
  ASSUME MapIInv, EraseSkips
  PROVE  MapIInv'
<1> DEFINE n == m_num_buckets
           T == m_buckets
           h == hole
           x == neighbour
           y == get_next_bucket(x)
<1>1. /\ loop = "erase" /\ loop' = "erase" /\ m_num_buckets' = m_num_buckets
      /\ T[x].first # nullptr /\ ~Fits(x)
      /\ m_buckets' = T /\ hole' = h /\ neighbour' = y
      /\ m_element_count' = m_element_count /\ pending' = pending
  BY DEF EraseSkips, NextNeighbour
<1>2. /\ n \in Nat \ {0} /\ T \in [Cells(n) -> Contents] /\ InUse(n, T) # Cells(n)
      /\ h \in Cells(n) /\ x \in Cells(n) /\ h # x /\ h \in InUse(n, T)
      /\ ~Before(n, T, h, x)
      /\ \A c \in Cells(n) : Steps(n, h, c) < Steps(n, h, x) => c \in InUse(n, T)
      /\ \A b \in InUse(n, T) : b # h =>
           /\ Reached(n, T, b)
           /\ Steps(n, h, b) < Steps(n, h, x) => ~Before(n, T, h, b)
      /\ Occupied = InUse(n, T)
  BY <1>1, Erasing
<1>3. x \in InUse(n, T)
  BY <1>1, <1>2 DEF InUse
<1>4. Bucket = Cells(n) /\ Bucket' = Cells(n) /\ Occupied' = InUse(n, T) /\ y = (x + 1) % n
  BY <1>1, AsTable, AsTableNext DEF get_next_bucket
<1> HIDE DEF n, T, h, x, y
<1>5. /\ y \in Cells(n)
      /\ \A c \in Cells(n) :
           /\ Steps(n, h, c) < Steps(n, h, y) => c = x \/ Steps(n, h, c) < Steps(n, h, x)
           /\ y = h => c = x \/ Steps(n, h, c) < Steps(n, h, x)
  BY <1>2, <1>4, WalkOn
<1>6. y # h
  <2>1. PICK c \in Cells(n) : c \notin InUse(n, T)
    BY <1>2 DEF InUse
  <2> QED BY <1>2, <1>3, <1>5, <2>1
<1>7. MapTypeOK'
  BY <1>1, <1>2, <1>4, <1>5 DEF MapIInv, MapTypeOK, Contents, n, T, h, y
<1>8. RoomToGrow' /\ Counted' /\ OncePerKey' /\ HasValues'
  BY <1>1, <1>2, <1>4 DEF MapIInv, RoomToGrow, Counted, OncePerKey, HasValues, KeyAt, n, T
<1>9. ErasePath'
  <2>1. \A c \in Cells(n) : Offset(hole, c)' = Steps(n, h, c)
    BY <1>1 DEF Offset, Steps, n
  <2>2. Offset(hole, neighbour)' = Steps(n, h, y)
    BY <1>1 DEF Offset, Steps, n
  <2> QED BY <1>1, <1>2, <1>3, <1>4, <1>5, <1>6, <2>1, <2>2 DEF ErasePath
<1>10. ProbesUnbroken'
  <2>1. Probes(n, T, "erase", h, y)
    BY <1>2, <1>5 DEF Probes, InUse
  <2> QED BY <1>1, <2>1, AsTableNext DEF n, T
<1> QED BY <1>7, <1>8, <1>9, <1>10 DEF MapIInv

\* erase empties the hole.
LEMMA EraseEndsStep ==
  ASSUME MapIInv, EraseEnds
  PROVE  MapIInv'
<1> DEFINE n == m_num_buckets
           T == m_buckets
           U == m_buckets'
           h == hole
           x == neighbour
<1>1. /\ loop = "erase" /\ loop' = "idle" /\ m_num_buckets' = m_num_buckets
      /\ T[x].first = nullptr
      /\ U = [T EXCEPT ![h] = EmptyCell]
      /\ hole' = 0 /\ neighbour' = 0
      /\ m_element_count' = m_element_count - 1 /\ pending' = pending
  BY DEF EraseEnds
<1>2. /\ n \in Nat \ {0} /\ T \in [Cells(n) -> Contents]
      /\ h \in Cells(n) /\ x \in Cells(n) /\ h \in InUse(n, T)
      /\ \A b \in InUse(n, T) : b # h =>
           /\ Reached(n, T, b)
           /\ Steps(n, h, b) < Steps(n, h, x) => ~Before(n, T, h, b)
      /\ Occupied = InUse(n, T)
      /\ m_element_count \in Nat
      /\ m_element_count = Cardinality(InUse(n, T))
      /\ m_element_count * LoadDen <= n * LoadNum
  BY <1>1, Erasing
<1>3. Bucket = Cells(n) /\ Bucket' = Cells(n) /\ Occupied' = InUse(n, U) /\ 0 \in Cells(n)
  BY <1>1, <1>2, AsTable, AsTableNext DEF Cells
<1> HIDE DEF n, T, U, h, x
<1>4. /\ U \in [Cells(n) -> Contents] /\ U[h] = EmptyCell
      /\ \A b \in Cells(n) : b # h => U[b] = T[b]
  <2>1. EmptyCell \in Contents
    BY DEF EmptyCell, Contents
  <2> QED BY <1>1, <1>2, <2>1
<1>5. /\ InUse(n, U) = InUse(n, T) \ {h}
      /\ \A b \in InUse(n, U) : Reached(n, U, b)
  <2>1. \A b \in InUse(n, T) : b # h =>
          /\ Reached(n, T, b)
          /\ Steps(n, h, b) < Steps(n, h, x) => ~Before(n, T, h, b)
    BY <1>2
  <2>2. n \in Nat \ {0} /\ x \in Cells(n) /\ h \in InUse(n, T) /\ T[x].first = nullptr
    BY <1>1, <1>2
  <2>3. T \in [Cells(n) -> Contents]
    BY <1>2
  <2> QED BY <1>4, <2>1, <2>2, <2>3, EmptyReaches
<1>6. m_element_count' = Cardinality(InUse(n, U)) /\ m_element_count' \in Nat
  <2>1. IsFiniteSet(InUse(n, T)) /\ IsFiniteSet(InUse(n, U))
    BY <1>2, InUseCount
  <2>2. Cardinality(InUse(n, U)) = Cardinality(InUse(n, T)) - 1
    BY <1>2, <1>5, <2>1, FS_RemoveElement
  <2>3. Cardinality(InUse(n, U)) \in Nat
    BY <2>1, FS_CardinalityType
  <2> QED BY <1>1, <1>2, <2>2, <2>3
<1>7. m_element_count' \in 0..n
  <2>1. m_element_count <= n
    BY DEF MapIInv, MapTypeOK, n
  <2> QED BY <1>1, <1>2, <1>6, <2>1
<1>8. MapTypeOK'
  BY <1>1, <1>3, <1>4, <1>7 DEF MapIInv, MapTypeOK, Contents, n, U
<1>9. m_element_count' * LoadDen <= n * LoadNum
  <2> DEFINE a == m_element_count'
             c == m_element_count
             l == n * LoadNum
  <2>1. a \in Nat /\ c \in Nat /\ a <= c
    BY <1>1, <1>2, <1>6
  <2>2. c * LoadDen <= l /\ LoadDen \in Nat /\ l \in Nat
    BY <1>2, TableAssumption
  <2> HIDE DEF a, c, l
  <2>3. a * LoadDen <= c * LoadDen
    BY <2>1, Heavier
  <2>4. a * LoadDen <= l
    BY <2>1, <2>2, <2>3
  <2> QED BY <2>4 DEF a, l
<1>10. RoomToGrow' /\ Counted'
  BY <1>1, <1>3, <1>6, <1>9 DEF MapIInv, RoomToGrow, Counted, n
<1>11. OncePerKey'
  <2>1. \A b, c \in InUse(n, T) : T[b].first = T[c].first => b = c
    BY <1>2 DEF MapIInv, OncePerKey, KeyAt, T
  <2>2. \A b \in InUse(n, U) : b \in InUse(n, T) /\ U[b] = T[b]
    BY <1>4, <1>5 DEF InUse
  <2>3. \A b, c \in InUse(n, U) : U[b].first = U[c].first => b = c
    BY <2>1, <2>2
  <2> QED BY <1>1, <1>3, <2>3 DEF OncePerKey, KeyAt, U
<1>12. HasValues'
  <2>1. \A b \in InUse(n, T) : T[b].second \in Val
    BY <1>2 DEF MapIInv, HasValues, T
  <2>2. \A b \in InUse(n, U) : b \in InUse(n, T) /\ U[b] = T[b]
    BY <1>4, <1>5 DEF InUse
  <2> QED BY <1>1, <1>3, <2>1, <2>2 DEF HasValues, U
<1>13. ErasePath'
  BY <1>1 DEF ErasePath
<1>14. ProbesUnbroken'
  <2>1. Probes(n, U, "idle", hole', neighbour')
    BY <1>5 DEF Probes
  <2> QED BY <1>1, <2>1, AsTableNext DEF n, U
<1> QED BY <1>8, <1>10, <1>11, <1>12, <1>13, <1>14 DEF MapIInv
-----------------------------------------------------------------------------
(* The theorems *)

\* No step of any call or loop breaks the invariant.
LEMMA NextKeeps == MapIInv /\ [MapNext]_mapVars => MapIInv'
<1> SUFFICES ASSUME MapIInv, [MapNext]_mapVars PROVE MapIInv'
  OBVIOUS
<1>1. CASE UNCHANGED mapVars
  BY <1>1 DEF MapIInv, mapVars, MapTypeOK, RoomToGrow, Counted, OncePerKey, HasValues, ErasePath,
     ProbesUnbroken, Bucket, OldBuckets, Occupied, Full, Left, KeyAt, Offset,
     get_ideal_bucket, is_between
<1>2. ASSUME NEW key \in Key \cup {nullptr}, NEW val \in Val, Insert(key, val) PROVE MapIInv'
  BY <1>2, InsertStep
<1>3. ASSUME NEW key \in Key \cup {nullptr}, NEW val \in Val, InsertResizes(key, val)
      PROVE  MapIInv'
  BY <1>3, InsertResizesStep
<1>4. ASSUME NEW key \in Key, Erase(key) PROVE MapIInv'
  BY <1>4, EraseStep
<1>5. CASE Loop
  BY <1>5, ResizeMovesStep, ResizeEndsStep, EraseShiftsStep, EraseSkipsStep, EraseEndsStep
     DEF Loop
<1> QED BY <1>1, <1>2, <1>3, <1>4, <1>5 DEF MapNext, Call

\* The invariant holds in every state of the hash map: the count is exact, no
\* key is twice in the tables, and no probe is broken.
THEOREM MapIInvInvariant == MapSpec => []MapIInv
<1>1. MapInit => MapIInv
  BY InitHolds
<1>2. MapIInv /\ [MapNext]_mapVars => MapIInv'
  BY NextKeeps
<1> QED BY <1>1, <1>2, PTL DEF MapSpec

\* What the pairs in the map are, cell by cell.
LEMMA PairsCells ==
  \A p : p \in Pairs <=>
    \/ \E b \in Occupied : ~(loop = "erase" /\ b = hole) /\ p = CellPair(m_buckets[b])
    \/ loop = "resize" /\ \E i \in Left : p = CellPair(old_buckets[i])
BY DEF Pairs, Left

\* The same of the state after a step.
LEMMA PairsCellsNext ==
  \A p : p \in Pairs' <=>
    \/ \E b \in Occupied' : ~(loop' = "erase" /\ b = hole') /\ p = CellPair(m_buckets'[b])
    \/ loop' = "resize" /\ \E i \in Left' : p = CellPair(old_buckets'[i])
BY DEF Pairs, Left, Occupied, Full, Bucket, OldBuckets, CellPair

\* A key has a pair in the map exactly when a cell has the key.
LEMMA HasKeyCells ==
  ASSUME MapIInv, NEW key
  PROVE  (\E v \in Val : <<key, v>> \in Pairs) <=>
           \/ \E b \in Occupied : ~(loop = "erase" /\ b = hole) /\ m_buckets[b].first = key
           \/ loop = "resize" /\ \E i \in Left : old_buckets[i].first = key
<1>1. \A b \in Occupied : m_buckets[b].second \in Val
  BY DEF MapIInv, HasValues
<1>2. loop = "resize" => \A i \in Left : old_buckets[i].second \in Val
  BY DEF MapIInv, HasValues
<1>3. ASSUME NEW v \in Val, <<key, v>> \in Pairs
      PROVE  \/ \E b \in Occupied : ~(loop = "erase" /\ b = hole) /\ m_buckets[b].first = key
             \/ loop = "resize" /\ \E i \in Left : old_buckets[i].first = key
  BY <1>3, PairsCells DEF CellPair
<1>4. ASSUME NEW b \in Occupied, ~(loop = "erase" /\ b = hole), m_buckets[b].first = key
      PROVE  \E v \in Val : <<key, v>> \in Pairs
  BY <1>1, <1>4, PairsCells DEF CellPair
<1>5. ASSUME loop = "resize", NEW i \in Left, old_buckets[i].first = key
      PROVE  \E v \in Val : <<key, v>> \in Pairs
  BY <1>2, <1>5, PairsCells DEF CellPair
<1> QED BY <1>3, <1>4, <1>5

\* find answers what the pairs in the map say.
LEMMA FindAnswers == MapIInv => FindCorrect
<1> SUFFICES ASSUME MapIInv, loop = "idle", NEW key \in Key
             PROVE  IF \E v \in Val : <<key, v>> \in Pairs
                    THEN <<key, find(key)>> \in Pairs
                    ELSE find(key) = Null
  BY DEF FindCorrect
<1> DEFINE n == m_num_buckets
           T == m_buckets
           g == get_bucket(key)
<1>1. /\ MapTypeOK /\ n \in Nat \ {0} /\ T \in [Cells(n) -> Contents] /\ Occupied = InUse(n, T)
      /\ InUse(n, T) # Cells(n) /\ \A b \in InUse(n, T) : Reached(n, T, b)
  BY AsTable, RoomLeft DEF MapIInv, Probes
<1>2. Found(n, T, key, g)
  BY <1>1, BucketFound
<1>3. /\ key # nullptr
      /\ find(key) = IF T[g].first # nullptr THEN T[g].second ELSE Null
      /\ g \in Cells(n) /\ T[g].first \in {nullptr, key}
  BY <1>2, KeyAssumption DEF find, Found
<1>4. CASE T[g].first = key
  <2>1. g \in Occupied
    BY <1>1, <1>3, <1>4 DEF InUse
  <2>2. <<key, find(key)>> = CellPair(T[g])
    BY <1>3, <1>4 DEF CellPair
  <2>3. <<key, find(key)>> \in Pairs
    BY <2>1, <2>2, PairsCells
  <2>4. \E v \in Val : <<key, v>> \in Pairs
    BY <1>4, <2>1, HasKeyCells
  <2> QED BY <2>3, <2>4
<1>5. CASE T[g].first = nullptr
  <2>1. find(key) = Null
    BY <1>3, <1>5
  <2>2. \A b \in Occupied : T[b].first # key
    BY <1>1, <1>2, <1>3, <1>5, FoundOnce
  <2>3. ~\E v \in Val : <<key, v>> \in Pairs
    BY <2>2, HasKeyCells
  <2> QED BY <2>1, <2>3
<1> QED BY <1>3, <1>4, <1>5

\* Whatever has been inserted and not erased can be found, in every state of
\* the loops of erase and resize no probe is broken, and every probe ends at a
\* free cell at the latest (PointerHashMap.cpp:60-77, 112-131), in tables that
\* TableAssumption allows.
THEOREM EntriesReachableAlways == MapSpec => []EntriesReachable
<1>1. MapIInv => EntriesReachable
  <2> SUFFICES ASSUME MapIInv PROVE EntriesReachable
    OBVIOUS
  <2>1. NeverFull
    BY AsTable, RoomLeft DEF MapIInv, NeverFull
  <2> QED BY <2>1, FindAnswers DEF MapIInv, EntriesReachable
<1> QED BY <1>1, MapIInvInvariant, PTL

\* The inserts of resize find room for every old entry and for the pair the
\* resize was for: none of them resizes again (PointerHashMap.cpp:81, 134-147).
THEOREM ResizeIsEnoughAlways == MapSpec => []ResizeIsEnough
<1>1. MapIInv => ResizeIsEnough
  <2> SUFFICES ASSUME MapIInv, loop = "resize" PROVE ~NeedsResize
    BY DEF ResizeIsEnough
  <2> DEFINE c == m_element_count
             l == Cardinality(Left)
             o == OldBuckets
             q == o * LoadNum
             n == m_num_buckets
  <2>1. /\ c \in Nat /\ o \in Nat \ {0} /\ n = 2 * o /\ q >= LoadDen
        /\ (c + l) * LoadDen <= q
    BY DEF MapIInv, MapTypeOK, RoomToGrow, Counted
  <2>2. LoadNum \in Nat /\ LoadDen \in Nat
    BY TableAssumption
  <2>3. l \in Nat
    <3>1. IsFiniteSet(index..(o - 1))
      <4>1. index \in Int /\ o - 1 \in Int
        BY <2>1 DEF MapIInv, MapTypeOK
      <4> QED BY <4>1, FS_Interval
    <3>2. Left \subseteq index..(o - 1)
      BY DEF Left
    <3> QED BY <3>1, <3>2, FS_Subset, FS_CardinalityType
  <2>4. q \in Nat /\ n * LoadNum = q + q
    BY <2>1, <2>2
  <2> HIDE DEF c, l, o, q, n
  <2>5. c + l \in Nat /\ c <= c + l
    BY <2>1, <2>3
  <2>6. c * LoadDen <= (c + l) * LoadDen
    BY <2>1, <2>5, Heavier
  <2>7. (c + 1) * LoadDen = c * LoadDen + LoadDen /\ c * LoadDen \in Nat
        /\ (c + l) * LoadDen \in Nat
    BY <2>1, <2>2, <2>5
  <2>8. (c + 1) * LoadDen <= q + q
    BY <2>1, <2>2, <2>4, <2>6, <2>7
  <2>9. ~((c + 1) * LoadDen > n * LoadNum)
    BY <2>2, <2>4, <2>7, <2>8
  <2> QED BY <2>9 DEF NeedsResize, c, n
<1> QED BY <1>1, MapIInvInvariant, PTL

\* Storing an entry for a key that is in neither table is the abstract insert.
LEMMA StoredInserts ==
  ASSUME MapIInv, loop # "erase", loop' # "erase", NEW key \in Key, NEW val \in Val,
         m_num_buckets' = m_num_buckets,
         NEW h \in Cells(m_num_buckets) \ Occupied, Stored(key, val, h),
         \A b \in Occupied : KeyAt(b) # key,
         loop = "resize" => Left = {},
         loop' # "resize"
  PROVE  Map!PInsert(key, val)
<1>1. ~Map!HasKey(key)
  <2>1. ~\E v \in Val : <<key, v>> \in Pairs
    BY HasKeyCells DEF KeyAt
  <2> QED BY <2>1 DEF Map!HasKey
<1>2. Occupied' = Occupied \cup {h} /\ h \notin Occupied
      /\ m_buckets'[h] = [first |-> key, second |-> val]
      /\ \A b \in Occupied : m_buckets'[b] = m_buckets[b]
  BY AsTable, AsTableNext DEF Stored
<1>3. CellPair(m_buckets'[h]) = <<key, val>>
  BY <1>2 DEF CellPair
<1>4. ASSUME NEW p PROVE p \in Pairs' <=> p \in Pairs \cup {<<key, val>>}
  <2>1. p \in Pairs <=> \E b \in Occupied : p = CellPair(m_buckets[b])
    BY PairsCells
  <2>2. p \in Pairs' <=> \E b \in Occupied' : p = CellPair(m_buckets'[b])
    BY PairsCellsNext
  <2> QED BY <1>2, <1>3, <2>1, <2>2
<1>5. Pairs' = Pairs \cup {<<key, val>>}
  BY <1>4
<1> QED BY <1>1, <1>5 DEF Map!PInsert

\* A Put that leaves the cells alone leaves the pairs alone.
LEMMA UnstoredStutters ==
  ASSUME m_buckets' = m_buckets, m_num_buckets' = m_num_buckets,
         loop # "erase", loop' # "erase",
         loop = "resize" => Left = {},
         loop' # "resize"
  PROVE  Pairs' = Pairs
<1>1. Occupied' = Occupied
  BY AsTable, AsTableNext
<1>2. ASSUME NEW p PROVE p \in Pairs' <=> p \in Pairs
  BY <1>1, PairsCells, PairsCellsNext
<1> QED BY <1>2

\* A round of resize moves an entry from one table to the other.
LEMMA MoveStutters ==
  ASSUME MapIInv, ResizeMoves
  PROVE  Pairs' = Pairs
<1> DEFINE n == m_num_buckets
           key == old_buckets[index].first
           val == old_buckets[index].second
           o == OldBuckets
<1>1. /\ loop = "resize" /\ loop' = "resize" /\ m_num_buckets' = m_num_buckets
      /\ index < o /\ index' = index + 1 /\ Put(key, val)
      /\ old_buckets' = old_buckets
  BY DEF ResizeMoves, RoundsOfResize
<1>2. /\ o \in Nat \ {0} /\ index \in 0..o /\ OldBuckets' = o
      /\ old_buckets \in [0..(o - 1) -> Contents]
  BY <1>1 DEF MapIInv, MapTypeOK, RoomToGrow, OldBuckets, Contents
<1>3. /\ index \in 0..(o - 1)
      /\ key \in Key \cup {nullptr} /\ val \in Val \cup {Null}
  <2>1. index \in 0..(o - 1)
    BY <1>1, <1>2
  <2>2. old_buckets[index] \in Contents
    BY <1>2, <2>1
  <2> QED BY <2>1, <2>2 DEF Contents
<1>4. key # nullptr <=> index \in Left
  BY <1>2, <1>3 DEF Left, Full
<1>5. Left' = Left \ {index}
  BY <1>1, <1>2, <1>3 DEF Left
<1>6. CASE key = nullptr
  <2>1. m_buckets' = m_buckets /\ Left' = Left
    BY <1>1, <1>4, <1>5, <1>6 DEF Put
  <2>2. Occupied' = Occupied
    BY <1>1, <2>1, AsTable, AsTableNext
  <2>3. ASSUME NEW p PROVE p \in Pairs' <=> p \in Pairs
    BY <1>1, <2>1, <2>2, PairsCells, PairsCellsNext
  <2> QED BY <2>3
<1>7. CASE key # nullptr
  <2>1. index \in Left /\ key \in Key
    BY <1>3, <1>4, <1>7
  <2>2. \A b \in Occupied : KeyAt(b) # key
    BY <1>1, <2>1 DEF MapIInv, OncePerKey
  <2>3. PICK h \in Cells(n) \ Occupied : Stored(key, val, h)
    BY <1>1, <1>3, <1>7, <2>2, PutStores
  <2>4. /\ Occupied' = Occupied \cup {h}
        /\ CellPair(m_buckets'[h]) = CellPair(old_buckets[index])
        /\ \A b \in Occupied : m_buckets'[b] = m_buckets[b]
    BY <2>3, AsTable, AsTableNext DEF Stored, CellPair
  <2>5. ASSUME NEW p PROVE p \in Pairs' <=> p \in Pairs
    <3>1. p \in Pairs <=> \/ \E b \in Occupied : p = CellPair(m_buckets[b])
                          \/ \E i \in Left : p = CellPair(old_buckets[i])
      BY <1>1, PairsCells
    <3>2. p \in Pairs' <=> \/ \E b \in Occupied' : p = CellPair(m_buckets'[b])
                           \/ \E i \in Left' : p = CellPair(old_buckets[i])
      BY <1>1, PairsCellsNext
    <3> QED BY <1>5, <2>1, <2>4, <3>1, <3>2
  <2> QED BY <2>5
<1> QED BY <1>6, <1>7

\* A swap of erase moves the entry of the neighbour into the hole.
LEMMA ShiftStutters ==
  ASSUME MapIInv, EraseShifts
  PROVE  Pairs' = Pairs
<1> DEFINE n == m_num_buckets
           T == m_buckets
           U == m_buckets'
           h == hole
           x == neighbour
<1>1. /\ loop = "erase" /\ loop' = "erase" /\ m_num_buckets' = m_num_buckets
      /\ T[x].first # nullptr
      /\ U = [T EXCEPT ![h] = T[x], ![x] = T[h]]
      /\ hole' = x
  BY DEF EraseShifts
<1>2. /\ T \in [Cells(n) -> Contents]
      /\ h \in Cells(n) /\ x \in Cells(n) /\ h # x /\ h \in InUse(n, T)
      /\ Occupied = InUse(n, T) /\ Occupied' = InUse(n, U)
  BY <1>1, Erasing, AsTableNext
<1> HIDE DEF n, T, U, h, x
<1>3. /\ U[h] = T[x] /\ U[x] = T[h]
      /\ \A b \in Cells(n) : b # h /\ b # x => U[b] = T[b]
  BY <1>1, <1>2
<1>4. x \in InUse(n, T) /\ InUse(n, U) = InUse(n, T) /\ InUse(n, T) \subseteq Cells(n)
  BY <1>1, <1>2, <1>3 DEF InUse
<1>5. ASSUME NEW p PROVE p \in Pairs' <=> p \in Pairs
  <2>1. p \in Pairs <=> \E b \in InUse(n, T) : b # h /\ p = CellPair(T[b])
    BY <1>1, <1>2, PairsCells DEF h, T
  <2>2. p \in Pairs' <=> \E b \in InUse(n, T) : b # x /\ p = CellPair(U[b])
    BY <1>1, <1>2, <1>4, PairsCellsNext DEF U
  <2>3. ASSUME NEW b \in InUse(n, T), b # h
        PROVE  \E c \in InUse(n, T) : c # x /\ U[c] = T[b]
    BY <1>2, <1>3, <1>4, <2>3
  <2>4. ASSUME NEW c \in InUse(n, T), c # x
        PROVE  \E b \in InUse(n, T) : b # h /\ U[c] = T[b]
    BY <1>2, <1>3, <1>4, <2>4
  <2> QED BY <2>1, <2>2, <2>3, <2>4
<1> QED BY <1>5

\* erase takes the pair of the key out of the map when it has found it.
LEMMA EraseErases ==
  ASSUME MapIInv, NEW key \in Key, Erase(key)
  PROVE  Map!PErase(key)
<1> DEFINE g == get_bucket(key)
           T == m_buckets
<1>1. /\ loop = "idle" /\ loop' = "erase" /\ m_num_buckets' = m_num_buckets
      /\ T[g].first = key /\ hole' = g /\ m_buckets' = T
  BY DEF Erase
<1>2. /\ MapTypeOK /\ InUse(m_num_buckets, T) # Cells(m_num_buckets)
      /\ Occupied = InUse(m_num_buckets, T) /\ Occupied' = Occupied
  BY <1>1, AsTable, AsTableNext, RoomLeft DEF MapIInv
<1>3. g \in Occupied
  <2>1. g \in Cells(m_num_buckets)
    BY <1>2, BucketFound DEF Found
  <2> QED BY <1>1, <1>2, <2>1, KeyAssumption DEF InUse
<1>4. Map!HasKey(key)
  BY <1>1, <1>3, HasKeyCells DEF Map!HasKey
<1>5. \A b \in Occupied : T[b].first = key <=> b = g
  BY <1>1, <1>3 DEF MapIInv, OncePerKey, KeyAt
<1>6. ASSUME NEW p PROVE p \in Pairs' <=> p \in {q \in Pairs : q[1] # key}
  <2>1. p \in Pairs <=> \E b \in Occupied : p = CellPair(T[b])
    BY <1>1, PairsCells
  <2>2. p \in Pairs' <=> \E b \in Occupied : b # g /\ p = CellPair(T[b])
    BY <1>1, <1>2, PairsCellsNext
  <2>3. \A b \in Occupied : CellPair(T[b])[1] = T[b].first
    BY DEF CellPair
  <2> QED BY <1>5, <2>1, <2>2, <2>3
<1>7. Pairs' = {q \in Pairs : q[1] # key}
  BY <1>6
<1> QED BY <1>4, <1>7 DEF Map!PErase

\* When the hole is emptied its pair is out of the map already.
LEMMA EndStutters ==
  ASSUME MapIInv, EraseEnds
  PROVE  Pairs' = Pairs
<1> DEFINE n == m_num_buckets
           T == m_buckets
           U == m_buckets'
           h == hole
<1>1. /\ loop = "erase" /\ loop' = "idle" /\ m_num_buckets' = m_num_buckets
      /\ U = [T EXCEPT ![h] = EmptyCell]
  BY DEF EraseEnds
<1>2. /\ T \in [Cells(n) -> Contents] /\ h \in Cells(n) /\ h \in InUse(n, T)
      /\ Occupied = InUse(n, T) /\ Occupied' = InUse(n, U)
  BY <1>1, Erasing, AsTableNext
<1>3. EmptyCell.first = nullptr
  BY DEF EmptyCell
<1> HIDE DEF n, T, U, h
<1>4. U[h] = EmptyCell /\ \A b \in Cells(n) : b # h => U[b] = T[b]
  BY <1>1, <1>2
<1>5. InUse(n, U) = InUse(n, T) \ {h} /\ \A b \in InUse(n, U) : U[b] = T[b]
  BY <1>2, <1>3, <1>4 DEF InUse
<1>6. ASSUME NEW p PROVE p \in Pairs' <=> p \in Pairs
  <2>1. p \in Pairs <=> \E b \in InUse(n, T) : b # h /\ p = CellPair(T[b])
    BY <1>1, <1>2, PairsCells DEF h, T
  <2>2. p \in Pairs' <=> \E b \in InUse(n, U) : p = CellPair(U[b])
    BY <1>1, <1>2, PairsCellsNext DEF U
  <2> QED BY <1>5, <2>1, <2>2
<1> QED BY <1>6

\* The empty tables of the constructor hold no pair.
LEMMA InitNoPairs == MapInit => Pairs = {}
<1> SUFFICES ASSUME MapInit PROVE Pairs = {}
  OBVIOUS
<1>1. m_num_buckets \in Nat \ {0} /\ m_buckets = EmptyTable(m_num_buckets) /\ loop = "idle"
  BY TableAssumption DEF MapInit, AtRest
<1>2. Occupied = {}
  BY <1>1, EmptyTableFacts, AsTable
<1> QED BY <1>1, <1>2, PairsCells

\* Every step of the table is a step of the abstract map, or none.
LEMMA StepRefines == MapIInv /\ [MapNext]_mapVars => [Map!PNext]_Pairs
<1> SUFFICES ASSUME MapIInv, [MapNext]_mapVars, Pairs' # Pairs PROVE Map!PNext
  OBVIOUS
<1>1. CASE UNCHANGED mapVars
  BY <1>1 DEF mapVars, Pairs, Occupied, Full, Bucket, OldBuckets, CellPair
<1>2. ASSUME NEW key \in Key \cup {nullptr}, NEW val \in Val, Insert(key, val)
      PROVE  Map!PNext
  <2>1. /\ loop = "idle" /\ loop' = "idle" /\ m_num_buckets' = m_num_buckets /\ Put(key, val)
    BY <1>2 DEF Insert
  <2>2. CASE m_buckets' = m_buckets
    BY <2>1, <2>2, UnstoredStutters
  <2>3. CASE /\ key \in Key /\ \A b \in Occupied : KeyAt(b) # key
             /\ \E h \in Cells(m_num_buckets) \ Occupied : Stored(key, val, h)
    <3>1. Map!PInsert(key, val)
      BY <2>1, <2>3, StoredInserts
    <3> QED BY <2>3, <3>1 DEF Map!PNext
  <2> QED BY <2>1, <2>2, <2>3, PutStores
<1>3. ASSUME NEW key \in Key \cup {nullptr}, NEW val \in Val, InsertResizes(key, val)
      PROVE  Map!PNext
  <2>1. /\ loop = "idle" /\ loop' = "resize" /\ m_num_buckets' = 2 * m_num_buckets
        /\ old_buckets' = m_buckets /\ m_buckets' = EmptyTable(m_num_buckets')
        /\ index' = 0
    BY <1>3 DEF InsertResizes, NewBuckets
  <2>2. m_num_buckets \in Nat \ {0} /\ m_num_buckets' \in Nat \ {0}
    BY <2>1 DEF MapIInv, MapTypeOK
  <2>3. Occupied' = {}
    BY <2>1, <2>2, EmptyTableFacts, AsTableNext
  <2>4. OldBuckets' = m_num_buckets
    BY <2>1, <2>2 DEF OldBuckets
  <2>5. Left' = Occupied
    BY <2>1, <2>2, <2>4 DEF Left, Occupied, Bucket, Full
  <2>6. ASSUME NEW p PROVE p \in Pairs' <=> p \in Pairs
    BY <2>1, <2>3, <2>5, PairsCells, PairsCellsNext
  <2> QED BY <2>6
<1>4. ASSUME NEW key \in Key, Erase(key) PROVE Map!PNext
  BY <1>4, EraseErases DEF Map!PNext
<1>5. CASE ResizeMoves
  BY <1>5, MoveStutters
<1>6. CASE ResizeEnds
  <2> DEFINE key == pending.first
             val == pending.second
  <2>1. /\ loop = "resize" /\ loop' = "idle" /\ m_num_buckets' = m_num_buckets
        /\ Put(key, val) /\ index = OldBuckets
    BY <1>6 DEF ResizeEnds, RoundsOfResize
  <2>2. key \in Key \cup {nullptr} /\ val \in Val
    BY <2>1 DEF MapIInv, MapTypeOK, HasValues
  <2>3. Left = {}
    BY <2>1 DEF Left, MapIInv, RoomToGrow
  <2>4. CASE m_buckets' = m_buckets
    BY <2>1, <2>3, <2>4, UnstoredStutters
  <2>5. CASE /\ key \in Key /\ \A b \in Occupied : KeyAt(b) # key
             /\ \E h \in Cells(m_num_buckets) \ Occupied : Stored(key, val, h)
    <3>1. Map!PInsert(key, val)
      BY <2>1, <2>2, <2>3, <2>5, StoredInserts
    <3> QED BY <2>2, <2>5, <3>1 DEF Map!PNext
  <2> QED BY <2>1, <2>2, <2>4, <2>5, PutStores
<1>7. CASE EraseShifts
  BY <1>7, ShiftStutters
<1>8. CASE EraseSkips
  BY <1>8 DEF EraseSkips, Pairs, Occupied, Full, Bucket, OldBuckets, CellPair
<1>9. CASE EraseEnds
  BY <1>9, EndStutters
<1> QED BY <1>1, <1>2, <1>3, <1>4, <1>5, <1>6, <1>7, <1>8, <1>9 DEF MapNext, Call, Loop

\* The table implements the partial map: a key has the value it was inserted
\* with until it is erased, and no iteration of the loops of erase and resize
\* loses or invents an entry (PointerHashMap.cpp:79-147).
THEOREM ImplementsPartialMap == MapSpec => IsPartialMap
<1>1. MapInit => Map!PInit
  BY InitNoPairs DEF Map!PInit
<1>2. MapIInv /\ [MapNext]_mapVars => [Map!PNext]_Pairs
  BY StepRefines
<1> QED BY <1>1, <1>2, MapIInvInvariant, PTL DEF MapSpec, IsPartialMap, Map!PSpec
-----------------------------------------------------------------------------
(* StandAloneBuddyManager *)

\* The blocks in use that are not split.
Held == allocated \cup InHand

\* The lists hold the free blocks that are not inside a larger free one.
ListsFree(lists, B, W) ==
  \A s \in SizeClass :
    /\ NoRepeat(lists[s])
    /\ \A x : x \in Range(lists[s]) <=> x \in OffsetsOf(s) /\ Linked(B, W, x, s)

\* On its way up alloc has found the lists it passed empty.
PassedEmpty ==
  /\ pc \in {"alloc", "split"} => want <= szc
  /\ pc = "alloc" => \A u \in want..(szc - 1) : m_freelist[u] = <<>>

IInv ==
  /\ TypeOK
  /\ allocated \cap InHand = {}
  /\ Tree(m_bitmap, Held)
  /\ ListsFree(m_freelist, m_bitmap, Held)
  /\ PassedEmpty

\* The cells of the chunk are its smallest blocks.
LEMMA CellFacts ==
  /\ 0 \in SizeClass /\ Cell = OffsetsOf(0) /\ Cell \subseteq Units
  /\ \A s \in SizeClass : OffsetsOf(s) \subseteq Cell
<1>1. 0 \in SizeClass /\ get_size(0) = MinAllocSize
  BY ClassFacts
<1>2. Cell = OffsetsOf(0)
  BY <1>1 DEF Cell, OffsetsOf
<1>3. \A s \in SizeClass : 0 <= s
  BY Neighbours
<1> QED BY <1>1, <1>2, <1>3, OffsetsNested, OffsetFacts

\* A request is for a block of some class.
LEMMA RequestFacts == \A size \in RequestSizes : get_sizeclass(size) \in SizeClass
<1> SUFFICES ASSUME NEW size \in RequestSizes PROVE get_sizeclass(size) \in SizeClass
  OBVIOUS
<1>1. PICK s \in SizeClass : size = get_size(s)
  BY RequestAssumption
<1> QED BY <1>1, ClassFacts

\* Changing one list keeps the lists right when it changes that list as the
\* bitmap and the blocks in use change.
LEMMA OneList ==
  ASSUME NEW lists \in [SizeClass -> Seq(Cell)], NEW B, NEW W, ListsFree(lists, B, W),
         NEW s \in SizeClass, NEW list \in Seq(Cell), NoRepeat(list),
         NEW C, NEW V,
         \A x : x \in Range(list) <=> x \in OffsetsOf(s) /\ Linked(C, V, x, s),
         \A r \in SizeClass : r # s =>
           \A x \in OffsetsOf(r) : Linked(C, V, x, r) <=> Linked(B, W, x, r),
         NEW now, now = [lists EXCEPT ![s] = list]
  PROVE  now \in [SizeClass -> Seq(Cell)] /\ ListsFree(now, C, V)
<1>1. now \in [SizeClass -> Seq(Cell)]
  OBVIOUS
<1>2. ASSUME NEW r \in SizeClass
      PROVE  /\ NoRepeat(now[r])
             /\ \A x : x \in Range(now[r]) <=> x \in OffsetsOf(r) /\ Linked(C, V, x, r)
  <2>1. CASE r = s
    BY <2>1
  <2>2. CASE r # s
    <3>1. now[r] = lists[r]
      BY <2>2
    <3> QED BY <2>2, <3>1 DEF ListsFree
  <2> QED BY <2>1, <2>2
<1> QED BY <1>1, <1>2 DEF ListsFree
-----------------------------------------------------------------------------
(* Every step keeps the invariant *)

\* The chunk starts as one free block.
LEMMA InitIInv == Init => IInv
<1> SUFFICES ASSUME Init PROVE IInv
  OBVIOUS
<1>1. 0 \in SizeClass /\ 0 \in Cell /\ TopClass \in SizeClass /\ 0 \in OffsetsOf(TopClass)
  BY CellFacts, TopBlock
<1>2. Held = {} /\ InHand = {}
  BY DEF Init, Held, InHand
<1>3. TypeOK
  <2>1. m_freelist \in [SizeClass -> Seq(Cell)]
    BY <1>1 DEF Init
  <2> QED BY <1>1, <2>1 DEF Init, TypeOK
<1>4. Tree(m_bitmap, Held)
  BY <1>2, NewTree DEF Init
<1>5. ASSUME NEW s \in SizeClass
      PROVE  /\ NoRepeat(m_freelist[s])
             /\ \A x : x \in Range(m_freelist[s]) <=> x \in OffsetsOf(s) /\ Linked(m_bitmap, Held, x, s)
  <2>1. m_bitmap = {}
    BY DEF Init
  <2>2. \A x \in OffsetsOf(s) : Linked(m_bitmap, Held, x, s) <=> s = TopClass
    BY <1>2, <2>1, NewTree
  <2>3. CASE s = TopClass
    <3>1. m_freelist[s] = <<0>>
      BY <2>3 DEF Init
    <3>2. NoRepeat(<<0>>) /\ Range(<<0>>) = {0}
      BY DEF NoRepeat, Range
    <3> QED BY <1>1, <2>2, <2>3, <3>1, <3>2, TopBlock
  <2>4. CASE s # TopClass
    <3>1. m_freelist[s] = <<>>
      BY <2>4 DEF Init
    <3> QED BY <2>2, <2>4, <3>1, EmptyFacts
  <2> QED BY <2>3, <2>4
<1>6. PassedEmpty
  BY DEF Init, PassedEmpty
<1> QED BY <1>2, <1>3, <1>4, <1>5, <1>6 DEF IInv, ListsFree

\* Steps that change neither the lists nor the bits, and hold the same blocks.
LEMMA SameHeld ==
  ASSUME IInv, UNCHANGED <<m_freelist, m_bitmap>>, Held' = Held, TypeOK',
         (allocated \cap InHand = {})', PassedEmpty'
  PROVE  IInv'
BY DEF IInv

\* alloc takes the first block of the list.
LEMMA AllocPopKeeps == IInv /\ AllocPops => IInv'
<1> SUFFICES ASSUME IInv, AllocPops PROVE IInv'
  OBVIOUS
<1> DEFINE list == m_freelist[szc]
           o == Head(list)
<1>1. TypeOK /\ szc \in SizeClass /\ list \in Seq(Cell) /\ list # <<>> /\ pc = "alloc"
  BY DEF IInv, TypeOK, AllocPops
<1>2. ptr' = o /\ szc' = szc /\ want' = want /\ pc' = "split" /\ allocated' = allocated
      /\ m_freelist' = [m_freelist EXCEPT ![szc] = Tail(list)]
      /\ m_bitmap' = m_bitmap \cup {get_bitmap_index(o, szc)}
      /\ reclaim' = reclaim
  BY DEF AllocPops
<1>3. /\ o \in Range(list)
      /\ Range(Tail(list)) = Range(list) \ {o} /\ NoRepeat(Tail(list))
      /\ Tail(list) \in Seq(Cell)
  <2>1. NoRepeat(list)
    BY <1>1 DEF IInv, ListsFree
  <2> QED BY <1>1, <2>1, TailRange, TailFacts
<1>4. o \in OffsetsOf(szc) /\ Linked(m_bitmap, Held, o, szc)
  BY <1>1, <1>3 DEF IInv, ListsFree
<1>5. Held = allocated /\ Held' = allocated \cup {<<o, szc>>} /\ InHand' = {<<o, szc>>}
  BY <1>1, <1>2 DEF Held, InHand
<1> HIDE DEF o, list
<1>6. szc \in Nat /\ szc..szc = {szc} /\ szc..(szc - 1) = {}
  BY <1>1, Neighbours
<1>7. Marked(m_bitmap, m_bitmap', o, szc, szc) /\ Gets(Held, Held', o, szc)
  BY <1>2, <1>5, <1>6 DEF Marked, Gets
<1>8. /\ Tree(m_bitmap', Held')
      /\ \A s \in SizeClass : \A x \in OffsetsOf(s) :
           Linked(m_bitmap', Held', x, s) <=> Linked(m_bitmap, Held, x, s) /\ ~(x = o /\ s = szc)
  <2>1. Tree(m_bitmap, Held) /\ szc <= szc
    BY <1>6 DEF IInv
  <2>2. /\ Tree(m_bitmap', Held')
        /\ \A s \in SizeClass : \A x \in OffsetsOf(s) :
             /\ Linked(m_bitmap', Held', x, s) <=>
                  \/ Linked(m_bitmap, Held, x, s) /\ ~(x = o /\ s = szc)
                  \/ s \in szc..(szc - 1) /\ x = get_buddy(o, s)
             /\ s \in szc..(szc - 1) => ~Linked(m_bitmap, Held, get_buddy(o, s), s)
             /\ Linked(m_bitmap', Held', x, s) => EnclosingBlock(x, szc) # o
    BY <1>1, <1>4, <1>7, <2>1, AllocTree
  <2> QED BY <1>6, <2>2
<1>9. m_freelist' \in [SizeClass -> Seq(Cell)] /\ ListsFree(m_freelist', m_bitmap', Held')
  <2>1. \A x : x \in Range(Tail(list)) <=> x \in OffsetsOf(szc) /\ Linked(m_bitmap', Held', x, szc)
    BY <1>1, <1>3, <1>8 DEF IInv, ListsFree, list
  <2>2. \A r \in SizeClass : r # szc =>
          \A x \in OffsetsOf(r) : Linked(m_bitmap', Held', x, r) <=> Linked(m_bitmap, Held, x, r)
    BY <1>8
  <2>3. m_freelist \in [SizeClass -> Seq(Cell)] /\ ListsFree(m_freelist, m_bitmap, Held)
    BY DEF IInv, TypeOK
  <2> QED BY <1>1, <1>2, <1>3, <2>1, <2>2, <2>3, OneList
<1>10. get_bitmap_index(o, szc) \in BitIndex /\ o \in Cell
  BY <1>1, <1>4, BitFacts, CellFacts
<1>11. TypeOK'
  BY <1>1, <1>2, <1>9, <1>10 DEF TypeOK
<1>12. (allocated \cap InHand = {})'
  <2>1. <<o, szc>> \notin allocated
    BY <1>4, <1>5 DEF IInv, Tree, Linked
  <2> QED BY <1>2, <1>5, <2>1
<1>13. PassedEmpty'
  BY <1>1, <1>2 DEF IInv, PassedEmpty
<1> QED BY <1>8, <1>9, <1>11, <1>12, <1>13 DEF IInv

\* A call of alloc returns to the one of half the size.
LEMMA SplitKeeps == IInv /\ AllocSplits => IInv'
<1> SUFFICES ASSUME IInv, AllocSplits PROVE IInv'
  OBVIOUS
<1> DEFINE q == szc - 1
           b == get_buddy(ptr, q)
           list == m_freelist[q]
<1>1. TypeOK /\ szc \in SizeClass /\ want \in SizeClass /\ pc = "split" /\ want <= szc /\ szc # want
  BY DEF IInv, TypeOK, AllocSplits, PassedEmpty
<1>2. /\ szc' = q /\ ptr' = ptr /\ want' = want /\ pc' = "split" /\ allocated' = allocated
      /\ m_freelist' = [m_freelist EXCEPT ![q] = <<b>> \o list]
      /\ m_bitmap' = m_bitmap \cup {get_bitmap_index(ptr, q)}
      /\ reclaim' = reclaim
  BY <1>1 DEF AllocSplits, BitsOfHalf
<1>3. szc # 0 /\ q \in SizeClass /\ q # TopClass /\ want <= q /\ q..q = {q}
  BY <1>1, Neighbours
<1>4. InHand = {<<ptr, szc>>} /\ InHand' = {<<ptr, q>>} /\ <<ptr, szc>> \in Held
  BY <1>1, <1>2 DEF Held, InHand
<1>5. Becomes(Held, Held', ptr, szc, ptr, q)
  <2>1. <<ptr, szc>> \notin allocated
    BY <1>4 DEF IInv
  <2> QED BY <1>2, <1>4, <2>1 DEF Held, Becomes
<1>6. Marked(m_bitmap, m_bitmap', ptr, q, q)
  BY <1>2, <1>3 DEF Marked
<1>7. /\ Tree(m_bitmap', Held') /\ <<ptr, q>> \notin Held
      /\ ~Linked(m_bitmap, Held, b, q)
      /\ \A r \in SizeClass : \A x \in OffsetsOf(r) :
           Linked(m_bitmap', Held', x, r) <=> Linked(m_bitmap, Held, x, r) \/ (r = q /\ x = b)
  <2>1. Tree(m_bitmap, Held)
    BY DEF IInv
  <2> QED BY <1>1, <1>3, <1>4, <1>5, <1>6, <2>1, SplitTree
<1>8. ptr \in OffsetsOf(q) /\ b \in OffsetsOf(q)
  <2>1. ptr \in OffsetsOf(szc)
    BY <1>4 DEF IInv, Tree
  <2>2. q <= szc
    BY <1>1, Neighbours
  <2>3. ptr \in OffsetsOf(q)
    BY <1>1, <1>3, <2>1, <2>2, OffsetsNested
  <2> QED BY <1>3, <2>3, BuddyFacts
<1> HIDE DEF b
<1>9. m_freelist' \in [SizeClass -> Seq(Cell)] /\ ListsFree(m_freelist', m_bitmap', Held')
  <2>1. list \in Seq(Cell) /\ b \in Cell /\ NoRepeat(list) /\ b \notin Range(list)
    BY <1>1, <1>3, <1>7, <1>8, CellFacts DEF IInv, TypeOK, ListsFree
  <2>2. /\ <<b>> \o list \in Seq(Cell) /\ NoRepeat(<<b>> \o list)
        /\ Range(<<b>> \o list) = {b} \cup Range(list)
    BY <2>1, ConsFacts, ConsRange
  <2>3. \A x : x \in Range(list) <=> x \in OffsetsOf(q) /\ Linked(m_bitmap, Held, x, q)
    BY <1>3 DEF IInv, ListsFree
  <2> HIDE DEF list, q
  <2>4. \A x : x \in Range(<<b>> \o list) <=> x \in OffsetsOf(q) /\ Linked(m_bitmap', Held', x, q)
    BY <1>3, <1>7, <1>8, <2>2, <2>3
  <2>5. \A r \in SizeClass : r # q =>
          \A x \in OffsetsOf(r) : Linked(m_bitmap', Held', x, r) <=> Linked(m_bitmap, Held, x, r)
    BY <1>7
  <2>6. m_freelist \in [SizeClass -> Seq(Cell)] /\ ListsFree(m_freelist, m_bitmap, Held)
    BY DEF IInv, TypeOK
  <2> QED BY <1>2, <1>3, <2>2, <2>4, <2>5, <2>6, OneList
<1>10. get_bitmap_index(ptr, q) \in BitIndex
  BY <1>3, <1>8, BitFacts
<1>11. TypeOK'
  BY <1>1, <1>2, <1>3, <1>9, <1>10 DEF TypeOK
<1>12. (allocated \cap InHand = {})'
  BY <1>2, <1>4, <1>7 DEF Held
<1>13. PassedEmpty'
  BY <1>2, <1>3 DEF PassedEmpty
<1> QED BY <1>7, <1>9, <1>11, <1>12, <1>13 DEF IInv

\* free goes up a class: the block in hand and its buddy become one.
LEMMA MergeKeeps == IInv /\ FreeMerges => IInv'
<1> SUFFICES ASSUME IInv, FreeMerges PROVE IInv'
  OBVIOUS
<1> DEFINE b == get_buddy(ptr, szc)
           p == EnclosingBlock(ptr, szc + 1)
           list == m_freelist[szc]
<1>1. /\ TypeOK /\ szc \in SizeClass /\ pc = "free"
      /\ szc # TopClass /\ ~Used(m_bitmap, b, szc)
  BY DEF IInv, TypeOK, FreeMerges, Merges, Free, block_is_free, Used, Buddy
<1>2. InHand = {<<ptr, szc>>} /\ <<ptr, szc>> \in Held /\ ptr \in OffsetsOf(szc)
  <2>1. InHand = {<<ptr, szc>>} /\ <<ptr, szc>> \in Held
    BY <1>1 DEF Held, InHand
  <2> QED BY <2>1 DEF IInv, Tree
<1>3. /\ szc' = szc + 1 /\ want' = want /\ pc' = "free" /\ allocated' = allocated
      /\ m_freelist' = [m_freelist EXCEPT ![szc] = RemoveFirst(list, b)]
      /\ m_bitmap' = m_bitmap \ {get_bitmap_index(ptr, szc)}
      /\ reclaim' = reclaim /\ ptr' = IF ptr < b THEN ptr ELSE b
  BY <1>1 DEF FreeMerges, BitsAfterFree, BuddyRemoved, Buddy
<1>4. ptr' = p
  BY <1>1, <1>2, <1>3, LowerHalf
<1>5. InHand' = {<<p, szc + 1>>}
  BY <1>3, <1>4 DEF InHand
<1>6. Becomes(Held, Held', ptr, szc, p, szc + 1)
  <2>1. <<ptr, szc>> \notin allocated
    BY <1>2 DEF IInv
  <2> QED BY <1>2, <1>3, <1>5, <2>1 DEF Held, Becomes
<1>7. Unmarked(m_bitmap, m_bitmap', ptr, szc, szc)
  <2>1. EnclosingBlock(ptr, szc) = ptr /\ szc..szc = {szc}
    BY <1>1, <1>2, Neighbours, EnclosesItself
  <2> QED BY <1>3, <2>1 DEF Unmarked
<1>8. /\ Tree(m_bitmap', Held') /\ <<p, szc + 1>> \notin Held
      /\ p \in OffsetsOf(szc + 1) /\ szc + 1 \in SizeClass
      /\ b \in OffsetsOf(szc) /\ Linked(m_bitmap, Held, b, szc)
      /\ \A r \in SizeClass : \A x \in OffsetsOf(r) :
           Linked(m_bitmap', Held', x, r) <=> Linked(m_bitmap, Held, x, r) /\ ~(r = szc /\ x = b)
  <2>1. Tree(m_bitmap, Held)
    BY DEF IInv
  <2> QED BY <1>1, <1>2, <1>6, <1>7, <2>1, MergeTree
<1> HIDE DEF b, p
<1>9. m_freelist' \in [SizeClass -> Seq(Cell)] /\ ListsFree(m_freelist', m_bitmap', Held')
  <2>1. list \in Seq(Cell) /\ NoRepeat(list) /\ b \in Range(list)
    BY <1>1, <1>8 DEF IInv, TypeOK, ListsFree
  <2>2. /\ RemoveFirst(list, b) \in Seq(Cell) /\ NoRepeat(RemoveFirst(list, b))
        /\ Range(RemoveFirst(list, b)) = Range(list) \ {b}
    BY <2>1, RemoveFirstFacts
  <2>3. \A x : x \in Range(list) <=> x \in OffsetsOf(szc) /\ Linked(m_bitmap, Held, x, szc)
    BY <1>1 DEF IInv, ListsFree
  <2> HIDE DEF list
  <2>4. \A x : x \in Range(RemoveFirst(list, b)) <=>
               x \in OffsetsOf(szc) /\ Linked(m_bitmap', Held', x, szc)
    BY <1>1, <1>8, <2>2, <2>3
  <2>5. \A r \in SizeClass : r # szc =>
          \A x \in OffsetsOf(r) : Linked(m_bitmap', Held', x, r) <=> Linked(m_bitmap, Held, x, r)
    BY <1>8
  <2>6. m_freelist \in [SizeClass -> Seq(Cell)] /\ ListsFree(m_freelist, m_bitmap, Held)
    BY DEF IInv, TypeOK
  <2> QED BY <1>1, <1>3, <2>2, <2>4, <2>5, <2>6, OneList
<1>10. p \in Cell
  BY <1>8, CellFacts
<1>11. TypeOK'
  BY <1>1, <1>3, <1>4, <1>8, <1>9, <1>10 DEF TypeOK
<1>12. (allocated \cap InHand = {})'
  BY <1>3, <1>5, <1>8 DEF Held
<1>13. PassedEmpty'
  BY <1>3 DEF PassedEmpty
<1> QED BY <1>8, <1>9, <1>11, <1>12, <1>13 DEF IInv

\* free ends where the buddy is in use, or with the whole chunk.
LEMMA EndKeeps == IInv /\ FreeEnds => IInv'
<1> SUFFICES ASSUME IInv, FreeEnds PROVE IInv'
  OBVIOUS
<1> DEFINE list == m_freelist[szc]
<1>1. /\ TypeOK /\ szc \in SizeClass /\ ptr \in Cell /\ pc = "free"
      /\ szc # TopClass => Used(m_bitmap, get_buddy(ptr, szc), szc)
  BY DEF IInv, TypeOK, FreeEnds, Merges, Free, block_is_free, Used, Buddy
<1>2. /\ InHand = {<<ptr, szc>>} /\ <<ptr, szc>> \in Held /\ ptr \in OffsetsOf(szc)
      /\ Used(m_bitmap, ptr, szc)
  <2>1. InHand = {<<ptr, szc>>} /\ <<ptr, szc>> \in Held
    BY <1>1 DEF Held, InHand
  <2> QED BY <2>1 DEF IInv, Tree
<1>3. /\ szc' = 0 /\ ptr' = 0 /\ want' = want /\ pc' = "idle" /\ allocated' = allocated
      /\ m_freelist' = [m_freelist EXCEPT ![szc] = <<ptr>> \o list]
      /\ m_bitmap' = m_bitmap \ {get_bitmap_index(ptr, szc)}
      /\ reclaim' = (szc = TopClass)
  BY <1>1 DEF FreeEnds, BitsAfterFree
<1>4. EnclosingBlock(ptr, szc) = ptr /\ szc..szc = {szc} /\ szc..(szc - 1) = {}
  BY <1>1, <1>2, Neighbours, EnclosesItself
<1>5. Held' = allocated /\ InHand' = {} /\ Gives(Held, Held', ptr, szc)
  <2>1. <<ptr, szc>> \notin allocated
    BY <1>2 DEF IInv
  <2>2. Held' = allocated /\ InHand' = {}
    BY <1>3 DEF Held, InHand
  <2> QED BY <1>2, <2>1, <2>2 DEF Held, Gives
<1>6. Unmarked(m_bitmap, m_bitmap', ptr, szc, szc)
  BY <1>3, <1>4 DEF Unmarked
<1>7. MergesUpTo(m_bitmap, ptr, szc, szc)
  BY <1>1, <1>4 DEF MergesUpTo
<1>8. /\ Tree(m_bitmap', Held') /\ ~Linked(m_bitmap, Held, ptr, szc)
      /\ \A r \in SizeClass : \A x \in OffsetsOf(r) :
           Linked(m_bitmap', Held', x, r) <=> Linked(m_bitmap, Held, x, r) \/ (r = szc /\ x = ptr)
  <2>1. Tree(m_bitmap, Held) /\ szc <= szc
    BY <1>1, Neighbours DEF IInv
  <2>2. /\ Tree(m_bitmap', Held')
        /\ \A r \in SizeClass : \A x \in OffsetsOf(r) :
             Linked(m_bitmap', Held', x, r) <=>
               \/ /\ Linked(m_bitmap, Held, x, r)
                  /\ ~(r \in szc..(szc - 1) /\ x = get_buddy(EnclosingBlock(ptr, r), r))
               \/ r = szc /\ x = EnclosingBlock(ptr, szc)
    BY <1>1, <1>2, <1>5, <1>6, <1>7, <2>1, FreeTree
  <2>3. ~Linked(m_bitmap, Held, ptr, szc)
    BY <1>2 DEF Linked
  <2> QED BY <1>4, <2>2, <2>3
<1>9. m_freelist' \in [SizeClass -> Seq(Cell)] /\ ListsFree(m_freelist', m_bitmap', Held')
  <2>1. list \in Seq(Cell) /\ NoRepeat(list) /\ ptr \notin Range(list)
    BY <1>1, <1>8 DEF IInv, TypeOK, ListsFree
  <2>2. /\ <<ptr>> \o list \in Seq(Cell) /\ NoRepeat(<<ptr>> \o list)
        /\ Range(<<ptr>> \o list) = {ptr} \cup Range(list)
    BY <1>1, <2>1, ConsFacts, ConsRange
  <2>3. \A x : x \in Range(list) <=> x \in OffsetsOf(szc) /\ Linked(m_bitmap, Held, x, szc)
    BY <1>1 DEF IInv, ListsFree
  <2> HIDE DEF list
  <2>4. \A x : x \in Range(<<ptr>> \o list) <=> x \in OffsetsOf(szc) /\ Linked(m_bitmap', Held', x, szc)
    BY <1>1, <1>2, <1>8, <2>2, <2>3
  <2>5. \A r \in SizeClass : r # szc =>
          \A x \in OffsetsOf(r) : Linked(m_bitmap', Held', x, r) <=> Linked(m_bitmap, Held, x, r)
    BY <1>8
  <2>6. m_freelist \in [SizeClass -> Seq(Cell)] /\ ListsFree(m_freelist, m_bitmap, Held)
    BY DEF IInv, TypeOK
  <2> QED BY <1>1, <1>3, <2>2, <2>4, <2>5, <2>6, OneList
<1>10. 0 \in SizeClass /\ 0 \in Cell
  BY CellFacts, TopBlock
<1>11. TypeOK'
  BY <1>1, <1>3, <1>9, <1>10 DEF TypeOK
<1>12. (allocated \cap InHand = {})'
  BY <1>5
<1>13. PassedEmpty'
  BY <1>3 DEF PassedEmpty
<1> QED BY <1>8, <1>9, <1>11, <1>12, <1>13 DEF IInv

\* The invariant holds at every depth of both recursions.
THEOREM IInvInvariant == Spec => []IInv
<1>1. IInv /\ [Next]_vars => IInv'
  <2> SUFFICES ASSUME IInv, [Next]_vars PROVE IInv'
    OBVIOUS
  <2>1. TypeOK /\ 0 \in SizeClass /\ 0 \in Cell
    BY CellFacts, TopBlock DEF IInv
  <2>2. ASSUME NEW size \in RequestSizes, CallAlloc(size) PROVE IInv'
    <3>1. get_sizeclass(size) \in SizeClass
      BY RequestFacts
    <3>2. TypeOK'
      BY <2>1, <2>2, <3>1 DEF CallAlloc, TypeOK
    <3>3. Held' = Held /\ InHand' = {}
      BY <2>2 DEF CallAlloc, Held, InHand
    <3>4. PassedEmpty'
      <4>1. szc' = want' /\ want' \in SizeClass
        BY <2>2, <3>1 DEF CallAlloc
      <4>2. \A n \in SizeClass : n <= n /\ \A u \in n..(n - 1) : FALSE
        BY Neighbours
      <4>3. want' <= szc' /\ \A u \in want'..(szc' - 1) : FALSE
        BY <4>1, <4>2
      <4> QED BY <4>3 DEF PassedEmpty
    <3> QED BY <2>2, <3>2, <3>3, <3>4, SameHeld DEF CallAlloc
  <2>3. ASSUME NEW b \in allocated, CallFree(b[1], b[2]) PROVE IInv'
    <3>1. b = <<b[1], b[2]>> /\ b[1] \in Cell /\ b[2] \in SizeClass
      BY <2>1 DEF TypeOK
    <3>2. /\ pc = "idle" /\ allocated' = allocated \ {b} /\ pc' = "free" /\ ptr' = b[1] /\ szc' = b[2]
          /\ UNCHANGED <<m_freelist, m_bitmap, want, reclaim>>
      BY <2>3, <3>1 DEF CallFree
    <3>3. TypeOK'
      BY <2>1, <3>1, <3>2 DEF TypeOK
    <3>4. Held' = Held /\ InHand' = {b}
      BY <3>1, <3>2 DEF Held, InHand
    <3>5. PassedEmpty'
      BY <3>2 DEF PassedEmpty
    <3> QED BY <3>2, <3>3, <3>4, <3>5, SameHeld
  <2>4. CASE AllocGoesUp
    <3>1. szc + 1 \in SizeClass /\ szc \in Nat /\ want \in Nat
      BY <2>1, <2>4, Neighbours DEF AllocGoesUp, TypeOK
    <3>2. TypeOK'
      BY <2>1, <2>4, <3>1 DEF AllocGoesUp, ClassAbove, TypeOK
    <3>3. Held' = Held /\ InHand' = InHand
      BY <2>4 DEF AllocGoesUp, Held, InHand
    <3>4. PassedEmpty'
      <4>1. /\ want <= szc /\ want' = want /\ szc' = szc + 1 /\ m_freelist' = m_freelist
            /\ \A u \in want..(szc - 1) : m_freelist[u] = <<>>
            /\ m_freelist[szc] = <<>>
        BY <2>4 DEF AllocGoesUp, ClassAbove, IInv, PassedEmpty
      <4>2. \A u \in want..szc : u \in want..(szc - 1) \/ u = szc
        BY <3>1
      <4>3. want <= szc + 1 /\ (szc + 1) - 1 = szc
        BY <3>1, <4>1
      <4> QED BY <4>1, <4>2, <4>3 DEF PassedEmpty
    <3>5. allocated \cap InHand = {} /\ allocated' = allocated
      BY <2>4 DEF IInv, AllocGoesUp
    <3> QED BY <2>4, <3>2, <3>3, <3>4, <3>5, SameHeld DEF AllocGoesUp
  <2>5. CASE AllocFails
    <3>1. TypeOK'
      BY <2>1, <2>5 DEF AllocFails, TypeOK
    <3>2. Held' = Held /\ InHand' = {}
      BY <2>5 DEF AllocFails, Held, InHand
    <3>3. PassedEmpty'
      BY <2>5 DEF AllocFails, PassedEmpty
    <3> QED BY <2>5, <3>1, <3>2, <3>3, SameHeld DEF AllocFails
  <2>6. CASE AllocReturns
    <3>1. TypeOK'
      BY <2>1, <2>6 DEF AllocReturns, TypeOK
    <3>2. Held' = Held /\ InHand' = {}
      BY <2>6 DEF AllocReturns, Held, InHand
    <3>3. PassedEmpty'
      BY <2>6 DEF AllocReturns, PassedEmpty
    <3> QED BY <2>6, <3>1, <3>2, <3>3, SameHeld DEF AllocReturns
  <2>7. CASE UNCHANGED vars
    BY <2>7 DEF vars, IInv, TypeOK, Held, InHand, ListsFree, PassedEmpty
  <2> QED BY <2>2, <2>3, <2>4, <2>5, <2>6, <2>7, AllocPopKeeps, SplitKeeps, MergeKeeps, EndKeeps
          DEF Next, Recursion
<1> QED BY <1>1, InitIInv, PTL DEF Spec
-----------------------------------------------------------------------------
(* What follows from the invariant *)

\* The cells of a block are those that it encloses.
LEMMA CellsFacts ==
  ASSUME NEW s \in SizeClass, NEW o \in OffsetsOf(s)
  PROVE  /\ \A u : u \in CellsOf(o, s) <=> u \in Cell /\ EnclosingBlock(u, s) = o
         /\ o \in CellsOf(o, s) /\ o \in Cell /\ EnclosingBlock(o, s) = o
<1>1. \A u \in Cell : o <= u /\ u < o + get_size(s) <=> EnclosingBlock(u, s) = o
  BY CellFacts, EnclosingFacts
<1>2. o \in Cell /\ EnclosingBlock(o, s) = o
  BY CellFacts, EnclosesItself
<1> QED BY <1>1, <1>2 DEF CellsOf

\* The lists, the clients and the hand have the blocks of the tree.
LEMMA BlocksFacts ==
  ASSUME IInv
  PROVE  /\ \A b \in Held : /\ b = <<b[1], b[2]>> /\ b[2] \in SizeClass
                            /\ b[1] \in OffsetsOf(b[2]) /\ <<b[1], b[2]>> \in Held
         /\ \A b \in Blocks : /\ b = <<b[1], b[2]>> /\ b[2] \in SizeClass
                              /\ b[1] \in OffsetsOf(b[2]) /\ Block(m_bitmap, Held, b[1], b[2])
         /\ \A s \in SizeClass : \A o \in OffsetsOf(s) :
              Block(m_bitmap, Held, o, s) => <<o, s>> \in Blocks
<1>1. ASSUME NEW b \in Held
      PROVE  /\ b = <<b[1], b[2]>> /\ b[2] \in SizeClass
             /\ b[1] \in OffsetsOf(b[2]) /\ <<b[1], b[2]>> \in Held
  <2>1. b = <<b[1], b[2]>>
    BY <1>1 DEF IInv, TypeOK, Held, InHand
  <2> QED BY <1>1, <2>1 DEF IInv, Tree
<1>2. ASSUME NEW b \in Blocks
      PROVE  /\ b = <<b[1], b[2]>> /\ b[2] \in SizeClass
             /\ b[1] \in OffsetsOf(b[2]) /\ Block(m_bitmap, Held, b[1], b[2])
  <2>1. CASE b \in Held
    BY <1>1, <2>1 DEF Block
  <2>2. CASE b \notin Held
    <3>1. PICK s \in SizeClass : b \in InList(s) \X {s}
      BY <2>2 DEF Blocks, Held
    <3>2. b = <<b[1], b[2]>> /\ b[2] = s /\ b[1] \in Range(m_freelist[s])
      BY <3>1 DEF InList
    <3> QED BY <3>2 DEF IInv, ListsFree, Block
  <2> QED BY <2>1, <2>2
<1>3. ASSUME NEW s \in SizeClass, NEW o \in OffsetsOf(s), Block(m_bitmap, Held, o, s)
      PROVE  <<o, s>> \in Blocks
  <2>1. CASE <<o, s>> \in Held
    BY <2>1 DEF Held, Blocks
  <2>2. CASE Linked(m_bitmap, Held, o, s)
    <3>1. <<o, s>> \in InList(s) \X {s}
      BY <2>2 DEF InList, IInv, ListsFree
    <3> QED BY <3>1 DEF Blocks
  <2> QED BY <1>3, <2>1, <2>2 DEF Block
<1> QED BY <1>1, <1>2, <1>3

\* Every cell is in one block, and no block is listed twice.
LEMMA Tiled == IInv => MemoryTiled
<1> SUFFICES ASSUME IInv PROVE MemoryTiled
  OBVIOUS
<1>1. Tree(m_bitmap, Held)
  BY DEF IInv
<1>2. ASSUME NEW a \in Blocks, NEW b \in Blocks, a # b,
             NEW u, u \in CellsOf(a[1], a[2]), u \in CellsOf(b[1], b[2])
      PROVE  FALSE
  <2>1. /\ a = <<a[1], a[2]>> /\ a[2] \in SizeClass /\ a[1] \in OffsetsOf(a[2])
        /\ Block(m_bitmap, Held, a[1], a[2])
        /\ b = <<b[1], b[2]>> /\ b[2] \in SizeClass /\ b[1] \in OffsetsOf(b[2])
        /\ Block(m_bitmap, Held, b[1], b[2])
    BY BlocksFacts
  <2>2. u \in Units /\ EnclosingBlock(u, a[2]) = a[1] /\ EnclosingBlock(u, b[2]) = b[1]
    BY <1>2, <2>1, CellsFacts, CellFacts
  <2>3. a[2] = b[2]
    <3>1. PICK s \in SizeClass :
            \A r \in SizeClass : Block(m_bitmap, Held, EnclosingBlock(u, r), r) => r = s
      BY <1>1, <2>2, TreeTiles
    <3> QED BY <2>1, <2>2, <3>1
  <2> QED BY <1>2, <2>1, <2>2, <2>3
<1>3. ASSUME NEW b \in Blocks, NEW u \in CellsOf(b[1], b[2]) PROVE u \in Cell
  BY DEF CellsOf
<1>4. ASSUME NEW u \in Cell PROVE \E b \in Blocks : u \in CellsOf(b[1], b[2])
  <2>1. u \in Units
    BY CellFacts
  <2>2. PICK s \in SizeClass : Block(m_bitmap, Held, EnclosingBlock(u, s), s)
    BY <1>1, <2>1, TreeTiles
  <2> DEFINE o == EnclosingBlock(u, s)
             b == <<o, s>>
  <2>3. o \in OffsetsOf(s)
    BY <2>1, EnclosingFacts
  <2>4. b \in Blocks /\ b[1] = o /\ b[2] = s
    BY <2>2, <2>3, BlocksFacts
  <2>5. u \in CellsOf(o, s)
    BY <2>3, CellsFacts
  <2> QED BY <2>4, <2>5
<1>5. UNION {CellsOf(b[1], b[2]) : b \in Blocks} = Cell
  BY <1>3, <1>4
<1>6. ASSUME NEW s \in SizeClass PROVE IsInjective(m_freelist[s])
  <2>1. NoRepeat(m_freelist[s]) /\ m_freelist[s] \in Seq(Cell)
    BY DEF IInv, ListsFree, TypeOK
  <2>2. DOMAIN m_freelist[s] = 1..Len(m_freelist[s])
    BY <2>1
  <2> QED BY <2>1, <2>2 DEF IsInjective, NoRepeat
<1> QED BY <1>2, <1>5, <1>6 DEF MemoryTiled

\* A block has its bit set exactly when something in it is in use.
LEMMA BitsMatch ==
  ASSUME IInv, NEW s \in SizeClass, NEW o \in OffsetsOf(s)
  PROVE  Used(m_bitmap, o, s) <=>
           \E b \in Held : CellsOf(o, s) \cap CellsOf(b[1], b[2]) # {} /\ b[2] <= s
<1>1. Tree(m_bitmap, Held)
  BY DEF IInv
<1>2. TopClass \in Nat /\ SizeClass = 0..TopClass
  BY Neighbours
<1>3. ASSUME Used(m_bitmap, o, s)
      PROVE  \E b \in Held : CellsOf(o, s) \cap CellsOf(b[1], b[2]) # {} /\ b[2] <= s
  <2>1. PICK t \in SizeClass : \E h \in OffsetsOf(t) :
          t <= s /\ <<h, t>> \in Held /\ EnclosingBlock(h, s) = o
    BY <1>1, <1>3, UsedHasLeaf
  <2>2. PICK h \in OffsetsOf(t) : t <= s /\ <<h, t>> \in Held /\ EnclosingBlock(h, s) = o
    BY <2>1
  <2>3. h \in CellsOf(h, t) /\ h \in Cell
    BY CellsFacts
  <2>4. h \in CellsOf(o, s)
    BY <2>2, <2>3, CellsFacts
  <2> DEFINE b == <<h, t>>
  <2>5. b \in Held /\ b[1] = h /\ b[2] = t
    BY <2>2
  <2> QED BY <2>2, <2>3, <2>4, <2>5
<1>4. ASSUME NEW b \in Held, CellsOf(o, s) \cap CellsOf(b[1], b[2]) # {}, b[2] <= s
      PROVE  Used(m_bitmap, o, s)
  <2> DEFINE h == b[1]
             t == b[2]
  <2>1. t \in SizeClass /\ h \in OffsetsOf(t) /\ <<h, t>> \in Held
    BY <1>4, BlocksFacts
  <2>2. PICK u : u \in CellsOf(o, s) /\ u \in CellsOf(h, t)
    BY <1>4
  <2>3. u \in Units /\ EnclosingBlock(u, s) = o /\ EnclosingBlock(u, t) = h
    BY <2>1, <2>2, CellsFacts, CellFacts
  <2>4. Used(m_bitmap, h, t)
    BY <1>1, <2>1 DEF Tree
  <2>5. EnclosingBlock(h, s) = o
    BY <1>4, <2>1, <2>3, EnclosingTwice
  <2>6. CASE t = s
    BY <2>3, <2>4, <2>6
  <2>7. CASE t # s
    <3>1. t < s
      BY <1>2, <1>4, <2>1, <2>7
    <3>2. Split(m_bitmap, Held, EnclosingBlock(h, s), s)
      BY <1>1, <2>1, <2>4, <3>1, Ascend
    <3> QED BY <2>5, <3>2 DEF Split
  <2> QED BY <2>6, <2>7
<1> QED BY <1>3, <1>4

\* The lists, the bits and the blocks describe one division of the chunk, at
\* every depth of both recursions (StandAloneBuddyManager.h:65-103).
THEOREM ChunkConsistentAlways == Spec => []ChunkConsistent
<1>1. IInv => ChunkConsistent
  <2> SUFFICES ASSUME IInv PROVE ChunkConsistent
    OBVIOUS
  <2>1. BitsMatchLists
    BY BitsMatch DEF BitsMatchLists, Free, block_is_free, Used, Held
  <2> QED BY <2>1, Tiled DEF ChunkConsistent, IInv
<1> QED BY <1>1, IInvInvariant, PTL

\* free reports the chunk free exactly when no client has a block of it: it
\* merges to the top then, and only then.
THEOREM FreeTellsReclaimAlways == Spec => FreeTellsReclaim
<1>1. ASSUME IInv, FreeEnds PROVE reclaim' <=> allocated = {}
  <2>1. /\ szc \in SizeClass /\ pc = "free" /\ reclaim' = (szc = TopClass)
        /\ Tree(m_bitmap, Held) /\ InHand = {<<ptr, szc>>} /\ <<ptr, szc>> \in Held
        /\ <<ptr, szc>> \notin allocated
        /\ szc # TopClass => Used(m_bitmap, get_buddy(ptr, szc), szc)
    BY <1>1 DEF FreeEnds, IInv, TypeOK, InHand, Held, Merges, Free, block_is_free, Used, Buddy
  <2>2. ptr \in OffsetsOf(szc)
    BY <2>1 DEF Tree
  <2>3. ASSUME szc = TopClass, NEW b \in allocated PROVE FALSE
    <3> DEFINE h == b[1]
               t == b[2]
    <3>1. b = <<h, t>> /\ t \in SizeClass /\ h \in OffsetsOf(t) /\ <<h, t>> \in Held
      BY <1>1, <2>3, BlocksFacts DEF Held
    <3>2. ptr = 0 /\ EnclosingBlock(h, TopClass) = 0 /\ TopClass \in SizeClass
      BY <2>2, <2>3, <3>1, TopBlock, EnclosesItself
    <3>3. CASE t = TopClass
      <4>1. h = 0
        BY <3>1, <3>3, TopBlock
      <4> QED BY <2>1, <2>3, <3>1, <3>2, <3>3, <4>1
    <3>4. CASE t # TopClass
      <4>1. t < TopClass
        BY <3>1, <3>4, Neighbours
      <4>2. Used(m_bitmap, h, t)
        BY <2>1, <3>1 DEF Tree
      <4>3. Split(m_bitmap, Held, 0, TopClass)
        BY <2>1, <3>1, <3>2, <4>1, <4>2, Ascend
      <4> QED BY <2>1, <2>3, <3>2, <4>3 DEF Split
    <3> QED BY <3>3, <3>4
  <2>4. ASSUME szc # TopClass, allocated = {} PROVE FALSE
    <3> DEFINE b == get_buddy(ptr, szc)
    <3>1. b \in OffsetsOf(szc) /\ b # ptr /\ Used(m_bitmap, b, szc)
      BY <2>1, <2>2, <2>4, BuddyFacts
    <3>2. PICK t \in SizeClass : \E h \in OffsetsOf(t) :
            t <= szc /\ <<h, t>> \in Held /\ EnclosingBlock(h, szc) = b
      BY <2>1, <3>1, UsedHasLeaf
    <3>3. PICK h \in OffsetsOf(t) : <<h, t>> \in Held /\ EnclosingBlock(h, szc) = b
      BY <3>2
    <3>4. h = ptr /\ t = szc
      BY <2>1, <2>4, <3>3 DEF Held
    <3> QED BY <2>2, <3>1, <3>3, <3>4, EnclosesItself
  <2> QED BY <2>1, <2>3, <2>4
<1>2. IInv /\ [Next]_vars => [(pc = "free" /\ pc' = "idle") => (reclaim' <=> allocated = {})]_vars
  <2> SUFFICES ASSUME IInv, Next, pc = "free", pc' = "idle" PROVE reclaim' <=> allocated = {}
    OBVIOUS
  <2>1. FreeEnds
    BY DEF Next, Recursion, CallAlloc, CallFree, AllocPops, AllocGoesUp, AllocFails, AllocSplits,
           AllocReturns, FreeMerges
  <2> QED BY <1>1, <2>1
<1> QED BY <1>2, IInvInvariant, PTL DEF Spec, FreeTellsReclaim

\* When alloc returns nullptr, clients' blocks are in every aligned range of
\* the size: merging leaves no free range that the lists do not show.
THEOREM FailsOnlyWhenFullAlways == Spec => FailsOnlyWhenFull
<1>1. ASSUME IInv, AllocFails, NEW o \in OffsetsOf(want)
      PROVE  \E b \in allocated : CellsOf(o, want) \cap CellsOf(b[1], b[2]) # {}
  <2> SUFFICES ASSUME \A b \in allocated : CellsOf(o, want) \cap CellsOf(b[1], b[2]) = {}
               PROVE  FALSE
    OBVIOUS
  <2>1. /\ pc = "alloc" /\ want \in SizeClass /\ szc = TopClass /\ Tree(m_bitmap, Held)
        /\ \A u \in want..(szc - 1) : m_freelist[u] = <<>>
        /\ m_freelist[szc] = <<>>
    BY <1>1 DEF AllocFails, IInv, TypeOK, PassedEmpty
  <2>2. Held = allocated
    BY <2>1 DEF Held, InHand
  <2>3. ASSUME NEW t \in SizeClass, NEW x \in OffsetsOf(t), <<x, t>> \in Held
        PROVE  /\ t <= want => EnclosingBlock(x, want) # o
               /\ want <= t => EnclosingBlock(o, t) # x
    <3> DEFINE b == <<x, t>>
    <3>1. b \in allocated /\ b[1] = x /\ b[2] = t
      BY <2>2, <2>3
    <3>2. CellsOf(o, want) \cap CellsOf(x, t) = {}
      BY <3>1
    <3>3. /\ x \in CellsOf(x, t) /\ x \in Cell
          /\ EnclosingBlock(o, t) = x /\ o \in Cell => o \in CellsOf(x, t)
      BY CellsFacts
    <3>4. /\ o \in CellsOf(o, want) /\ o \in Cell
          /\ EnclosingBlock(x, want) = o => x \in CellsOf(o, want)
      BY <2>1, <3>3, CellsFacts
    <3> QED BY <3>2, <3>3, <3>4
  <2>4. PICK l \in SizeClass : want <= l /\ Linked(m_bitmap, Held, EnclosingBlock(o, l), l)
    BY <2>1, <2>3, FreeFound
  <2>5. EnclosingBlock(o, l) \in OffsetsOf(l)
    BY <2>1, CellFacts, EnclosesItself, EnclosingFacts
  <2>6. EnclosingBlock(o, l) \in Range(m_freelist[l])
    BY <1>1, <2>4, <2>5 DEF IInv, ListsFree
  <2>7. l \in want..(szc - 1) \/ l = szc
    BY <2>1, <2>4, Neighbours
  <2>8. m_freelist[l] = <<>>
    BY <2>1, <2>7
  <2> QED BY <2>6, <2>8, EmptyFacts
<1>2. IInv /\ [Next]_vars =>
        [AllocFails => \A offset \in OffsetsOf(want) :
           \E b \in allocated : CellsOf(offset, want) \cap CellsOf(b[1], b[2]) # {}]_vars
  BY <1>1
<1> QED BY <1>2, IInvInvariant, PTL DEF Spec, FailsOnlyWhenFull
=============================================================================
