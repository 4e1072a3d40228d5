----------------------- MODULE FreeListAtomicProofs -----------------------
(***************************************************************************)
(* Proofs that the lock-free list keeps its chain, gives every node to one *)
(* holder and implements the abstract stack, for any number of threads and *)
(* nodes.                                                                  *)
(***************************************************************************)
EXTENDS FreeListAtomic, TLAPS

-----------------------------------------------------------------------------
(* Sequences and chains *)

\* What prepending a node to a sequence gives, element by element.
LEMMA ConsFacts ==
  ASSUME NEW S, NEW s \in Seq(S), NEW x \in S
  PROVE  /\ <<x>> \o s \in Seq(S)
         /\ Len(<<x>> \o s) = Len(s) + 1
         /\ (<<x>> \o s)[1] = x
         /\ \A i \in 1..Len(s) : (<<x>> \o s)[i + 1] = s[i]
         /\ \A i \in 2..(Len(s) + 1) : (<<x>> \o s)[i] = s[i - 1]
  OBVIOUS

\* What dropping the first node of a sequence leaves, element by element.
LEMMA TailFacts ==
  ASSUME NEW S, NEW s \in Seq(S), s # <<>>
  PROVE  /\ Tail(s) \in Seq(S)
         /\ Len(s) \in Nat \ {0}
         /\ Len(Tail(s)) = Len(s) - 1
         /\ Head(s) = s[1]
         /\ Head(s) \in S
         /\ \A i \in 1..(Len(s) - 1) : Tail(s)[i] = s[i + 1]
  OBVIOUS

\* The elements of a sequence, by position.
LEMMA RangeFacts ==
  ASSUME NEW S, NEW s \in Seq(S)
  PROVE  /\ Range(s) = {s[i] : i \in 1..Len(s)}
         /\ Range(s) \subseteq S
  BY DEF Range

\* A node linked in front of a chain lengthens the chain by that node.
LEMMA ChainedCons ==
  ASSUME NEW link, NEW first, NEW s \in Seq(Node), NEW n \in Node,
         Chained(link, first, s), link[n] = first
  PROVE  Chained(link, n, <<n>> \o s)
<1> DEFINE c == <<n>> \o s
<1>1. /\ c \in Seq(Node) /\ Len(c) = Len(s) + 1 /\ c[1] = n
      /\ \A i \in 2..(Len(s) + 1) : c[i] = s[i - 1]
  BY ConsFacts
<1>2. Len(s) \in Nat
  OBVIOUS
<1> HIDE DEF c
<1>3. n = NodeAt(c, 1)
  BY <1>1, <1>2 DEF NodeAt
<1>4. ASSUME NEW i \in 1..Len(c) PROVE link[c[i]] = NodeAt(c, i + 1)
  <2>1. CASE i = 1
    <3>1. link[c[i]] = NodeAt(s, 1)
      BY <2>1, <1>1 DEF Chained
    <3>2. NodeAt(c, 2) = NodeAt(s, 1)
      BY <1>1, <1>2 DEF NodeAt
    <3> QED BY <3>1, <3>2, <2>1
  <2>2. CASE i # 1
    <3>1. i - 1 \in 1..Len(s) /\ c[i] = s[i - 1]
      BY <2>2, <1>1, <1>2
    <3>2. link[s[i - 1]] = NodeAt(s, (i - 1) + 1)
      BY <3>1 DEF Chained
    <3>3. NodeAt(c, i + 1) = NodeAt(s, i)
      BY <3>1, <1>1, <1>2 DEF NodeAt
    <3> QED BY <3>1, <3>2, <3>3
  <2> QED BY <2>1, <2>2
<1> QED BY <1>3, <1>4 DEF Chained, c

\* The link of a chain's first node heads the rest of the chain, and it is
\* null exactly when that node was the last.
LEMMA ChainedTail ==
  ASSUME NEW link, NEW first, NEW s \in Seq(Node), s # <<>>,
         Chained(link, first, s)
  PROVE  /\ first = Head(s)
         /\ Chained(link, link[first], Tail(s))
         /\ link[first] = Null <=> Tail(s) = <<>>
<1> DEFINE t == Tail(s)
<1>1. /\ t \in Seq(Node) /\ Len(s) \in Nat \ {0} /\ Len(t) = Len(s) - 1
      /\ Head(s) = s[1]
      /\ \A i \in 1..(Len(s) - 1) : t[i] = s[i + 1]
  BY TailFacts
<1>2. t = <<>> <=> Len(t) = 0
  BY <1>1
<1> HIDE DEF t
<1>3. first = Head(s)
  BY <1>1 DEF Chained, NodeAt
<1>4. link[first] = NodeAt(s, 2)
  BY <1>1, <1>3 DEF Chained
<1>5. NodeAt(s, 2) = NodeAt(t, 1)
  BY <1>1 DEF NodeAt
<1>6. ASSUME NEW i \in 1..Len(t) PROVE link[t[i]] = NodeAt(t, i + 1)
  <2>1. i + 1 \in 1..Len(s) /\ t[i] = s[i + 1]
    BY <1>1
  <2>2. link[s[i + 1]] = NodeAt(s, (i + 1) + 1)
    BY <2>1 DEF Chained
  <2>3. NodeAt(s, i + 2) = NodeAt(t, i + 1)
    BY <1>1, <2>1 DEF NodeAt
  <2> QED BY <2>1, <2>2, <2>3
<1>7. link[first] = Null <=> t = <<>>
  <2>1. CASE t = <<>>
    BY <2>1, <1>2, <1>4, <1>5 DEF NodeAt
  <2>2. CASE t # <<>>
    <3>1. 1 \in 1..Len(t) /\ t[1] \in Node
      BY <2>2, <1>1, <1>2
    <3> QED BY <3>1, <2>2, <1>4, <1>5, NodeAssumption DEF NodeAt
  <2> QED BY <2>1, <2>2
<1> QED BY <1>3, <1>4, <1>5, <1>6, <1>7 DEF Chained, t

\* Only the links of its own nodes matter to a chain.
LEMMA ChainedFrame ==
  ASSUME NEW link, NEW link2, NEW first, NEW s \in Seq(Node),
         Chained(link, first, s),
         \A n \in Range(s) : link2[n] = link[n]
  PROVE  Chained(link2, first, s)
<1>1. \A i \in 1..Len(s) : s[i] \in Range(s)
  BY RangeFacts
<1> QED BY <1>1 DEF Chained
\* Prepending a new node adds it to the elements and keeps them distinct.
LEMMA DistinctCons ==
  ASSUME NEW S, NEW s \in Seq(S), NEW x \in S
  PROVE  /\ Range(<<x>> \o s) = {x} \cup Range(s)
         /\ Distinct(s) /\ x \notin Range(s) => Distinct(<<x>> \o s)
<1> DEFINE c == <<x>> \o s
<1>1. /\ c \in Seq(S) /\ Len(c) = Len(s) + 1 /\ c[1] = x
      /\ \A i \in 1..Len(s) : c[i + 1] = s[i]
      /\ \A i \in 2..(Len(s) + 1) : c[i] = s[i - 1]
  BY ConsFacts
<1> HIDE DEF c
<1>2. Len(s) \in Nat
  OBVIOUS
<1>3. /\ Range(s) = {s[i] : i \in 1..Len(s)}
      /\ Range(c) = {c[i] : i \in 1..Len(c)}
  BY <1>1, RangeFacts
<1>4. Range(c) \subseteq {x} \cup Range(s)
  <2> SUFFICES ASSUME NEW i \in 1..Len(c) PROVE c[i] \in {x} \cup Range(s)
    BY <1>3
  <2>1. CASE i = 1
    BY <2>1, <1>1
  <2>2. CASE i # 1
    <3>1. i \in 2..(Len(s) + 1) /\ i - 1 \in 1..Len(s)
      BY <2>2, <1>1, <1>2
    <3> QED BY <3>1, <1>1, <1>3
  <2> QED BY <2>1, <2>2
<1>5. {x} \cup Range(s) \subseteq Range(c)
  <2>1. 1 \in 1..Len(c)
    BY <1>1, <1>2
  <2>2. ASSUME NEW i \in 1..Len(s) PROVE s[i] \in Range(c)
    <3>1. i + 1 \in 1..Len(c)
      BY <1>1, <1>2
    <3> QED BY <3>1, <1>1, <1>3
  <2> QED BY <2>1, <2>2, <1>1, <1>3
<1>6. ASSUME Distinct(s), x \notin Range(s) PROVE Distinct(c)
  <2> SUFFICES ASSUME NEW i \in 1..Len(c), NEW j \in 1..Len(c), c[i] = c[j]
               PROVE  i = j
    BY DEF Distinct
  <2>1. ASSUME NEW k \in 1..Len(c), k # 1
        PROVE  k - 1 \in 1..Len(s) /\ c[k] = s[k - 1] /\ c[k] # x
    <3>1. k - 1 \in 1..Len(s) /\ k \in 2..(Len(s) + 1)
      BY <2>1, <1>1, <1>2
    <3> QED BY <3>1, <1>1, <1>3, <1>6
  <2>2. CASE i = 1 \/ j = 1
    BY <2>1, <2>2, <1>1
  <2>3. CASE i # 1 /\ j # 1
    <3>1. i - 1 = j - 1
      BY <2>1, <2>3, <1>6 DEF Distinct
    <3> QED BY <3>1, <1>1, <1>2
  <2> QED BY <2>2, <2>3
<1> QED BY <1>4, <1>5, <1>6 DEF c

\* Taking the first of distinct nodes away leaves exactly the others.
LEMMA DistinctTail ==
  ASSUME NEW S, NEW s \in Seq(S), s # <<>>, Distinct(s)
  PROVE  /\ Head(s) \in Range(s)
         /\ Range(Tail(s)) = Range(s) \ {Head(s)}
         /\ Distinct(Tail(s))
<1> DEFINE t == Tail(s)
<1>1. /\ t \in Seq(S) /\ Len(s) \in Nat \ {0} /\ Len(t) = Len(s) - 1
      /\ Head(s) = s[1]
      /\ \A i \in 1..(Len(s) - 1) : t[i] = s[i + 1]
  BY TailFacts
<1> HIDE DEF t
<1>2. /\ Range(s) = {s[i] : i \in 1..Len(s)}
      /\ Range(t) = {t[i] : i \in 1..Len(t)}
  BY <1>1, RangeFacts
<1>3. 1 \in 1..Len(s)
  BY <1>1
<1>4. ASSUME NEW i \in 1..Len(t)
      PROVE  i + 1 \in 1..Len(s) /\ t[i] = s[i + 1] /\ s[i + 1] # s[1]
  <2>1. i + 1 \in 1..Len(s) /\ i + 1 # 1
    BY <1>1
  <2> QED BY <2>1, <1>1, <1>3 DEF Distinct
<1>5. Range(t) \subseteq Range(s) \ {s[1]}
  BY <1>2, <1>4
<1>6. ASSUME NEW i \in 1..Len(s), s[i] # s[1] PROVE s[i] \in Range(t)
  <2>1. i - 1 \in 1..Len(t) /\ t[i - 1] = s[(i - 1) + 1]
    BY <1>6, <1>1
  <2> QED BY <2>1, <1>2
<1>7. Range(t) = Range(s) \ {s[1]}
  BY <1>2, <1>5, <1>6
<1>8. Distinct(t)
  <2> SUFFICES ASSUME NEW i \in 1..Len(t), NEW j \in 1..Len(t), t[i] = t[j]
               PROVE  i = j
    BY DEF Distinct
  <2>1. i + 1 = j + 1
    BY <1>4 DEF Distinct
  <2> QED BY <2>1, <1>1
<1> QED BY <1>1, <1>2, <1>3, <1>7, <1>8 DEF t
-----------------------------------------------------------------------------
(* The inductive invariant *)

\* ListIntact and OnePlace are what the system needs; the other conjuncts say
\* what each thread knows between two of its accesses, which is what makes
\* the compare-and-swap steps preserve them.
IInv ==
  /\ TypeOK
  /\ InOwnCall
  /\ PushLinked
  /\ PopStable
  /\ ListIntact
  /\ BatchIntact
  /\ OnePlace

\* The list starts empty, with every thread outside its calls.
LEMMA InitIInv == Init => IInv
<1> SUFFICES ASSUME Init PROVE IInv
  OBVIOUS
<1> USE DEF Init, ListInit
<1>1. TypeOK
  BY DEF TypeOK, NodeOrNull, Labels
<1>2. InOwnCall /\ PushLinked /\ PopStable
  BY DEF InOwnCall, PushLinked, PopStable, Proc
<1>3. Range(<<>>) = {}
  BY DEF Range
<1>4. ListIntact /\ BatchIntact
  BY DEF ListIntact, BatchIntact, Chained, NodeAt
<1>5. OnePlace
  BY <1>3, NodeAssumption DEF OnePlace, HeldBy, Distinct
<1> QED BY <1>1, <1>2, <1>4, <1>5 DEF IInv

\* The thread whose swap removes nodes is alone in being between a pop's load
\* and its swap.
LEMMA OneConsumer ==
  ASSUME NEW p \in Poppers \cup Drainers, NEW q \in Poppers
  PROVE  q = p
  BY ConsumerAssumption

\* What holds when a push is about to link or to insert its node: the node is
\* on no list.
LEMMA PushedNodeIsPrivate ==
  ASSUME IInv, NEW p \in Proc, pc[p] \in {"push_load", "push_link", "push_cas"}
  PROVE  /\ arg[p] \in Node
         /\ arg[p] \notin Range(content)
         /\ \A q \in Proc : arg[p] \notin Range(batch[q])
         /\ \A q \in Proc \ {p} : arg[p] # arg[q]
<1>1. arg[p] \in Node
  BY DEF IInv, TypeOK, PushLinked, NodeOrNull
<1>2. arg[p] \in HeldBy(p)
  BY <1>1, NodeAssumption DEF HeldBy
<1>3. arg[p] \notin Range(content) /\ arg[p] \notin Range(batch[p])
  BY <1>2 DEF IInv, OnePlace
<1>4. ASSUME NEW q \in Proc \ {p} PROVE arg[p] \notin Range(batch[q]) /\ arg[p] # arg[q]
  <2>1. arg[p] \notin HeldBy(q)
    BY <1>2 DEF IInv, OnePlace
  <2> QED BY <2>1, <1>1, NodeAssumption DEF HeldBy
<1> QED BY <1>1, <1>3, <1>4

\* What a successful pop swap removes: the first node of the list.
LEMMA PopSwapFacts ==
  ASSUME IInv, NEW p \in Proc, PopSwap(p)
  PROVE  /\ p \in Poppers
         /\ content # <<>>
         /\ hd[p] = Head(content)
         /\ Chained(next, m_head', Tail(content))
<1> USE DEF IInv
<1>1. p \in Poppers /\ hd[p] \in Range(content) /\ nx[p] = next[hd[p]]
  BY DEF PopSwap, InOwnCall, PopStable
<1>2. content \in Seq(Node) /\ content # <<>>
  BY <1>1 DEF TypeOK, Range
<1>3. m_head = hd[p] /\ m_head' = next[hd[p]]
  BY <1>1 DEF PopSwap, CasSucceeds
<1>4. Chained(next, m_head, content)
  BY DEF ListIntact
<1> QED BY <1>1, <1>2, <1>3, <1>4, ChainedTail

\* What a successful popAll swap detaches: the whole list, which is not empty.
LEMMA PopAllSwapFacts ==
  ASSUME IInv, NEW p \in Proc, PopAllSwap(p)
  PROVE  /\ p \in Drainers
         /\ content # <<>>
         /\ hd[p] = m_head
         /\ batch[p] = <<>>
<1>1. p \in Drainers /\ hd[p] # Null /\ hd[p] = m_head
  BY NodeAssumption DEF IInv, PopAllSwap, InOwnCall, CasSucceeds, TypeOK
<1>2. content # <<>>
  BY <1>1 DEF IInv, ListIntact, Chained, NodeAt
<1>3. batch[p] = <<>>
  BY DEF IInv, BatchIntact, PopAllSwap
<1> QED BY <1>1, <1>2, <1>3

\* What one step of the walk visits: the first node of the detached chain.
LEMMA WalkFacts ==
  ASSUME IInv, NEW p \in Proc, WalkLinks(p)
  PROVE  /\ p \in Drainers
         /\ batch[p] \in Seq(Node) /\ batch[p] # <<>>
         /\ hd[p] = Head(batch[p])
         /\ hd[p] \in Node
         /\ Chained(next, next[hd[p]], Tail(batch[p]))
         /\ next[hd[p]] = Null <=> Tail(batch[p]) = <<>>
<1> USE DEF IInv
<1>1. p \in Drainers /\ batch[p] \in Seq(Node) /\ batch[p] # <<>>
  BY DEF WalkLinks, InOwnCall, BatchIntact, TypeOK
<1>2. Chained(next, hd[p], batch[p])
  BY DEF WalkLinks, BatchIntact
<1>3. Head(batch[p]) \in Node
  BY <1>1, TailFacts
<1> QED BY <1>1, <1>2, <1>3, ChainedTail
-----------------------------------------------------------------------------
(* Every step preserves the invariant, one conjunct at a time *)

\* Every shared access keeps the types of the words and of the locals.
LEMMA TypeStep == IInv /\ [Next]_vars => TypeOK'
<1> SUFFICES ASSUME IInv, [Next]_vars PROVE TypeOK'
  OBVIOUS
<1> USE DEF TypeOK, NodeOrNull, Labels, Goto, CasSucceeds, CasFails
<1>0. TypeOK
  BY DEF IInv
<1>1. ASSUME NEW p \in Proc, NEW n \in Node, CallPush(p, n) PROVE TypeOK'
  BY <1>0, <1>1 DEF CallPush
<1>2. ASSUME NEW p \in Proc, PushLoad(p) PROVE TypeOK'
  BY <1>0, <1>2 DEF PushLoad
<1>3. ASSUME NEW p \in Proc, PushLink(p) PROVE TypeOK'
  BY <1>0, <1>3 DEF PushLink
<1>4. ASSUME NEW p \in Proc, PushSwap(p) PROVE TypeOK'
  <2>1. arg[p] \in Node
    BY <1>4, PushedNodeIsPrivate DEF PushSwap
  <2>2. <<arg[p]>> \o content \in Seq(Node)
    BY <1>0, <2>1, ConsFacts
  <2> QED BY <1>0, <1>4, <2>1, <2>2 DEF PushSwap
<1>5. ASSUME NEW p \in Proc, PushRetry(p) PROVE TypeOK'
  BY <1>0, <1>5 DEF PushRetry
<1>6. ASSUME NEW p \in Proc, CallPop(p) PROVE TypeOK'
  BY <1>0, <1>6 DEF CallPop
<1>7. ASSUME NEW p \in Proc, PopLoad(p) PROVE TypeOK'
  BY <1>0, <1>7 DEF PopLoad
<1>8. ASSUME NEW p \in Proc, PopNext(p) PROVE TypeOK'
  <2>1. hd[p] \in Node
    BY <1>0, <1>8, RangeFacts DEF IInv, InOwnCall, PopStable, PopNext
  <2> QED BY <1>0, <1>8, <2>1 DEF PopNext
<1>9. ASSUME NEW p \in Proc, PopSwap(p) PROVE TypeOK'
  <2>1. content # <<>> /\ hd[p] = Head(content)
    BY <1>9, PopSwapFacts
  <2>2. Tail(content) \in Seq(Node) /\ hd[p] \in Node
    BY <1>0, <2>1, TailFacts
  <2> QED BY <1>0, <1>9, <2>2 DEF PopSwap
<1>10. ASSUME NEW p \in Proc, PopRetry(p) PROVE TypeOK'
  BY <1>0, <1>10 DEF PopRetry
<1>11. ASSUME NEW p \in Proc, CallPopAll(p) PROVE TypeOK'
  BY <1>0, <1>11 DEF CallPopAll
<1>12. ASSUME NEW p \in Proc, PopAllLoad(p) PROVE TypeOK'
  BY <1>0, <1>12 DEF PopAllLoad
<1>13. ASSUME NEW p \in Proc, PopAllSwap(p) PROVE TypeOK'
  BY <1>0, <1>13 DEF PopAllSwap
<1>14. ASSUME NEW p \in Proc, PopAllRetry(p) PROVE TypeOK'
  BY <1>0, <1>14 DEF PopAllRetry
<1>15. ASSUME NEW p \in Proc, Walk(p) PROVE TypeOK'
  <2>1. batch[p] \in Seq(Node) /\ batch[p] # <<>> /\ hd[p] \in Node
    BY <1>15, WalkFacts DEF Walk
  <2>2. Tail(batch[p]) \in Seq(Node)
    BY <2>1, TailFacts
  <2>3. next[hd[p]] \in NodeOrNull
    BY <1>0, <2>1
  <2> QED BY <1>0, <1>15, <2>1, <2>2, <2>3 DEF Walk, WalkLinks
<1>16. CASE UNCHANGED vars
  BY <1>0, <1>16 DEF vars
<1> QED
  BY <1>1, <1>2, <1>3, <1>4, <1>5, <1>6, <1>7, <1>8, <1>9, <1>10, <1>11,
     <1>12, <1>13, <1>14, <1>15, <1>16
  DEF Next, Step, Push, Pop, PopAll

\* No access moves a thread into a call its role does not make.
LEMMA OwnCallStep == IInv /\ [Next]_vars => InOwnCall'
<1> SUFFICES ASSUME IInv, [Next]_vars PROVE InOwnCall'
  OBVIOUS
<1>0. InOwnCall /\ TypeOK
  BY DEF IInv
<1> USE DEF InOwnCall, TypeOK, Goto
<1>1. ASSUME NEW p \in Proc, NEW n \in Node, CallPush(p, n) PROVE InOwnCall'
  BY <1>0, <1>1 DEF CallPush
<1>2. ASSUME NEW p \in Proc, Push(p) PROVE InOwnCall'
  BY <1>0, <1>2 DEF Push, PushLoad, PushLink, PushSwap, PushRetry
<1>3. ASSUME NEW p \in Proc, CallPop(p) \/ Pop(p) PROVE InOwnCall'
  BY <1>0, <1>3 DEF CallPop, Pop, PopLoad, PopNext, PopSwap, PopRetry
<1>4. ASSUME NEW p \in Proc, CallPopAll(p) \/ PopAll(p) PROVE InOwnCall'
  BY <1>0, <1>4 DEF CallPopAll, PopAll, PopAllLoad, PopAllSwap, PopAllRetry
<1>5. ASSUME NEW p \in Proc, Walk(p) PROVE InOwnCall'
  BY <1>0, <1>5 DEF Walk, WalkLinks
<1>6. CASE UNCHANGED vars
  BY <1>0, <1>6 DEF vars
<1> QED BY <1>1, <1>2, <1>3, <1>4, <1>5, <1>6 DEF Next, Step

\* Between link and swap the new node's link is the head that was loaded.
LEMMA PushLinkedStep == IInv /\ [Next]_vars => PushLinked'
<1> SUFFICES ASSUME IInv, [Next]_vars PROVE PushLinked'
  OBVIOUS
<1>0. PushLinked /\ TypeOK
  BY DEF IInv
<1> USE DEF PushLinked, TypeOK, Goto
<1>1. ASSUME NEW p \in Proc, NEW n \in Node, CallPush(p, n) PROVE PushLinked'
  BY <1>0, <1>1, NodeAssumption DEF CallPush
<1>2. ASSUME NEW p \in Proc, PushLoad(p) PROVE PushLinked'
  BY <1>0, <1>2 DEF PushLoad
<1>3. ASSUME NEW p \in Proc, PushLink(p) PROVE PushLinked'
  <2>1. arg[p] \in Node /\ \A q \in Proc \ {p} : arg[p] # arg[q]
    BY <1>3, PushedNodeIsPrivate DEF PushLink
  <2> QED BY <1>0, <1>3, <2>1 DEF PushLink
<1>4. ASSUME NEW p \in Proc, PushSwap(p) PROVE PushLinked'
  BY <1>0, <1>4 DEF PushSwap
<1>5. ASSUME NEW p \in Proc, PushRetry(p) PROVE PushLinked'
  BY <1>0, <1>5 DEF PushRetry
<1>6. ASSUME NEW p \in Proc, CallPop(p) \/ Pop(p) PROVE PushLinked'
  BY <1>0, <1>6 DEF CallPop, Pop, PopLoad, PopNext, PopSwap, PopRetry
<1>7. ASSUME NEW p \in Proc, CallPopAll(p) \/ PopAll(p) PROVE PushLinked'
  BY <1>0, <1>7 DEF CallPopAll, PopAll, PopAllLoad, PopAllSwap, PopAllRetry
<1>8. ASSUME NEW p \in Proc, Walk(p) PROVE PushLinked'
  BY <1>0, <1>8 DEF Walk, WalkLinks
<1>9. CASE UNCHANGED vars
  BY <1>0, <1>9 DEF vars
<1> QED BY <1>1, <1>2, <1>3, <1>4, <1>5, <1>6, <1>7, <1>8, <1>9 DEF Next, Step, Push

\* What the consumer read is still so: others only push (IList.h:217-229).
LEMMA PopStableStep == IInv /\ [Next]_vars => PopStable'
<1> SUFFICES ASSUME IInv, [Next]_vars, NEW p \in Poppers
             PROVE  /\ (pc[p] \in {"pop_next", "pop_cas"} => hd[p] \in Range(content))'
                    /\ (pc[p] = "pop_cas" => nx[p] = next[hd[p]])'
  BY DEF PopStable
<1>0. /\ TypeOK /\ ListIntact /\ p \in Proc
      /\ pc[p] \in {"pop_next", "pop_cas"} => hd[p] \in Range(content)
      /\ pc[p] = "pop_cas" => nx[p] = next[hd[p]]
  BY DEF IInv, PopStable, Proc
<1> DEFINE Goal == /\ (pc[p] \in {"pop_next", "pop_cas"} => hd[p] \in Range(content))'
                   /\ (pc[p] = "pop_cas" => nx[p] = next[hd[p]])'
<1> USE DEF TypeOK, Goto
<1>1. ASSUME NEW q \in Proc, NEW n \in Node, CallPush(q, n) PROVE Goal
  BY <1>0, <1>1 DEF CallPush
<1>2. ASSUME NEW q \in Proc, PushLoad(q) PROVE Goal
  BY <1>0, <1>2 DEF PushLoad
<1>3. ASSUME NEW q \in Proc, PushLink(q) PROVE Goal
  <2>1. arg[q] \notin Range(content)
    BY <1>3, PushedNodeIsPrivate DEF PushLink
  <2> QED BY <1>0, <1>3, <2>1, NodeAssumption, RangeFacts DEF PushLink
<1>4. ASSUME NEW q \in Proc, PushSwap(q) PROVE Goal
  <2>1. arg[q] \in Node
    BY <1>4, PushedNodeIsPrivate DEF PushSwap
  <2>2. Range(content') = {arg[q]} \cup Range(content)
    BY <1>0, <1>4, <2>1, DistinctCons DEF PushSwap
  <2> QED BY <1>0, <1>4, <2>2 DEF PushSwap
<1>5. ASSUME NEW q \in Proc, PushRetry(q) PROVE Goal
  BY <1>0, <1>5 DEF PushRetry
<1>6. ASSUME NEW q \in Proc, CallPop(q) PROVE Goal
  BY <1>0, <1>6 DEF CallPop
<1>7. ASSUME NEW q \in Proc, PopLoad(q) PROVE Goal
  <2>1. m_head # Null => m_head \in Range(content)
    <3> SUFFICES ASSUME m_head # Null PROVE m_head \in Range(content)
      OBVIOUS
    <3>1. m_head = content[1] /\ 1 \in 1..Len(content)
      BY <1>0 DEF ListIntact, Chained, NodeAt
    <3> QED BY <1>0, <3>1, RangeFacts
  <2> QED BY <1>0, <1>7, <2>1 DEF PopLoad
<1>8. ASSUME NEW q \in Proc, PopNext(q) PROVE Goal
  BY <1>0, <1>8 DEF PopNext
<1>9. ASSUME NEW q \in Proc, PopSwap(q) PROVE Goal
  <2>1. q = p
    BY <1>9, PopSwapFacts, OneConsumer
  <2> QED BY <1>0, <1>9, <2>1 DEF PopSwap
<1>10. ASSUME NEW q \in Proc, PopRetry(q) PROVE Goal
  BY <1>0, <1>10 DEF PopRetry
<1>11. ASSUME NEW q \in Proc, CallPopAll(q) PROVE Goal
  BY <1>0, <1>11 DEF CallPopAll
<1>12. ASSUME NEW q \in Proc, PopAll(q) \/ Walk(q) PROVE Goal
  <2>1. q = p
    BY <1>12, OneConsumer
    DEF IInv, InOwnCall, PopAll, PopAllLoad, PopAllSwap, PopAllRetry, Walk, WalkLinks
  <2> QED BY <1>0, <1>12, <2>1
    DEF PopAll, PopAllLoad, PopAllSwap, PopAllRetry, Walk, WalkLinks
<1>13. CASE UNCHANGED vars
  BY <1>0, <1>13 DEF vars
<1> QED
  BY <1>1, <1>2, <1>3, <1>4, <1>5, <1>6, <1>7, <1>8, <1>9, <1>10, <1>11, <1>12, <1>13
  DEF Next, Step, Push, Pop

\* Every swap that succeeds leaves a chain from the new head.
LEMMA ListStep == IInv /\ [Next]_vars => ListIntact'
<1> SUFFICES ASSUME IInv, [Next]_vars PROVE ListIntact'
  OBVIOUS
<1>0. TypeOK /\ Chained(next, m_head, content)
  BY DEF IInv, ListIntact
<1>1. ASSUME UNCHANGED <<next, m_head, content>> PROVE ListIntact'
  BY <1>0, <1>1 DEF ListIntact
<1>2. ASSUME NEW p \in Proc, NEW n \in Node, CallPush(p, n) PROVE ListIntact'
  BY <1>1, <1>2 DEF CallPush
<1>3. ASSUME NEW p \in Proc, PushLink(p) PROVE ListIntact'
  <2>1. content \in Seq(Node) /\ next \in [Node -> NodeOrNull] /\ Range(content) \subseteq Node
    BY <1>0, RangeFacts DEF TypeOK
  <2>2. arg[p] \notin Range(content)
    BY <1>3, PushedNodeIsPrivate DEF PushLink
  <2>3. \A n \in Range(content) : next'[n] = next[n]
    BY <1>3, <2>1, <2>2 DEF PushLink
  <2>4. Chained(next', m_head, content)
    BY <1>0, <2>1, <2>3, ChainedFrame
  <2> QED BY <1>3, <2>4 DEF PushLink, ListIntact
<1>4. ASSUME NEW p \in Proc, PushSwap(p) PROVE ListIntact'
  <2>1. arg[p] \in Node /\ next[arg[p]] = m_head /\ content \in Seq(Node)
    BY <1>0, <1>4, PushedNodeIsPrivate
    DEF PushSwap, CasSucceeds, IInv, PushLinked, TypeOK
  <2>2. Chained(next, arg[p], <<arg[p]>> \o content)
    BY <1>0, <2>1, ChainedCons
  <2> QED BY <1>4, <2>2 DEF PushSwap, CasSucceeds, ListIntact
<1>5. ASSUME NEW p \in Proc, PushLoad(p) \/ PushRetry(p) PROVE ListIntact'
  BY <1>1, <1>5 DEF PushLoad, PushRetry, CasFails
<1>6. ASSUME NEW p \in Proc, PopSwap(p) PROVE ListIntact'
  BY <1>6, PopSwapFacts DEF PopSwap, ListIntact
<1>7. ASSUME NEW p \in Proc, CallPop(p) \/ PopLoad(p) \/ PopNext(p) \/ PopRetry(p)
      PROVE  ListIntact'
  BY <1>1, <1>7 DEF CallPop, PopLoad, PopNext, PopRetry, CasFails
<1>8. ASSUME NEW p \in Proc, PopAllSwap(p) PROVE ListIntact'
  BY <1>8 DEF PopAllSwap, CasSucceeds, ListIntact, Chained, NodeAt
<1>9. ASSUME NEW p \in Proc, CallPopAll(p) \/ PopAllLoad(p) \/ PopAllRetry(p)
      PROVE  ListIntact'
  BY <1>1, <1>9 DEF CallPopAll, PopAllLoad, PopAllRetry, CasFails
<1>10. ASSUME NEW p \in Proc, Walk(p) PROVE ListIntact'
  BY <1>1, <1>10 DEF Walk, WalkLinks
<1>11. CASE UNCHANGED vars
  BY <1>1, <1>11 DEF vars
<1> QED
  BY <1>2, <1>3, <1>4, <1>5, <1>6, <1>7, <1>8, <1>9, <1>10, <1>11
  DEF Next, Step, Push, Pop, PopAll

\* A detached chain is the business of its drainer alone.
LEMMA BatchStep == IInv /\ [Next]_vars => BatchIntact'
<1> DEFINE BatchOf(p) == IF pc[p] = "walk"
                         THEN batch[p] # <<>> /\ Chained(next, hd[p], batch[p])
                         ELSE batch[p] = <<>>
<1> SUFFICES ASSUME IInv, [Next]_vars, NEW p \in Proc PROVE BatchOf(p)'
  BY DEF BatchIntact
<1>0. TypeOK /\ BatchOf(p)
  BY DEF IInv, BatchIntact
<1> USE DEF TypeOK, Goto
<1>1. ASSUME UNCHANGED <<next, batch>>, pc'[p] = pc[p] /\ hd'[p] = hd[p]
      PROVE  BatchOf(p)'
  BY <1>0, <1>1
<1>2. ASSUME UNCHANGED <<next, batch>>, pc[p] # "walk" /\ pc'[p] # "walk"
      PROVE  BatchOf(p)'
  BY <1>0, <1>2
<1>3. ASSUME NEW q \in Proc, NEW n \in Node, CallPush(q, n) PROVE BatchOf(p)'
  BY <1>0, <1>1, <1>2, <1>3 DEF CallPush
<1>4. ASSUME NEW q \in Proc, PushLink(q) PROVE BatchOf(p)'
  <2>1. batch[p] \in Seq(Node) /\ Range(batch[p]) \subseteq Node /\ arg[q] \notin Range(batch[p])
    BY <1>0, <1>4, PushedNodeIsPrivate, RangeFacts DEF PushLink
  <2>2. \A n \in Range(batch[p]) : next'[n] = next[n]
    BY <1>0, <1>4, <2>1 DEF PushLink
  <2>3. CASE pc[p] = "walk"
    <3>1. Chained(next', hd[p], batch[p])
      BY <1>0, <2>1, <2>2, <2>3, ChainedFrame
    <3> QED BY <1>0, <1>4, <2>3, <3>1 DEF PushLink
  <2>4. CASE pc[p] # "walk"
    BY <1>0, <1>4, <2>4 DEF PushLink
  <2> QED BY <2>3, <2>4
<1>5. ASSUME NEW q \in Proc, PushLoad(q) \/ PushSwap(q) \/ PushRetry(q) PROVE BatchOf(p)'
  BY <1>0, <1>1, <1>2, <1>5 DEF PushLoad, PushSwap, PushRetry
<1>6. ASSUME NEW q \in Proc, CallPop(q) \/ Pop(q) PROVE BatchOf(p)'
  BY <1>0, <1>1, <1>2, <1>6 DEF CallPop, Pop, PopLoad, PopNext, PopSwap, PopRetry
<1>7. ASSUME NEW q \in Proc, PopAllSwap(q) PROVE BatchOf(p)'
  <2>1. content # <<>> /\ hd[q] = m_head /\ Chained(next, m_head, content)
    BY <1>7, PopAllSwapFacts DEF IInv, ListIntact
  <2>2. CASE p = q
    BY <1>0, <1>7, <2>1, <2>2 DEF PopAllSwap
  <2>3. CASE p # q
    BY <1>0, <1>7, <2>3 DEF PopAllSwap
  <2> QED BY <2>2, <2>3
<1>8. ASSUME NEW q \in Proc, CallPopAll(q) \/ PopAllLoad(q) \/ PopAllRetry(q)
      PROVE  BatchOf(p)'
  BY <1>0, <1>1, <1>2, <1>8 DEF CallPopAll, PopAllLoad, PopAllRetry
<1>9. ASSUME NEW q \in Proc, Walk(q) PROVE BatchOf(p)'
  <2>1. /\ Chained(next, next[hd[q]], Tail(batch[q]))
        /\ next[hd[q]] = Null <=> Tail(batch[q]) = <<>>
    BY <1>9, WalkFacts DEF Walk
  <2>2. CASE p = q
    BY <1>0, <1>9, <2>1, <2>2 DEF Walk, WalkLinks
  <2>3. CASE p # q
    BY <1>0, <1>9, <2>3 DEF Walk, WalkLinks
  <2> QED BY <2>2, <2>3
<1>10. CASE UNCHANGED vars
  BY <1>0, <1>1, <1>10 DEF vars
<1> QED
  BY <1>3, <1>4, <1>5, <1>6, <1>7, <1>8, <1>9, <1>10 DEF Next, Step, Push, PopAll

\* A node moves between two places at a time: what each thread holds and what
\* is on the list either stays, or one gains exactly what the other loses.
LEMMA OnePlaceStep == IInv /\ [Next]_vars => OnePlace'
<1> SUFFICES ASSUME IInv, [Next]_vars PROVE OnePlace'
  OBVIOUS
<1>0. OnePlace /\ TypeOK
  BY DEF IInv
<1>1. ASSUME UNCHANGED <<content, owned, arg, batch>> PROVE OnePlace'
  BY <1>0, <1>1 DEF OnePlace, HeldBy
<1>2. ASSUME NEW p \in Proc, NEW n \in Node, CallPush(p, n) PROVE OnePlace'
  <2>1. /\ n \in owned[p] /\ arg[p] = Null
        /\ owned' = [owned EXCEPT ![p] = @ \ {n}]
        /\ arg' = [arg EXCEPT ![p] = n]
        /\ UNCHANGED <<content, batch>>
    BY <1>0, <1>2 DEF CallPush, IInv, PushLinked
  <2>2. \A q \in Proc : HeldBy(q)' = HeldBy(q)
    BY <1>0, <2>1, NodeAssumption DEF HeldBy, TypeOK
  <2> QED BY <1>0, <2>1, <2>2 DEF OnePlace, TypeOK
<1>3. ASSUME NEW p \in Proc, PushSwap(p) PROVE OnePlace'
  <2>1. /\ arg[p] \in Node /\ arg[p] \notin Range(content)
        /\ arg[p] \in HeldBy(p)
    BY <1>3, NodeAssumption, PushedNodeIsPrivate DEF PushSwap, HeldBy
  <2>2. /\ content' = <<arg[p]>> \o content
        /\ arg' = [arg EXCEPT ![p] = Null]
        /\ UNCHANGED <<owned, batch>>
    BY <1>3 DEF PushSwap
  <2>3. Range(content') = {arg[p]} \cup Range(content) /\ Distinct(content')
    BY <1>0, <2>1, <2>2, DistinctCons DEF OnePlace, TypeOK
  <2>4. /\ HeldBy(p)' = HeldBy(p) \ {arg[p]}
        /\ \A q \in Proc \ {p} : HeldBy(q)' = HeldBy(q)
    BY <1>0, <2>1, <2>2 DEF HeldBy, OnePlace, TypeOK
  <2>5. \A q \in Proc : Null \notin owned[q] \cup Range(batch[q])
    BY <1>0, NodeAssumption, RangeFacts DEF TypeOK
  <2>6. ASSUME NEW q \in Proc
        PROVE  /\ (HeldBy(q) \cap Range(content))' = {}
               /\ \A r \in Proc \ {q} : (HeldBy(q) \cap HeldBy(r))' = {}
    BY <1>0, <2>1, <2>3, <2>4 DEF OnePlace
  <2>7. ASSUME NEW q \in Proc
        PROVE  /\ Distinct(batch[q])'
               /\ (Range(batch[q]) \cap owned[q] = {})'
               /\ (arg[q] \notin owned[q] \cup Range(batch[q]))'
    BY <1>0, <2>2, <2>5 DEF OnePlace, TypeOK
  <2> QED BY <2>3, <2>6, <2>7 DEF OnePlace
<1>4. ASSUME NEW p \in Proc, PushLoad(p) \/ PushLink(p) \/ PushRetry(p) PROVE OnePlace'
  BY <1>1, <1>4 DEF PushLoad, PushLink, PushRetry
<1>5. ASSUME NEW p \in Proc, PopSwap(p) PROVE OnePlace'
  <2>1. content # <<>> /\ hd[p] = Head(content)
    BY <1>5, PopSwapFacts
  <2>2. /\ content' = Tail(content)
        /\ owned' = [owned EXCEPT ![p] = @ \cup {hd[p]}]
        /\ UNCHANGED <<arg, batch>>
    BY <1>5 DEF PopSwap
  <2>3. /\ hd[p] \in Range(content)
        /\ Range(content') = Range(content) \ {hd[p]}
        /\ Distinct(content')
    BY <1>0, <2>1, <2>2, DistinctTail DEF OnePlace, TypeOK
  <2>4. /\ HeldBy(p)' = HeldBy(p) \cup {hd[p]}
        /\ \A q \in Proc \ {p} : HeldBy(q)' = HeldBy(q)
    BY <1>0, <2>2 DEF HeldBy, TypeOK
  <2>5. hd[p] \notin Range(batch[p]) /\ hd[p] # arg[p]
    BY <1>0, <2>3, NodeAssumption, RangeFacts DEF OnePlace, HeldBy, TypeOK
  <2>6. ASSUME NEW q \in Proc
        PROVE  /\ (HeldBy(q) \cap Range(content))' = {}
               /\ \A r \in Proc \ {q} : (HeldBy(q) \cap HeldBy(r))' = {}
    BY <1>0, <2>3, <2>4 DEF OnePlace
  <2>7. ASSUME NEW q \in Proc
        PROVE  /\ Distinct(batch[q])'
               /\ (Range(batch[q]) \cap owned[q] = {})'
               /\ (arg[q] \notin owned[q] \cup Range(batch[q]))'
    BY <1>0, <2>2, <2>5 DEF OnePlace, TypeOK
  <2> QED BY <2>3, <2>6, <2>7 DEF OnePlace
<1>6. ASSUME NEW p \in Proc, CallPop(p) \/ PopLoad(p) \/ PopNext(p) \/ PopRetry(p)
      PROVE  OnePlace'
  BY <1>1, <1>6 DEF CallPop, PopLoad, PopNext, PopRetry
<1>7. ASSUME NEW p \in Proc, PopAllSwap(p) PROVE OnePlace'
  <2>1. batch[p] = <<>>
    BY <1>7, PopAllSwapFacts
  <2>2. /\ batch' = [batch EXCEPT ![p] = content]
        /\ content' = <<>>
        /\ UNCHANGED <<owned, arg>>
    BY <1>7 DEF PopAllSwap
  <2>3. Range(<<>>) = {} /\ Distinct(<<>>)
    BY DEF Range, Distinct
  <2>4. /\ HeldBy(p)' = HeldBy(p) \cup Range(content)
        /\ \A q \in Proc \ {p} : HeldBy(q)' = HeldBy(q)
    BY <1>0, <2>1, <2>2, <2>3 DEF HeldBy, TypeOK
  <2>5. owned[p] \cap Range(content) = {} /\ arg[p] \notin Range(content)
    BY <1>0, NodeAssumption, RangeFacts DEF OnePlace, HeldBy, TypeOK
  <2>6. ASSUME NEW q \in Proc
        PROVE  /\ (HeldBy(q) \cap Range(content))' = {}
               /\ \A r \in Proc \ {q} : (HeldBy(q) \cap HeldBy(r))' = {}
    <3>1. Range(content') = {}
      BY <2>2, <2>3
    <3>2. \A r \in Proc \ {q} : (HeldBy(q) \cap HeldBy(r))' = {}
      BY <1>0, <2>4 DEF OnePlace
    <3> QED BY <3>1, <3>2
  <2>7. ASSUME NEW q \in Proc
        PROVE  /\ Distinct(batch[q])'
               /\ (Range(batch[q]) \cap owned[q] = {})'
               /\ (arg[q] \notin owned[q] \cup Range(batch[q]))'
    BY <1>0, <2>2, <2>5 DEF OnePlace, TypeOK
  <2> QED BY <2>2, <2>3, <2>6, <2>7 DEF OnePlace
<1>8. ASSUME NEW p \in Proc, CallPopAll(p) \/ PopAllLoad(p) \/ PopAllRetry(p)
      PROVE  OnePlace'
  BY <1>1, <1>8 DEF CallPopAll, PopAllLoad, PopAllRetry
<1>9. ASSUME NEW p \in Proc, Walk(p) PROVE OnePlace'
  <2>1. batch[p] \in Seq(Node) /\ batch[p] # <<>> /\ hd[p] = Head(batch[p])
    BY <1>9, WalkFacts DEF Walk
  <2>2. /\ batch' = [batch EXCEPT ![p] = Tail(@)]
        /\ owned' = [owned EXCEPT ![p] = @ \cup {hd[p]}]
        /\ UNCHANGED <<content, arg>>
    BY <1>9 DEF Walk, WalkLinks
  <2>3. /\ hd[p] \in Range(batch[p])
        /\ Range(Tail(batch[p])) = Range(batch[p]) \ {hd[p]}
        /\ Distinct(Tail(batch[p]))
    BY <1>0, <2>1, DistinctTail DEF OnePlace
  <2>4. \A q \in Proc : HeldBy(q)' = HeldBy(q)
    BY <1>0, <2>2, <2>3 DEF HeldBy, TypeOK
  <2>5. arg[p] # hd[p]
    BY <1>0, <2>3 DEF OnePlace
  <2> QED BY <1>0, <2>2, <2>3, <2>4, <2>5 DEF OnePlace, TypeOK
<1>10. CASE UNCHANGED vars
  BY <1>1, <1>10 DEF vars
<1> QED
  BY <1>2, <1>3, <1>4, <1>5, <1>6, <1>7, <1>8, <1>9, <1>10
  DEF Next, Step, Push, Pop, PopAll
-----------------------------------------------------------------------------
(* The theorems *)

\* All conjuncts together.
LEMMA IInvStep == IInv /\ [Next]_vars => IInv'
  BY TypeStep, OwnCallStep, PushLinkedStep, PopStableStep, ListStep, BatchStep,
     OnePlaceStep DEF IInv

\* The inductive invariant holds in every state of the lock-free list,
\* between any two shared accesses (IList.h:196-249).
THEOREM IInvInvariant == Spec => []IInv
  BY InitIInv, IInvStep, PTL DEF Spec

\* The code's variables always hold values of their types, the chain from
\* m_head is exactly the nodes pushed and not yet removed, and a detached chain
\* stays intact until its walker is through (IList.h:205-251).
THEOREM ChainsIntactAlways == Spec => []ChainsIntact
<1>1. IInv => ChainsIntact
  BY DEF IInv, ChainsIntact
<1> QED BY <1>1, IInvInvariant, PTL

\* No node is ever in two hands, or at once on the list and in a hand.
THEOREM OnePlaceAlways == Spec => []OnePlace
<1>1. IInv => OnePlace
  BY DEF IInv
<1> QED BY <1>1, IInvInvariant, PTL

\* What a popper read before its swap is still true at the swap.
THEOREM PopStableAlways == Spec => []PopStable
<1>1. IInv => PopStable
  BY DEF IInv
<1> QED BY <1>1, IInvInvariant, PTL

\* The empty list is the empty stack.
LEMMA InitRefines == Init => Abstract!AInit
  BY DEF Init, ListInit, Abstract!AInit

\* Each swap is the instant its call takes effect; every other access is
\* invisible to an observer of the abstract stack.
LEMMA StepRefines == IInv /\ [Next]_vars => [Abstract!ANext]_Abstract!avars
<1> SUFFICES ASSUME IInv, [Next]_vars PROVE [Abstract!ANext]_Abstract!avars
  OBVIOUS
<1> USE DEF Abstract!avars
<1>0. TypeOK
  BY DEF IInv
<1>1. ASSUME NEW p \in Proc, NEW n \in Node, CallPush(p, n)
      PROVE  Abstract!ANext
  <2>1. arg[p] = Null
    BY <1>1 DEF CallPush, IInv, PushLinked
  <2>2. Abstract!ACall(p, n)
    BY <1>1, <2>1 DEF CallPush, Abstract!ACall
  <2> QED BY <2>2 DEF Abstract!ANext
<1>2. ASSUME NEW p \in Proc, PushSwap(p) PROVE Abstract!ANext
  <2>1. arg[p] # Null
    BY <1>2, PushedNodeIsPrivate, NodeAssumption DEF PushSwap
  <2>2. Abstract!APush(p)
    BY <1>2, <2>1 DEF PushSwap, Abstract!APush
  <2> QED BY <2>2 DEF Abstract!ANext
<1>3. ASSUME NEW p \in Proc, PopSwap(p) PROVE Abstract!ANext
  <2>1. Abstract!APop(p)
    BY <1>3, PopSwapFacts DEF PopSwap, Abstract!APop
  <2> QED BY <2>1 DEF Abstract!ANext
<1>4. ASSUME NEW p \in Proc, PopAllSwap(p) PROVE Abstract!ANext
  <2>1. Abstract!APopAll(p)
    BY <1>4, PopAllSwapFacts DEF PopAllSwap, Abstract!APopAll
  <2> QED BY <2>1 DEF Abstract!ANext
<1>5. ASSUME NEW p \in Proc, Walk(p) PROVE Abstract!ANext
  <2>1. Abstract!AWalk(p)
    BY <1>5, WalkFacts DEF Walk, WalkLinks, Abstract!AWalk
  <2> QED BY <2>1 DEF Abstract!ANext
<1>6. ASSUME NEW p \in Proc,
             \/ PushLoad(p) \/ PushLink(p) \/ PushRetry(p)
             \/ CallPop(p) \/ PopLoad(p) \/ PopNext(p) \/ PopRetry(p)
             \/ CallPopAll(p) \/ PopAllLoad(p) \/ PopAllRetry(p)
      PROVE  UNCHANGED Abstract!avars
  BY <1>6 DEF PushLoad, PushLink, PushRetry, CallPop, PopLoad, PopNext, PopRetry,
              CallPopAll, PopAllLoad, PopAllRetry
<1>7. CASE UNCHANGED vars
  BY <1>7 DEF vars
<1> QED
  BY <1>1, <1>2, <1>3, <1>4, <1>5, <1>6, <1>7 DEF Next, Step, Push, Pop, PopAll

\* The lock-free list implements the abstract stack.
THEOREM Linearizable == Spec => IsAtomicStack
<1>1. Spec => Abstract!ASpec
  BY InitRefines, StepRefines, IInvInvariant, PTL DEF Spec, Abstract!ASpec
<1> QED BY <1>1 DEF IsAtomicStack
=============================================================================
