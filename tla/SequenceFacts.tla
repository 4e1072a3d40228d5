--------------------------- MODULE SequenceFacts ---------------------------
(***************************************************************************)
(* What the list operations do to a sequence, element by element, and to   *)
(* the set of its elements: the lemmas the proofs about the lists share.   *)
(* The last two are about numbers: the least of a set, and a quotient.     *)
(***************************************************************************)
EXTENDS Integers, SequencesExt, FiniteSetTheorems, WellFoundedInduction, TLAPS

\* Where the elements of a concatenation come from.
LEMMA ConcatFacts ==
  ASSUME NEW S, NEW a \in Seq(S), NEW b \in Seq(S)
  PROVE  /\ a \o b \in Seq(S)
         /\ Len(a) \in Nat /\ Len(b) \in Nat
         /\ Len(a \o b) = Len(a) + Len(b)
         /\ \A i \in 1..Len(a) : (a \o b)[i] = a[i]
         /\ \A i \in (Len(a) + 1)..(Len(a) + Len(b)) : (a \o b)[i] = b[i - Len(a)]
  OBVIOUS

\* Prepending one element.
LEMMA ConsFacts ==
  ASSUME NEW S, NEW s \in Seq(S), NEW x \in S
  PROVE  /\ <<x>> \o s \in Seq(S)
         /\ Len(s) \in Nat
         /\ Len(<<x>> \o s) = Len(s) + 1
         /\ (<<x>> \o s)[1] = x
         /\ \A i \in 2..(Len(s) + 1) : (<<x>> \o s)[i] = s[i - 1]
  OBVIOUS

\* Appending one element.
LEMMA AppendFacts ==
  ASSUME NEW S, NEW s \in Seq(S), NEW x \in S
  PROVE  /\ Append(s, x) \in Seq(S)
         /\ Len(s) \in Nat
         /\ Len(Append(s, x)) = Len(s) + 1
         /\ Append(s, x)[Len(s) + 1] = x
         /\ \A i \in 1..Len(s) : Append(s, x)[i] = s[i]
  OBVIOUS

\* Dropping the first element is removing at position 1.
LEMMA TailFacts ==
  ASSUME NEW S, NEW s \in Seq(S), s # <<>>
  PROVE  /\ Tail(s) \in Seq(S)
         /\ Len(s) \in Nat \ {0}
         /\ Len(Tail(s)) = Len(s) - 1
         /\ \A i \in 1..(Len(s) - 1) : Tail(s)[i] = s[i + 1]
  OBVIOUS

\* What is behind a prepended element is the sequence itself.
LEMMA ConsTail ==
  ASSUME NEW S, NEW s \in Seq(S), NEW x \in S
  PROVE  Tail(<<x>> \o s) = s
<1> DEFINE c == <<x>> \o s
           r == Tail(c)
<1>1. /\ c \in Seq(S) /\ Len(s) \in Nat /\ Len(c) = Len(s) + 1
      /\ \A i \in 2..(Len(s) + 1) : c[i] = s[i - 1]
  BY ConsFacts
<1>2. c # <<>>
  BY <1>1
<1> HIDE DEF c
<1>3. /\ r \in Seq(S) /\ Len(r) = Len(c) - 1
      /\ \A i \in 1..(Len(c) - 1) : r[i] = c[i + 1]
  BY <1>1, <1>2, TailFacts
<1> HIDE DEF r
<1>4. ASSUME NEW i \in 1..Len(s) PROVE r[i] = s[i]
  <2>1. i \in 1..(Len(c) - 1) /\ i + 1 \in 2..(Len(s) + 1) /\ (i + 1) - 1 = i
    BY <1>1
  <2> QED BY <1>1, <1>3, <2>1
<1>5. Len(r) = Len(s)
  BY <1>1, <1>3
<1>6. r = s
  BY <1>3, <1>4, <1>5
<1> QED BY <1>6 DEF r, c

\* Dropping the element at position k.
LEMMA RemoveAtFacts ==
  ASSUME NEW S, NEW s \in Seq(S), NEW k \in 1..Len(s)
  PROVE  /\ RemoveAt(s, k) \in Seq(S)
         /\ Len(s) \in Nat
         /\ Len(RemoveAt(s, k)) = Len(s) - 1
         /\ \A i \in 1..(Len(s) - 1) :
              RemoveAt(s, k)[i] = IF i < k THEN s[i] ELSE s[i + 1]
<1> DEFINE a == SubSeq(s, 1, k - 1)
           b == SubSeq(s, k + 1, Len(s))
<1>1. /\ a \in Seq(S) /\ Len(a) = k - 1
      /\ \A i \in 1..(k - 1) : a[i] = s[i]
  OBVIOUS
<1>2. /\ b \in Seq(S) /\ Len(b) = Len(s) - k
      /\ \A i \in 1..(Len(s) - k) : b[i] = s[i + k]
  OBVIOUS
<1>3. RemoveAt(s, k) = a \o b
  BY DEF RemoveAt
<1> HIDE DEF a, b
<1>4. Len(s) \in Nat
  OBVIOUS
<1>5. /\ a \o b \in Seq(S) /\ Len(a \o b) = Len(s) - 1
      /\ \A i \in 1..(k - 1) : (a \o b)[i] = a[i]
      /\ \A i \in k..(Len(s) - 1) : (a \o b)[i] = b[i - (k - 1)]
  <2>1. a \in Seq(S) /\ b \in Seq(S)
    BY <1>1, <1>2
  <2>2. /\ a \o b \in Seq(S)
        /\ Len(a \o b) = Len(a) + Len(b)
        /\ \A i \in 1..Len(a) : (a \o b)[i] = a[i]
        /\ \A i \in (Len(a) + 1)..(Len(a) + Len(b)) : (a \o b)[i] = b[i - Len(a)]
    BY <2>1, ConcatFacts
  <2>3. Len(a) = k - 1 /\ Len(b) = Len(s) - k /\ k \in Nat
    BY <1>1, <1>2
  <2>4. Len(a) + 1 = k /\ Len(a) + Len(b) = Len(s) - 1
    BY <2>3, <1>4
  <2> QED BY <2>2, <2>3, <2>4
<1>6. ASSUME NEW i \in 1..(Len(s) - 1)
      PROVE (a \o b)[i] = IF i < k THEN s[i] ELSE s[i + 1]
  <2>1. CASE i < k
    BY <2>1, <1>1, <1>4, <1>5
  <2>2. CASE i >= k
    <3>1. i - (k - 1) \in 1..(Len(s) - k)
      BY <2>2, <1>4
    <3>2. b[i - (k - 1)] = s[(i - (k - 1)) + k]
      BY <3>1, <1>2
    <3>3. i \in k..(Len(s) - 1) /\ (i - (k - 1)) + k = i + 1 /\ ~(i < k)
      BY <2>2, <1>4
    <3>4. (a \o b)[i] = b[i - (k - 1)]
      BY <3>3, <1>5
    <3> QED BY <3>2, <3>3, <3>4
  <2>3. i < k \/ i >= k
    BY <1>4
  <2> QED BY <2>1, <2>2, <2>3
<1> QED BY <1>3, <1>4, <1>5, <1>6
-----------------------------------------------------------------------------
(* Sequences without repetition *)

NoRepeat(s) == \A i, j \in 1..Len(s) : s[i] = s[j] => i = j

\* The elements of a sequence, by position.
LEMMA RangeFacts ==
  ASSUME NEW S, NEW s \in Seq(S)
  PROVE  /\ Range(s) = {s[i] : i \in 1..Len(s)}
         /\ Range(s) \subseteq S
  BY DEF Range

\* The empty sequence has no elements.
LEMMA EmptyFacts == Range(<<>>) = {} /\ NoRepeat(<<>>) /\ Len(<<>>) = 0
  BY DEF Range, NoRepeat

\* Prepending a new element adds it to the elements.
LEMMA ConsRange ==
  ASSUME NEW S, NEW s \in Seq(S), NEW x \in S
  PROVE  /\ Range(<<x>> \o s) = {x} \cup Range(s)
         /\ NoRepeat(s) /\ x \notin Range(s) => NoRepeat(<<x>> \o s)
<1> DEFINE c == <<x>> \o s
<1>1. /\ c \in Seq(S) /\ Len(s) \in Nat /\ Len(c) = Len(s) + 1 /\ c[1] = x
      /\ \A i \in 2..(Len(s) + 1) : c[i] = s[i - 1]
  BY ConsFacts
<1> HIDE DEF c
<1>2. /\ Range(s) = {s[i] : i \in 1..Len(s)}
      /\ Range(c) = {c[i] : i \in 1..Len(c)}
  BY <1>1, RangeFacts
<1>3. ASSUME NEW i \in 1..Len(c), i # 1
      PROVE  i - 1 \in 1..Len(s) /\ c[i] = s[i - 1] /\ c[i] \in Range(s)
  <2>1. i - 1 \in 1..Len(s) /\ i \in 2..(Len(s) + 1)
    BY <1>1, <1>3
  <2> QED BY <2>1, <1>1, <1>2
<1>4. Range(c) \subseteq {x} \cup Range(s)
  BY <1>1, <1>2, <1>3
<1>5. {x} \cup Range(s) \subseteq Range(c)
  <2>1. 1 \in 1..Len(c)
    BY <1>1
  <2>2. ASSUME NEW i \in 1..Len(s) PROVE s[i] \in Range(c)
    <3>1. i + 1 \in 2..(Len(s) + 1) /\ i + 1 \in 1..Len(c) /\ (i + 1) - 1 = i
      BY <1>1
    <3> QED BY <3>1, <1>1, <1>2
  <2> QED BY <2>1, <2>2, <1>1, <1>2
<1>6. ASSUME NoRepeat(s), x \notin Range(s) PROVE NoRepeat(c)
  <2> SUFFICES ASSUME NEW i \in 1..Len(c), NEW j \in 1..Len(c), c[i] = c[j]
               PROVE  i = j
    BY DEF NoRepeat
  <2>1. CASE i = 1 \/ j = 1
    BY <2>1, <1>1, <1>3, <1>6
  <2>2. CASE i # 1 /\ j # 1
    <3>1. i - 1 = j - 1
      BY <2>2, <1>3, <1>6 DEF NoRepeat
    <3> QED BY <3>1, <1>1
  <2> QED BY <2>1, <2>2
<1> QED BY <1>4, <1>5, <1>6 DEF c

\* Appending a new element adds it to the elements.
LEMMA AppendRange ==
  ASSUME NEW S, NEW s \in Seq(S), NEW x \in S
  PROVE  /\ Range(Append(s, x)) = Range(s) \cup {x}
         /\ NoRepeat(s) /\ x \notin Range(s) => NoRepeat(Append(s, x))
<1> DEFINE c == Append(s, x)
<1>1. /\ c \in Seq(S) /\ Len(s) \in Nat /\ Len(c) = Len(s) + 1
      /\ c[Len(s) + 1] = x
      /\ \A i \in 1..Len(s) : c[i] = s[i]
  BY AppendFacts
<1> HIDE DEF c
<1>2. /\ Range(s) = {s[i] : i \in 1..Len(s)}
      /\ Range(c) = {c[i] : i \in 1..Len(c)}
  BY <1>1, RangeFacts
<1>3. 1..Len(c) = 1..Len(s) \cup {Len(s) + 1}
  BY <1>1
<1>4. Range(c) = Range(s) \cup {x}
  BY <1>1, <1>2, <1>3
<1>5. ASSUME NoRepeat(s), x \notin Range(s) PROVE NoRepeat(c)
  BY <1>1, <1>2, <1>3, <1>5 DEF NoRepeat
<1> QED BY <1>4, <1>5 DEF c

\* Taking one element away by its position leaves exactly the others.
LEMMA RemoveAtRange ==
  ASSUME NEW S, NEW s \in Seq(S), NoRepeat(s), NEW k \in 1..Len(s)
  PROVE  /\ s[k] \in Range(s)
         /\ Range(RemoveAt(s, k)) = Range(s) \ {s[k]}
         /\ NoRepeat(RemoveAt(s, k))
<1> DEFINE t == RemoveAt(s, k)
           at(i) == IF i < k THEN i ELSE i + 1
<1>1. /\ t \in Seq(S) /\ Len(s) \in Nat /\ Len(t) = Len(s) - 1
      /\ \A i \in 1..(Len(s) - 1) : t[i] = IF i < k THEN s[i] ELSE s[i + 1]
  BY RemoveAtFacts
<1> HIDE DEF t
<1>2. /\ Range(s) = {s[i] : i \in 1..Len(s)}
      /\ Range(t) = {t[i] : i \in 1..Len(t)}
  BY <1>1, RangeFacts
<1>3. ASSUME NEW i \in 1..Len(t)
      PROVE  at(i) \in 1..Len(s) /\ at(i) # k /\ t[i] = s[at(i)]
  BY <1>1
<1>4. \A i, j \in 1..Len(t) : at(i) = at(j) => i = j
  BY <1>1
<1>5. ASSUME NEW i \in 1..Len(s), i # k PROVE s[i] \in Range(t)
  <2>1. CASE i < k
    <3>1. i \in 1..Len(t) /\ t[i] = s[i]
      BY <2>1, <1>1
    <3> QED BY <3>1, <1>2
  <2>2. CASE i > k
    <3>1. i - 1 \in 1..(Len(s) - 1) /\ ~(i - 1 < k) /\ (i - 1) + 1 = i
      BY <2>2, <1>1
    <3>2. t[i - 1] = s[i] /\ i - 1 \in 1..Len(t)
      BY <3>1, <1>1
    <3> QED BY <3>2, <1>2
  <2> QED BY <2>1, <2>2, <1>5, <1>1
<1> HIDE DEF at
<1>6. Range(t) \subseteq Range(s) \ {s[k]}
  BY <1>2, <1>3 DEF NoRepeat
<1>7. Range(s) \ {s[k]} \subseteq Range(t)
  BY <1>2, <1>5
<1>8. NoRepeat(t)
  BY <1>3, <1>4 DEF NoRepeat
<1> QED BY <1>2, <1>6, <1>7, <1>8 DEF t

\* Dropping the first element leaves exactly the others.
LEMMA TailRange ==
  ASSUME NEW S, NEW s \in Seq(S), s # <<>>, NoRepeat(s)
  PROVE  /\ Head(s) = s[1] /\ Head(s) \in Range(s)
         /\ Range(Tail(s)) = Range(s) \ {Head(s)}
         /\ NoRepeat(Tail(s))
<1>1. /\ Tail(s) \in Seq(S) /\ Len(s) \in Nat \ {0}
      /\ Len(Tail(s)) = Len(s) - 1
      /\ \A i \in 1..(Len(s) - 1) : Tail(s)[i] = s[i + 1]
  BY TailFacts
<1>2. 1 \in 1..Len(s)
  BY <1>1
<1>3. /\ RemoveAt(s, 1) \in Seq(S)
      /\ Len(RemoveAt(s, 1)) = Len(s) - 1
      /\ \A i \in 1..(Len(s) - 1) : RemoveAt(s, 1)[i] = s[i + 1]
  <2>1. \A i \in 1..(Len(s) - 1) : ~(i < 1)
    BY <1>1
  <2> QED BY <2>1, <1>2, RemoveAtFacts
<1>4. Tail(s) = RemoveAt(s, 1)
  BY <1>1, <1>3
<1>5. Head(s) = s[1]
  OBVIOUS
<1> QED BY <1>2, <1>4, <1>5, RemoveAtRange

\* Removing an element that occurs once.
LEMMA RemoveFirstFacts ==
  ASSUME NEW S, NEW s \in Seq(S), NoRepeat(s), NEW x \in Range(s)
  PROVE  /\ RemoveFirst(s, x) \in Seq(S)
         /\ Len(s) \in Nat
         /\ Len(RemoveFirst(s, x)) = Len(s) - 1
         /\ Range(RemoveFirst(s, x)) = Range(s) \ {x}
         /\ NoRepeat(RemoveFirst(s, x))
<1>1. PICK k \in 1..Len(s) : s[k] = x
  BY RangeFacts
<1> DEFINE I == {i \in 1..Len(s) : s[i] = x}
<1>2. I = {k}
  BY <1>1 DEF NoRepeat
<1>3. Min(I) = k
  BY <1>2 DEF Min
<1>4. RemoveFirst(s, x) = RemoveAt(s, IF I # {} THEN Min(I) ELSE 0)
  BY <1>1 DEF RemoveFirst, SelectInSeq
<1> HIDE DEF I
<1>5. RemoveFirst(s, x) = RemoveAt(s, k)
  BY <1>2, <1>3, <1>4
<1>6. /\ RemoveAt(s, k) \in Seq(S) /\ Len(s) \in Nat
      /\ Len(RemoveAt(s, k)) = Len(s) - 1
  BY RemoveAtFacts
<1> QED BY <1>1, <1>5, <1>6, RemoveAtRange

\* A sequence cut in two after position k.
LEMMA SplitFacts ==
  ASSUME NEW S, NEW s \in Seq(S), NEW k \in 0..Len(s)
  PROVE  /\ SubSeq(s, 1, k) \in Seq(S) /\ Len(SubSeq(s, 1, k)) = k
         /\ \A i \in 1..k : SubSeq(s, 1, k)[i] = s[i]
         /\ SubSeq(s, k + 1, Len(s)) \in Seq(S)
         /\ Len(s) \in Nat /\ Len(SubSeq(s, k + 1, Len(s))) = Len(s) - k
         /\ \A i \in 1..(Len(s) - k) : SubSeq(s, k + 1, Len(s))[i] = s[i + k]
  OBVIOUS

\* The two parts share the elements between them.
LEMMA SplitRange ==
  ASSUME NEW S, NEW s \in Seq(S), NoRepeat(s), NEW k \in 0..Len(s)
  PROVE  /\ NoRepeat(SubSeq(s, 1, k)) /\ NoRepeat(SubSeq(s, k + 1, Len(s)))
         /\ Range(SubSeq(s, 1, k)) \cap Range(SubSeq(s, k + 1, Len(s))) = {}
         /\ Range(SubSeq(s, 1, k)) \cup Range(SubSeq(s, k + 1, Len(s))) = Range(s)
<1> DEFINE a == SubSeq(s, 1, k)
           b == SubSeq(s, k + 1, Len(s))
<1>1. /\ a \in Seq(S) /\ Len(a) = k /\ \A i \in 1..k : a[i] = s[i]
      /\ b \in Seq(S) /\ Len(s) \in Nat /\ Len(b) = Len(s) - k
      /\ \A i \in 1..(Len(s) - k) : b[i] = s[i + k]
  BY SplitFacts
<1> HIDE DEF a, b
<1>2. /\ Range(s) = {s[i] : i \in 1..Len(s)}
      /\ Range(a) = {a[i] : i \in 1..Len(a)}
      /\ Range(b) = {b[i] : i \in 1..Len(b)}
  BY <1>1, RangeFacts
<1>3. NoRepeat(a)
  BY <1>1 DEF NoRepeat
<1>4. NoRepeat(b)
  <2>1. ASSUME NEW i \in 1..Len(b), NEW j \in 1..Len(b), b[i] = b[j] PROVE i = j
    <3>1. s[i + k] = s[j + k] /\ i + k \in 1..Len(s) /\ j + k \in 1..Len(s)
      BY <1>1, <2>1
    <3> QED BY <3>1 DEF NoRepeat
  <2> QED BY <2>1 DEF NoRepeat
<1>5. ASSUME NEW i \in 1..Len(a), NEW j \in 1..Len(b) PROVE a[i] # b[j]
  <2>1. i \in 1..Len(s) /\ j + k \in 1..Len(s) /\ i # j + k /\ a[i] = s[i] /\ b[j] = s[j + k]
    BY <1>1
  <2> QED BY <2>1 DEF NoRepeat
<1>6. Range(a) \cap Range(b) = {}
  BY <1>2, <1>5
<1>7. ASSUME NEW i \in 1..Len(s) PROVE s[i] \in Range(a) \cup Range(b)
  <2>1. CASE i <= k
    BY <1>1, <1>2, <2>1
  <2>2. CASE ~(i <= k)
    <3>1. i - k \in 1..Len(b) /\ (i - k) + k = i
      BY <1>1, <2>2
    <3> QED BY <1>1, <1>2, <3>1
  <2> QED BY <2>1, <2>2
<1>8. ASSUME NEW i \in 1..Len(a) PROVE a[i] \in Range(s)
  BY <1>1, <1>2
<1>9. ASSUME NEW i \in 1..Len(b) PROVE b[i] \in Range(s)
  <2>1. i + k \in 1..Len(s)
    BY <1>1
  <2> QED BY <1>1, <1>2, <2>1
<1>10. Range(a) \cup Range(b) = Range(s)
  BY <1>2, <1>7, <1>8, <1>9
<1> QED BY <1>3, <1>4, <1>6, <1>10 DEF a, b

\* A sequence without repetition is as long as the set of its elements.
LEMMA NoRepeatCardinality ==
  ASSUME NEW S, NEW s \in Seq(S), NoRepeat(s)
  PROVE  IsFiniteSet(Range(s)) /\ Cardinality(Range(s)) = Len(s)
<1>1. Len(s) \in Nat /\ s \in [1..Len(s) -> Range(s)]
  BY DEF Range
<1>2. s \in Bijection(1..Len(s), Range(s))
  BY <1>1, RangeFacts DEF Bijection, Injection, IsInjective, Surjection, NoRepeat, Range
<1>3. ExistsBijection(1..Len(s), Range(s))
  BY <1>2 DEF ExistsBijection
<1>4. IsFiniteSet(1..Len(s)) /\ Cardinality(1..Len(s)) = Len(s)
  BY <1>1, FS_Interval
<1> QED BY <1>3, <1>4, FS_Bijection
-----------------------------------------------------------------------------
\* Every nonempty set of numbers has a least element: what an argument by
\* least counterexample starts from.
LEMMA LeastElement ==
  ASSUME NEW T, T \subseteq Nat, T # {}
  PROVE  \E x \in T : \A y \in T : x <= y
<1> DEFINE R == OpToRel(<, Nat)
<1>1. IsWellFoundedOn(R, Nat)
  BY NatLessThanWellFounded
<1>2. \A x, y \in Nat : <<x, y>> \in R <=> x < y
  BY DEF OpToRel
<1> HIDE DEF R
<1>3. PICK x \in T : \A y \in T : ~(<<y, x>> \in R)
  BY <1>1, WFMin
<1>4. ASSUME NEW y \in T PROVE x <= y
  <2>1. x \in Nat /\ y \in Nat /\ ~(<<y, x>> \in R)
    BY <1>3
  <2>2. ~(y < x)
    BY <2>1, <1>2
  <2> QED BY <2>1, <2>2
<1> QED BY <1>4

\* A quotient, named by the two multiples around the number.
LEMMA Quotient ==
  ASSUME NEW d \in Nat \ {0}, NEW x \in Nat
  PROVE  x \div d \in Nat /\ d * (x \div d) <= x /\ x < d * (x \div d) + d
<1> DEFINE q == x \div d
           r == x % d
<1>1. q \in Nat /\ r \in Nat /\ r < d /\ x = d * q + r
  OBVIOUS
<1>2. d * q \in Nat
  BY <1>1
<1> HIDE DEF q, r
<1>3. d * q <= x /\ x < d * q + d
  BY <1>1, <1>2
<1> QED BY <1>1, <1>3 DEF q
=============================================================================
