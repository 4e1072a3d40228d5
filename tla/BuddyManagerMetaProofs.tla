----------------------- MODULE BuddyManagerMetaProofs -----------------------
(***************************************************************************)
(* Facts about the arithmetic of buddy blocks, for every page size and     *)
(* smallest block that are powers of two: the blocks of a class tile the   *)
(* page, a block is two blocks of the class below, and the bitmap has a    *)
(* bit of its own for every block of every class.  Then about one chunk:   *)
(* what taking, splitting, merging and freeing a block do to its bitmap.   *)
(***************************************************************************)
EXTENDS BuddyManagerMeta, SequenceFacts, TLAPS
-----------------------------------------------------------------------------
(* Powers of two *)

\* g lists the first n + 1 powers of two.
Doubles(g, n) ==
  /\ g \in [0..n -> Nat \ {0}] /\ g[0] = 1
  /\ \A i \in 1..n : g[i] = 2 * g[i - 1]

\* There is such a list of any length.
LEMMA DoublesExist == \A n \in Nat : \E g : Doubles(g, n)
<1> DEFINE Bad == {n \in Nat : ~\E g : Doubles(g, n)}
<1> SUFFICES ASSUME Bad # {} PROVE FALSE
  OBVIOUS
<1>1. PICK n \in Bad : \A y \in Bad : n <= y
  <2>1. Bad \subseteq Nat
    OBVIOUS
  <2> QED BY <2>1, LeastElement
<1>2. n \in Nat /\ ~\E g : Doubles(g, n)
  OBVIOUS
<1>3. CASE n = 0
  <2> DEFINE g == [i \in 0..0 |-> 1]
  <2>1. Doubles(g, n)
    BY <1>3 DEF Doubles
  <2> QED BY <1>2, <2>1
<1>4. CASE n # 0
  <2>1. n - 1 \in Nat /\ n - 1 \notin Bad
    BY <1>1, <1>2, <1>4
  <2>2. PICK g : Doubles(g, n - 1)
    BY <2>1
  <2> DEFINE h == [i \in 0..n |-> IF i = n THEN 2 * g[n - 1] ELSE g[i]]
  <2>3. /\ g \in [0..(n - 1) -> Nat \ {0}] /\ g[0] = 1
        /\ \A i \in 1..(n - 1) : g[i] = 2 * g[i - 1]
    BY <2>2 DEF Doubles
  <2>4. h \in [0..n -> Nat \ {0}] /\ h[0] = 1
    BY <1>2, <1>4, <2>3
  <2>5. ASSUME NEW i \in 1..n PROVE h[i] = 2 * h[i - 1]
    BY <1>2, <1>4, <2>3
  <2>6. Doubles(h, n)
    BY <2>4, <2>5 DEF Doubles
  <2> QED BY <1>2, <2>6
<1> QED BY <1>3, <1>4

\* Two such lists agree.
LEMMA DoublesAgree ==
  ASSUME NEW n \in Nat, NEW m \in Nat, NEW g, NEW h, Doubles(g, n), Doubles(h, m)
  PROVE  \A i \in 0..n : i <= m => g[i] = h[i]
<1> DEFINE Bad == {i \in 0..n : i <= m /\ g[i] # h[i]}
<1> SUFFICES ASSUME Bad # {} PROVE FALSE
  OBVIOUS
<1>1. PICK i \in Bad : \A y \in Bad : i <= y
  <2>1. Bad \subseteq Nat
    OBVIOUS
  <2> QED BY <2>1, LeastElement
<1>2. i # 0
  BY DEF Doubles
<1>3. i - 1 \in 0..n /\ i - 1 <= m /\ i - 1 \notin Bad /\ i \in 1..n /\ i \in 1..m
  BY <1>1, <1>2
<1>4. g[i - 1] = h[i - 1] /\ g[i] = 2 * g[i - 1] /\ h[i] = 2 * h[i - 1]
  BY <1>3 DEF Doubles
<1> QED BY <1>4

\* What pow2 is.
LEMMA Pow2Facts ==
  /\ pow2 \in [Nat -> Nat \ {0}]
  /\ pow2[0] = 1
  /\ \A k \in Nat : pow2[k + 1] = 2 * pow2[k]
<1> DEFINE D(f) == f = [k \in Nat |-> IF k = 0 THEN 1 ELSE 2 * f[k - 1]]
           list(k) == CHOOSE g : Doubles(g, k)
           f == [k \in Nat |-> list(k)[k]]
<1>1. \A k \in Nat : Doubles(list(k), k)
  BY DoublesExist
<1> HIDE DEF list
<1>2. f[0] = 1
  BY <1>1 DEF Doubles
<1>3. ASSUME NEW k \in Nat, k # 0 PROVE f[k] = 2 * f[k - 1]
  <2>1. k - 1 \in Nat /\ k \in 1..k /\ k - 1 \in 0..(k - 1) /\ k - 1 <= k
    BY <1>3
  <2>2. Doubles(list(k), k) /\ Doubles(list(k - 1), k - 1)
    BY <1>1, <2>1
  <2>3. list(k)[k] = 2 * list(k)[k - 1]
    BY <2>1, <2>2 DEF Doubles
  <2>4. list(k - 1)[k - 1] = list(k)[k - 1]
    BY <2>1, <2>2, DoublesAgree
  <2> QED BY <2>1, <2>3, <2>4
<1>4. \A k \in Nat : f[k] \in Nat \ {0}
  BY <1>1 DEF Doubles
<1>5. D(f)
  BY <1>2, <1>3
<1> HIDE DEF f
<1>6. D(pow2)
  BY <1>5 DEF pow2
<1>7. pow2[0] = 1 /\ \A k \in Nat : pow2[k + 1] = 2 * pow2[k]
  BY <1>6
<1>8. \A k \in Nat : pow2[k] \in Nat \ {0}
  <2> DEFINE Bad == {k \in Nat : pow2[k] \notin Nat \ {0}}
  <2> SUFFICES ASSUME Bad # {} PROVE FALSE
    OBVIOUS
  <2>1. PICK k \in Bad : \A y \in Bad : k <= y
    <3>1. Bad \subseteq Nat
      OBVIOUS
    <3> QED BY <3>1, LeastElement
  <2>2. k # 0
    BY <1>7
  <2>3. k - 1 \in Nat /\ k - 1 \notin Bad
    BY <2>1, <2>2
  <2>4. pow2[k] = 2 * pow2[k - 1]
    BY <1>7, <2>3
  <2> QED BY <2>3, <2>4
<1>9. pow2 \in [Nat -> Nat \ {0}]
  BY <1>6, <1>8
<1> QED BY <1>7, <1>9

\* The power of a sum is the product of the powers.
LEMMA Pow2Sum == \A a, b \in Nat : pow2[a + b] = pow2[a] * pow2[b]
<1> SUFFICES ASSUME NEW a \in Nat PROVE \A b \in Nat : pow2[a + b] = pow2[a] * pow2[b]
  OBVIOUS
<1> DEFINE Bad == {b \in Nat : pow2[a + b] # pow2[a] * pow2[b]}
<1> SUFFICES ASSUME Bad # {} PROVE FALSE
  OBVIOUS
<1>1. PICK b \in Bad : \A y \in Bad : b <= y
  <2>1. Bad \subseteq Nat
    OBVIOUS
  <2> QED BY <2>1, LeastElement
<1>2. b # 0
  BY Pow2Facts
<1>3. PICK c \in Nat : c = b - 1
  BY <1>2
<1>4. c \notin Bad /\ b = c + 1 /\ a + b = (a + c) + 1 /\ a + c \in Nat
  BY <1>1, <1>3
<1>5. /\ pow2[a + c] = pow2[a] * pow2[c]
      /\ pow2[c + 1] = 2 * pow2[c]
      /\ pow2[(a + c) + 1] = 2 * pow2[a + c]
      /\ pow2[a] \in Nat /\ pow2[c] \in Nat
  BY <1>4, Pow2Facts
<1>6. 2 * (pow2[a] * pow2[c]) = pow2[a] * (2 * pow2[c])
  BY <1>5
<1>7. pow2[a + b] = pow2[a] * pow2[b]
  BY <1>4, <1>5, <1>6
<1> QED BY <1>7

\* Powers of two grow with the exponent, and faster.
LEMMA Pow2Grows ==
  ASSUME NEW a \in Nat, NEW b \in Nat
  PROVE  /\ a <= b => pow2[a] <= pow2[b]
         /\ a < b => 2 * pow2[a] <= pow2[b]
         /\ a < pow2[a]
<1>1. \A x, y \in Nat : x <= y => pow2[x] <= pow2[y]
  <2> SUFFICES ASSUME NEW x \in Nat, NEW y \in Nat, x <= y PROVE pow2[x] <= pow2[y]
    OBVIOUS
  <2>1. PICK d \in Nat : d = y - x
    OBVIOUS
  <2>2. y = x + d
    BY <2>1
  <2>3. pow2[x + d] = pow2[x] * pow2[d] /\ pow2[x] \in Nat /\ pow2[d] \in Nat \ {0}
    BY Pow2Sum, Pow2Facts
  <2> DEFINE u == pow2[x]
             v == pow2[d]
  <2>4. u \in Nat /\ v \in Nat /\ v >= 1
    BY <2>3
  <2> HIDE DEF u, v
  <2>5. u <= u * v
    BY <2>4
  <2> QED BY <2>2, <2>3, <2>5 DEF u, v
<1>2. a < b => 2 * pow2[a] <= pow2[b]
  <2> SUFFICES ASSUME a < b PROVE 2 * pow2[a] <= pow2[b]
    OBVIOUS
  <2>1. a + 1 \in Nat /\ a + 1 <= b
    OBVIOUS
  <2> QED BY <1>1, <2>1, Pow2Facts
<1>3. a < pow2[a]
  <2> DEFINE Bad == {k \in Nat : ~(k < pow2[k])}
  <2> SUFFICES ASSUME Bad # {} PROVE FALSE
    OBVIOUS
  <2>1. PICK k \in Bad : \A y \in Bad : k <= y
    <3>1. Bad \subseteq Nat
      OBVIOUS
    <3> QED BY <3>1, LeastElement
  <2>2. k # 0
    BY Pow2Facts
  <2>3. PICK j \in Nat : j = k - 1
    BY <2>2
  <2>4. j \notin Bad /\ k = j + 1
    BY <2>1, <2>3
  <2>5. j < pow2[j] /\ pow2[k] = 2 * pow2[j] /\ pow2[j] \in Nat
    BY <2>4, Pow2Facts
  <2>6. k < pow2[k]
    BY <2>4, <2>5
  <2> QED BY <2>6
<1> QED BY <1>1, <1>2, <1>3

\* The logarithm of a power of two is its exponent.
LEMMA LogOfPow2 == \A k \in Nat : log_2(pow2[k]) = k
<1> SUFFICES ASSUME NEW k \in Nat PROVE log_2(pow2[k]) = k
  OBVIOUS
<1> DEFINE n == pow2[k]
<1>1. n \in Nat \ {0} /\ k \in 0..n
  <2>1. n \in Nat \ {0}
    BY Pow2Facts
  <2>2. k < n
    BY Pow2Grows
  <2> QED BY <2>1, <2>2
<1>2. pow2[k] <= n /\ n < pow2[k + 1]
  BY <1>1, Pow2Facts
<1>3. ASSUME NEW j \in 0..n, pow2[j] <= n, n < pow2[j + 1] PROVE j = k
  <2>1. j \in Nat /\ pow2[j] \in Nat \ {0} /\ pow2[k] \in Nat \ {0}
    BY Pow2Facts
  <2>2. CASE j < k
    <3>1. pow2[j + 1] <= pow2[k]
      BY <2>1, <2>2, Pow2Grows, Pow2Facts
    <3>2. pow2[j + 1] \in Nat
      BY <2>1, Pow2Facts
    <3> QED BY <1>3, <2>1, <3>1, <3>2
  <2>3. CASE k < j
    <3>1. 2 * pow2[k] <= pow2[j]
      BY <2>1, <2>3, Pow2Grows
    <3> QED BY <1>3, <2>1, <3>1
  <2> QED BY <2>1, <2>2, <2>3
<1> HIDE DEF n
<1>4. log_2(n) = k
  BY <1>1, <1>2, <1>3 DEF log_2, n
<1> QED BY <1>4 DEF n
-----------------------------------------------------------------------------
(* Classes and sizes *)

\* The sizes of the classes: they double, the largest is the page, and the
\* class of a size is found again.
LEMMA ClassFacts ==
  /\ TopClass \in Nat /\ SizeClass = 0..TopClass /\ get_num_sizeclasses = TopClass + 1
  /\ \A s \in SizeClass : get_size(s) \in Nat \ {0}
  /\ get_size(0) = MinAllocSize /\ get_size(TopClass) = PageSize
  /\ \A s \in SizeClass : s # TopClass => get_size(s + 1) = 2 * get_size(s)
  /\ \A s \in SizeClass : get_sizeclass(get_size(s)) = s
  /\ \A s \in SizeClass : PageSize = get_size(s) * pow2[TopClass - s]
<1>1. PICK a \in Nat : MinAllocSize = pow2[a]
  BY SizeAssumption DEF IsPowerOfTwo
<1>2. PICK p \in Nat : PageSize = pow2[p]
  BY SizeAssumption DEF IsPowerOfTwo
<1>3. log_2(MinAllocSize) = a /\ log_2(PageSize) = p
  BY <1>1, <1>2, LogOfPow2
<1>4. a <= p
  <2>1. CASE p < a
    <3>1. 2 * pow2[p] <= pow2[a]
      BY <2>1, Pow2Grows
    <3>2. pow2[p] \in Nat \ {0} /\ pow2[a] \in Nat \ {0} /\ pow2[a] <= pow2[p]
      BY <1>1, <1>2, Pow2Facts, SizeAssumption
    <3> QED BY <3>1, <3>2
  <2> QED BY <2>1
<1>5. TopClass = p - a /\ get_num_sizeclasses = TopClass + 1
  BY <1>3, <1>4 DEF TopClass, get_sizeclass, get_num_sizeclasses
<1>6. TopClass \in Nat /\ SizeClass = 0..TopClass
  BY <1>4, <1>5 DEF SizeClass
<1>7. ASSUME NEW s \in Nat PROVE get_size(s) = pow2[a + s]
  BY <1>1, Pow2Sum DEF get_size
<1>8. ASSUME NEW s \in SizeClass
      PROVE  /\ get_size(s) \in Nat \ {0}
             /\ s # TopClass => get_size(s + 1) = 2 * get_size(s)
             /\ get_sizeclass(get_size(s)) = s
             /\ PageSize = get_size(s) * pow2[TopClass - s]
  <2>1. s \in Nat /\ a + s \in Nat /\ TopClass - s \in Nat /\ (a + s) + (TopClass - s) = p
        /\ a + (s + 1) = (a + s) + 1 /\ s + 1 \in Nat
    BY <1>5, <1>6
  <2>2. get_size(s) = pow2[a + s] /\ get_size(s + 1) = pow2[(a + s) + 1]
    BY <1>7, <2>1
  <2>3. get_size(s) \in Nat \ {0} /\ get_size(s + 1) = 2 * get_size(s)
    BY <2>1, <2>2, Pow2Facts
  <2>4. get_sizeclass(get_size(s)) = s
    <3>1. log_2(get_size(s)) = a + s
      BY <2>1, <2>2, LogOfPow2
    <3> QED BY <1>3, <2>1, <3>1 DEF get_sizeclass
  <2>5. PageSize = get_size(s) * pow2[TopClass - s]
    <3>1. PageSize = pow2[(a + s) + (TopClass - s)]
      BY <1>2, <2>1
    <3>2. pow2[(a + s) + (TopClass - s)] = pow2[a + s] * pow2[TopClass - s]
      BY <2>1, Pow2Sum
    <3> QED BY <2>2, <3>1, <3>2
  <2> QED BY <2>3, <2>4, <2>5
<1>9. get_size(0) = MinAllocSize /\ get_size(TopClass) = PageSize
  <2>1. a + 0 = a /\ a + TopClass = p /\ 0 \in Nat
    BY <1>4, <1>5
  <2> QED BY <1>1, <1>2, <1>6, <1>7, <2>1
<1> QED BY <1>5, <1>6, <1>8, <1>9
-----------------------------------------------------------------------------
(* Division *)

\* Quotient and remainder.
LEMMA Division ==
  ASSUME NEW d \in Nat \ {0}, NEW x \in Nat
  PROVE  /\ x \div d \in Nat /\ x % d \in Nat /\ x % d < d
         /\ x = d * (x \div d) + (x % d)
OBVIOUS

\* There is one quotient and one remainder: what an index formula packs with
\* a product and a sum, division unpacks (BuddyManagerMeta.h:123-141).
LEMMA DivisionUnique ==
  ASSUME NEW d \in Nat \ {0}, NEW q \in Nat, NEW r \in Nat, r < d,
         NEW x, x = d * q + r
  PROVE  x \div d = q /\ x % d = r
<1> DEFINE p == x \div d
           t == x % d
<1>1. x \in Nat
  OBVIOUS
<1>2. p \in Nat /\ t \in Nat /\ t < d /\ x = d * p + t
  BY <1>1, Division
<1> HIDE DEF p, t
<1>3. CASE p < q
  <2>1. p + 1 <= q /\ p + 1 \in Nat
    BY <1>2, <1>3
  <2>2. d * (p + 1) <= d * q
    BY <2>1
  <2>3. d * (p + 1) = d * p + d
    BY <1>2
  <2> QED BY <1>2, <2>2, <2>3
<1>4. CASE q < p
  <2>1. q + 1 <= p /\ q + 1 \in Nat
    BY <1>2, <1>4
  <2>2. d * (q + 1) <= d * p
    BY <1>2, <2>1
  <2>3. d * (q + 1) = d * q + d
    OBVIOUS
  <2> QED BY <1>2, <2>2, <2>3
<1>5. CASE p = q
  BY <1>2, <1>5 DEF p, t
<1>6. p < q \/ q < p \/ p = q
  BY <1>2
<1> QED BY <1>3, <1>4, <1>5, <1>6
-----------------------------------------------------------------------------
(* Blocks *)

Units == 0..(PageSize - 1)

\* How many blocks of a class a page has.
Count(s) == pow2[TopClass - s]

\* The offsets of a class are the multiples of its size in the page.
LEMMA OffsetFacts ==
  ASSUME NEW s \in SizeClass
  PROVE  /\ get_size(s) \in Nat \ {0} /\ Count(s) \in Nat \ {0}
         /\ PageSize = get_size(s) * Count(s)
         /\ \A o : o \in OffsetsOf(s) <=> \E i \in 0..(Count(s) - 1) : o = get_size(s) * i
         /\ OffsetsOf(s) \subseteq Units /\ PageSize \in Nat
<1> DEFINE d == get_size(s)
           k == Count(s)
<1>1. d \in Nat \ {0} /\ TopClass - s \in Nat /\ PageSize = d * k
  BY ClassFacts DEF Count
<1>2. k \in Nat \ {0}
  BY <1>1, Pow2Facts DEF Count
<1>3. PageSize \div d = k
  <2>1. PageSize = d * k + 0
    BY <1>1, <1>2
  <2> HIDE DEF d, k
  <2> QED BY <1>1, <1>2, <2>1, DivisionUnique
<1>4. OffsetsOf(s) = {i * d : i \in 0..(k - 1)}
  BY <1>3 DEF OffsetsOf
<1> HIDE DEF d, k
<1>5. \A o : o \in OffsetsOf(s) <=> \E i \in 0..(k - 1) : o = d * i
  <2>1. \A i \in 0..(k - 1) : i * d = d * i
    BY <1>1, <1>2
  <2> QED BY <1>4, <2>1
<1>6. ASSUME NEW i \in 0..(k - 1) PROVE d * i \in 0..(PageSize - 1)
  <2>1. i \in Nat /\ i + 1 <= k
    BY <1>2
  <2>2. d * (i + 1) <= d * k
    BY <1>1, <1>2, <2>1
  <2>3. d * (i + 1) = d * i + d /\ d * i \in Nat /\ d * k \in Nat
    BY <1>1, <1>2, <2>1
  <2> QED BY <1>1, <2>2, <2>3
<1>7. OffsetsOf(s) \subseteq Units
  BY <1>5, <1>6 DEF Units
<1>8. PageSize \in Nat
  BY <1>1, <1>2
<1> QED BY <1>1, <1>2, <1>5, <1>7, <1>8 DEF d, k

\* Every unit is in exactly one block of a class, the enclosing one.
LEMMA EnclosingFacts ==
  ASSUME NEW s \in SizeClass, NEW x \in Units
  PROVE  /\ EnclosingBlock(x, s) \in OffsetsOf(s) /\ EnclosingBlock(x, s) \in Units
         /\ EnclosingBlock(x, s) <= x /\ x < EnclosingBlock(x, s) + get_size(s)
         /\ \A o \in OffsetsOf(s) : o <= x /\ x < o + get_size(s) => o = EnclosingBlock(x, s)
<1> DEFINE d == get_size(s)
           k == Count(s)
           q == x \div d
           r == x % d
           e == EnclosingBlock(x, s)
<1>1. /\ d \in Nat \ {0} /\ k \in Nat \ {0} /\ PageSize = d * k
      /\ \A o : o \in OffsetsOf(s) <=> \E i \in 0..(k - 1) : o = d * i
      /\ OffsetsOf(s) \subseteq Units /\ PageSize \in Nat
  BY OffsetFacts
<1>2. x \in Nat /\ x < PageSize
  BY <1>1 DEF Units
<1>3. q \in Nat /\ r \in Nat /\ r < d /\ x = d * q + r
  BY <1>1, <1>2, Division
<1>4. e = x - r
  BY DEF EnclosingBlock
<1> HIDE DEF d, k, q, r, e
<1>5. e = d * q
  BY <1>1, <1>3, <1>4
<1>6. q < k
  <2>1. CASE k <= q
    <3>1. d * k <= d * q
      BY <1>1, <1>3, <2>1
    <3> QED BY <1>1, <1>2, <1>3, <3>1
  <2> QED BY <1>1, <1>3, <2>1
<1>7. e \in OffsetsOf(s)
  <2>1. q \in 0..(k - 1)
    BY <1>1, <1>3, <1>6
  <2>2. \E i \in 0..(k - 1) : e = d * i
    BY <1>5, <2>1
  <2> QED BY <1>1, <2>2
<1>8. e \in Units
  BY <1>1, <1>7
<1>9. e <= x /\ x < e + d
  BY <1>1, <1>3, <1>5
<1>10. ASSUME NEW o \in OffsetsOf(s), o <= x, x < o + d PROVE o = e
  <2>1. PICK i \in 0..(k - 1) : o = d * i
    BY <1>1
  <2>2. i \in Nat /\ x - o \in Nat /\ x - o < d /\ x = d * i + (x - o)
    BY <1>1, <1>2, <1>10, <2>1
  <2>3. x \div d = i
    <3> DEFINE t == x - o
    <3>1. t \in Nat /\ t < d /\ x = d * i + t
      BY <2>2
    <3> HIDE DEF t
    <3> QED BY <1>1, <2>2, <3>1, DivisionUnique
  <2> QED BY <1>5, <2>1, <2>3 DEF q
<1> QED BY <1>7, <1>8, <1>9, <1>10 DEF d, e

\* A block encloses itself.
LEMMA EnclosesItself ==
  ASSUME NEW s \in SizeClass, NEW o \in OffsetsOf(s)
  PROVE  o \in Units /\ EnclosingBlock(o, s) = o
<1>1. o \in Units /\ get_size(s) \in Nat \ {0}
  BY OffsetFacts
<1>2. o <= o /\ o < o + get_size(s)
  BY <1>1, OffsetFacts DEF Units
<1> QED BY <1>1, <1>2, EnclosingFacts

\* The block of a class encloses that of the class below.
LEMMA EnclosingUp ==
  ASSUME NEW s \in SizeClass, s # TopClass, NEW x \in Units
  PROVE  EnclosingBlock(EnclosingBlock(x, s), s + 1) = EnclosingBlock(x, s + 1)
<1> DEFINE d == get_size(s)
           D == get_size(s + 1)
           y == EnclosingBlock(x, s)
           z == EnclosingBlock(x, s + 1)
<1>1. s + 1 \in SizeClass /\ D = 2 * d /\ d \in Nat \ {0}
  BY ClassFacts
<1>2. /\ y \in OffsetsOf(s) /\ y \in Units /\ y <= x /\ x < y + d
      /\ z \in OffsetsOf(s + 1) /\ z \in Units /\ z <= x /\ x < z + D
  BY <1>1, EnclosingFacts
<1>3. PICK i \in 0..(Count(s) - 1) : y = d * i
  BY <1>2, OffsetFacts
<1>4. PICK j \in 0..(Count(s + 1) - 1) : z = D * j
  BY <1>1, <1>2, OffsetFacts
<1>5. i \in Nat /\ j \in Nat /\ Count(s) \in Nat /\ x \in Nat /\ y \in Nat /\ z \in Nat
  BY <1>2, OffsetFacts DEF Units
<1> HIDE DEF d, D, y, z
<1>6. z = d * (2 * j)
  BY <1>1, <1>4, <1>5
<1>7. z <= y
  <2>1. CASE i < 2 * j
    <3>1. i + 1 <= 2 * j /\ i + 1 \in Nat /\ 2 * j \in Nat
      BY <1>5, <2>1
    <3>2. d * (i + 1) <= d * (2 * j)
      BY <1>1, <3>1
    <3>3. d * (i + 1) = y + d
      BY <1>1, <1>3, <1>5
    <3> QED BY <1>1, <1>2, <1>5, <1>6, <3>2, <3>3
  <2>2. CASE 2 * j <= i
    <3>1. d * (2 * j) <= d * i
      BY <1>1, <1>5, <2>2
    <3> QED BY <1>3, <1>6, <3>1
  <2> QED BY <1>5, <2>1, <2>2
<1>8. y < z + D
  BY <1>1, <1>2, <1>5
<1> QED BY <1>1, <1>2, <1>7, <1>8, EnclosingFacts DEF y, z, D

\* And so on up: what encloses an enclosing block encloses the unit.
LEMMA EnclosingTwice ==
  ASSUME NEW s \in SizeClass, NEW t \in SizeClass, s <= t, NEW x \in Units
  PROVE  EnclosingBlock(EnclosingBlock(x, s), t) = EnclosingBlock(x, t)
<1> DEFINE y == EnclosingBlock(x, s)
           Bad == {u \in s..TopClass : EnclosingBlock(y, u) # EnclosingBlock(x, u)}
<1>1. TopClass \in Nat /\ SizeClass = 0..TopClass /\ t \in s..TopClass
  BY ClassFacts
<1>2. y \in OffsetsOf(s) /\ y \in Units
  BY EnclosingFacts
<1> HIDE DEF y
<1> SUFFICES ASSUME Bad # {} PROVE FALSE
  BY <1>1 DEF y
<1>3. PICK u \in Bad : \A v \in Bad : u <= v
  <2>1. Bad \subseteq Nat
    BY <1>1
  <2> QED BY <2>1, LeastElement
<1>4. u # s
  BY <1>2, EnclosesItself DEF y
<1>5. PICK v \in s..TopClass : u = v + 1 /\ v \in SizeClass /\ v # TopClass
  BY <1>1, <1>4
<1>6. v \notin Bad
  BY <1>1, <1>3, <1>5
<1>7. EnclosingBlock(y, v) = EnclosingBlock(x, v)
  BY <1>6
<1>8. /\ EnclosingBlock(EnclosingBlock(y, v), v + 1) = EnclosingBlock(y, v + 1)
      /\ EnclosingBlock(EnclosingBlock(x, v), v + 1) = EnclosingBlock(x, v + 1)
  BY <1>2, <1>5, EnclosingUp
<1> QED BY <1>5, <1>7, <1>8

\* A block of a class starts where a block of every smaller class does.
LEMMA OffsetsNested ==
  ASSUME NEW s \in SizeClass, NEW t \in SizeClass, s <= t
  PROVE  OffsetsOf(t) \subseteq OffsetsOf(s)
<1> SUFFICES ASSUME NEW o \in OffsetsOf(t) PROVE o \in OffsetsOf(s)
  OBVIOUS
<1> DEFINE y == EnclosingBlock(o, s)
<1>1. o \in Units /\ EnclosingBlock(o, t) = o
  BY EnclosesItself
<1>2. y \in OffsetsOf(s) /\ y \in Units /\ y <= o
  BY <1>1, EnclosingFacts
<1>3. EnclosingBlock(y, t) = o
  BY <1>1, EnclosingTwice
<1>4. o <= y
  BY <1>2, <1>3, EnclosingFacts
<1>5. y = o
  BY <1>1, <1>2, <1>4, OffsetFacts DEF Units
<1> QED BY <1>2, <1>5

\* The number of a block and that of the block it is half of.
LEMMA BlockNumber ==
  ASSUME NEW s \in SizeClass, NEW o \in OffsetsOf(s)
  PROVE  /\ o \div get_size(s) \in 0..(Count(s) - 1)
         /\ o = get_size(s) * (o \div get_size(s))
         /\ s # TopClass =>
              /\ Count(s) = 2 * Count(s + 1)
              /\ EnclosingBlock(o, s + 1) = get_size(s + 1) * ((o \div get_size(s)) \div 2)
<1> DEFINE d == get_size(s)
           k == Count(s)
           n == o \div d
<1>1. /\ d \in Nat \ {0} /\ k \in Nat \ {0}
      /\ \A x : x \in OffsetsOf(s) <=> \E i \in 0..(k - 1) : x = d * i
  BY OffsetFacts
<1> HIDE DEF d, k
<1>2. PICK i \in 0..(k - 1) : o = d * i
  BY <1>1
<1>3. n = i
  <2>1. i \in Nat /\ o = d * i + 0
    BY <1>1, <1>2
  <2> QED BY <1>1, <2>1, DivisionUnique
<1> HIDE DEF n
<1>4. ASSUME s # TopClass
      PROVE  /\ Count(s) = 2 * Count(s + 1)
             /\ EnclosingBlock(o, s + 1) = get_size(s + 1) * (i \div 2)
  <2>1. /\ s + 1 \in SizeClass /\ TopClass - (s + 1) \in Nat
        /\ TopClass - s = (TopClass - (s + 1)) + 1
    BY <1>4, ClassFacts
  <2>2. get_size(s + 1) = 2 * d /\ Count(s) = 2 * Count(s + 1)
    BY <1>4, <2>1, ClassFacts, Pow2Facts DEF Count, d
  <2>3. PICK q \in Nat, r \in Nat : q = i \div 2 /\ r = i % 2 /\ r < 2 /\ i = 2 * q + r
    <3>1. i \in Nat
      BY <1>1
    <3> QED BY <3>1
  <2>4. PICK e : e = (2 * d) * q
    OBVIOUS
  <2>5. Count(s + 1) \in Nat /\ q < Count(s + 1)
    <3>1. Count(s + 1) \in Nat
      BY <2>1, OffsetFacts
    <3> QED BY <1>1, <2>2, <2>3, <3>1 DEF k
  <2>6. e \in OffsetsOf(s + 1)
    <3>1. q \in 0..(Count(s + 1) - 1)
      BY <2>3, <2>5
    <3> QED BY <2>1, <2>2, <2>4, <3>1, OffsetFacts
  <2>7. o = e + d * r /\ d * r \in Nat /\ d * r < 2 * d /\ e \in Nat
    <3>1. d * i = (2 * d) * q + d * r
      BY <1>1, <2>3
    <3>2. d * r = IF r = 0 THEN 0 ELSE d
      BY <1>1, <2>3
    <3>3. e \in Nat
      BY <1>1, <2>3, <2>4
    <3> QED BY <1>1, <1>2, <2>4, <3>1, <3>2, <3>3
  <2>8. e <= o /\ o < e + 2 * d
    BY <1>1, <2>7
  <2>9. o \in Units
    BY OffsetFacts
  <2>10. EnclosingBlock(o, s + 1) = e
    BY <2>1, <2>2, <2>6, <2>8, <2>9, EnclosingFacts
  <2> QED BY <2>2, <2>3, <2>4, <2>10
<1> QED BY <1>2, <1>3, <1>4 DEF n, d, k

\* The buddy of a block is the other half of the block of the next class.
LEMMA BuddyFacts ==
  ASSUME NEW s \in SizeClass, s # TopClass, NEW o \in OffsetsOf(s)
  PROVE  /\ get_buddy(o, s) \in OffsetsOf(s) /\ get_buddy(o, s) # o
         /\ EnclosingBlock(get_buddy(o, s), s + 1) = EnclosingBlock(o, s + 1)
         /\ \A x \in OffsetsOf(s) : EnclosingBlock(x, s + 1) = EnclosingBlock(o, s + 1)
                                      => x = o \/ x = get_buddy(o, s)
<1> DEFINE d == get_size(s)
           D == get_size(s + 1)
           k == Count(s)
           K == Count(s + 1)
           n == o \div d
           m == IF n % 2 = 0 THEN n + 1 ELSE n - 1
           b == get_buddy(o, s)
<1>1. /\ d \in Nat \ {0} /\ k \in Nat \ {0} /\ D \in Nat \ {0} /\ K \in Nat
      /\ \A x : x \in OffsetsOf(s) <=> \E i \in 0..(k - 1) : x = d * i
  <2>1. s + 1 \in SizeClass
    BY ClassFacts
  <2> QED BY <2>1, OffsetFacts
<1>2. /\ n \in 0..(k - 1) /\ o = d * n /\ k = 2 * K
      /\ EnclosingBlock(o, s + 1) = D * (n \div 2)
  BY BlockNumber
<1>3. b = m * d
  BY DEF get_buddy
<1> HIDE DEF d, D, k, K, n, b
<1>4. PICK q \in Nat, r \in Nat : q = n \div 2 /\ r = n % 2 /\ r < 2 /\ n = 2 * q + r
  <2>1. n \in Nat
    BY <1>1, <1>2
  <2> QED BY <2>1
<1>5. m \in 0..(k - 1) /\ m = IF r = 0 THEN 2 * q + 1 ELSE 2 * q
  BY <1>1, <1>2, <1>4
<1>6. m \div 2 = q /\ m # n
  BY <1>4, <1>5
<1> HIDE DEF m
<1>7. b = d * m /\ b \in OffsetsOf(s)
  <2>1. m \in Int /\ b = d * m
    BY <1>1, <1>3, <1>5
  <2>2. \E i \in 0..(k - 1) : b = d * i
    BY <1>5, <2>1
  <2> QED BY <1>1, <2>1, <2>2
<1>8. b \div d = m
  <2>1. m \in Nat /\ b = d * m + 0
    BY <1>1, <1>5, <1>7
  <2> QED BY <1>1, <2>1, DivisionUnique
<1>9. EnclosingBlock(b, s + 1) = D * q
  BY <1>6, <1>7, <1>8, BlockNumber DEF d, D
<1>10. b # o
  BY <1>2, <1>6, <1>8 DEF n
<1>11. ASSUME NEW x \in OffsetsOf(s), EnclosingBlock(x, s + 1) = EnclosingBlock(o, s + 1)
       PROVE  x = o \/ x = b
  <2> DEFINE i == x \div d
  <2>1. i \in 0..(k - 1) /\ x = d * i /\ EnclosingBlock(x, s + 1) = D * (i \div 2)
    BY BlockNumber DEF d, D, k
  <2> HIDE DEF i
  <2>2. D * (i \div 2) = D * q
    BY <1>2, <1>4, <1>11, <2>1
  <2>3. PICK j \in Nat, t \in Nat : j = i \div 2 /\ t = i % 2 /\ t < 2 /\ i = 2 * j + t
    <3>1. i \in Nat
      BY <1>1, <2>1
    <3> QED BY <3>1
  <2>4. j = q
    <3>1. D * j = D * q
      BY <2>2, <2>3
    <3>2. CASE j < q
      <4>1. D * (j + 1) <= D * q
        BY <1>1, <1>4, <2>3, <3>2
      <4>2. D * (j + 1) = D * j + D
        BY <1>1, <2>3
      <4>3. D * j \in Nat
        BY <1>1, <2>3
      <4> QED BY <1>1, <3>1, <4>1, <4>2, <4>3
    <3>3. CASE q < j
      <4>1. D * (q + 1) <= D * j
        BY <1>1, <1>4, <2>3, <3>3
      <4>2. D * (q + 1) = D * q + D
        BY <1>1, <1>4
      <4>3. D * q \in Nat
        BY <1>1, <1>4
      <4> QED BY <1>1, <3>1, <4>1, <4>2, <4>3
    <3> QED BY <1>4, <2>3, <3>2, <3>3
  <2>5. i = n \/ i = m
    BY <1>4, <1>5, <2>3, <2>4
  <2> QED BY <1>2, <1>7, <2>1, <2>5
<1>12. EnclosingBlock(o, s + 1) = D * q
  BY <1>2, <1>4
<1> QED BY <1>7, <1>9, <1>10, <1>11, <1>12 DEF b

\* Every block of every class has a bit of its own.
LEMMA BitFacts ==
  ASSUME NEW s \in SizeClass, NEW o \in OffsetsOf(s)
  PROVE  /\ get_bitmap_index(o, s) \in BitIndex
         /\ \A t \in SizeClass : \A x \in OffsetsOf(t) :
              get_bitmap_index(x, t) = get_bitmap_index(o, s) => t = s /\ x = o
<1>1. TopClass \in Nat /\ SizeClass = 0..TopClass /\ get_num_sizeclasses = TopClass + 1
  BY ClassFacts
<1>2. ASSUME NEW t \in SizeClass, NEW x \in OffsetsOf(t)
      PROVE  /\ x \div get_size(t) \in 0..(Count(t) - 1)
             /\ x = get_size(t) * (x \div get_size(t))
             /\ get_bitmap_index(x, t) = Count(t) - 1 + x \div get_size(t)
             /\ Count(t) \in Nat \ {0}
  <2>1. get_num_sizeclasses - (t + 1) = TopClass - t
    BY <1>1
  <2>2. get_bitmap_index(x, t) = Count(t) - 1 + x \div get_size(t)
    BY <2>1 DEF get_bitmap_index, Count
  <2> QED BY <2>2, BlockNumber, OffsetFacts
<1>3. ASSUME NEW t \in SizeClass, NEW u \in SizeClass, t < u PROVE 2 * Count(u) <= Count(t)
  <2>1. TopClass - u \in Nat /\ TopClass - t \in Nat /\ TopClass - u < TopClass - t
    BY <1>1, <1>3
  <2> QED BY <2>1, Pow2Grows DEF Count
<1>4. get_bitmap_index(o, s) \in BitIndex
  <2>1. TopClass + 1 \in Nat /\ TopClass - s \in Nat /\ TopClass - s < TopClass + 1
    BY <1>1
  <2>2. 2 * Count(s) <= pow2[get_num_sizeclasses] /\ pow2[get_num_sizeclasses] \in Nat
    BY <1>1, <2>1, Pow2Grows, Pow2Facts DEF Count
  <2> DEFINE n == o \div get_size(s)
  <2>3. n \in 0..(Count(s) - 1) /\ get_bitmap_index(o, s) = Count(s) - 1 + n
        /\ Count(s) \in Nat \ {0}
    BY <1>2
  <2> HIDE DEF n
  <2>4. Count(s) - 1 + n \in 0..(pow2[get_num_sizeclasses] - 2)
    BY <2>2, <2>3
  <2> QED BY <2>3, <2>4 DEF BitIndex
<1>5. ASSUME NEW t \in SizeClass, NEW x \in OffsetsOf(t),
             get_bitmap_index(x, t) = get_bitmap_index(o, s)
      PROVE  t = s /\ x = o
  <2> DEFINE n == o \div get_size(s)
             i == x \div get_size(t)
             a == Count(s)
             c == Count(t)
  <2>1. /\ n \in 0..(a - 1) /\ o = get_size(s) * n /\ a \in Nat \ {0}
        /\ i \in 0..(c - 1) /\ x = get_size(t) * i /\ c \in Nat \ {0}
        /\ a - 1 + n = c - 1 + i
    BY <1>2, <1>5
  <2>2. /\ t < s => 2 * a <= c
        /\ s < t => 2 * c <= a
    BY <1>3
  <2> HIDE DEF n, i, a, c
  <2>3. ~(t < s) /\ ~(s < t)
    BY <2>1, <2>2
  <2>4. t = s
    BY <1>1, <2>3
  <2>5. n = i
    BY <2>1, <2>4 DEF a, c
  <2> QED BY <2>1, <2>4, <2>5
<1> QED BY <1>4, <1>5
-----------------------------------------------------------------------------
(* One chunk: B are the bits that are 1, W the <<offset, class>> handed out *)

Used(B, o, s) == get_bitmap_index(o, s) \in B

\* A block that is split is in use, but not handed out.
Split(B, W, o, s) == Used(B, o, s) /\ <<o, s>> \notin W

\* A free block is on the list of its class when the one it is half of is split.
Linked(B, W, o, s) ==
  /\ ~Used(B, o, s)
  /\ s # TopClass => Split(B, W, EnclosingBlock(o, s + 1), s + 1)

\* Blocks in use are inside split blocks only; what is handed out is in use;
\* and of a split block one half is in use, else the halves had been merged.
Tree(B, W) ==
  /\ \A o, s : <<o, s>> \in W => s \in SizeClass /\ o \in OffsetsOf(s) /\ Used(B, o, s)
  /\ \A s \in SizeClass : \A o \in OffsetsOf(s) :
       Used(B, o, s) /\ s # TopClass => Split(B, W, EnclosingBlock(o, s + 1), s + 1)
  /\ \A s \in SizeClass : \A o \in OffsetsOf(s) :
       Split(B, W, o, s) =>
         /\ s # 0
         /\ \E h \in OffsetsOf(s - 1) : EnclosingBlock(h, s) = o /\ Used(B, h, s - 1)

\* The class above and the class below.
LEMMA Neighbours ==
  /\ TopClass \in Nat /\ SizeClass = 0..TopClass
  /\ \A s \in SizeClass : s # TopClass => s + 1 \in SizeClass /\ s + 1 - 1 = s
  /\ \A s \in SizeClass : s # 0 => s - 1 \in SizeClass /\ s - 1 # TopClass /\ (s - 1) + 1 = s
BY ClassFacts

\* All blocks around a block in use are split.
LEMMA Ascend ==
  ASSUME NEW B, NEW W, Tree(B, W),
         NEW s \in SizeClass, NEW o \in OffsetsOf(s), Used(B, o, s),
         NEW t \in SizeClass, s < t
  PROVE  Split(B, W, EnclosingBlock(o, t), t)
<1> DEFINE Bad == {u \in (s + 1)..TopClass : ~Split(B, W, EnclosingBlock(o, u), u)}
<1>1. TopClass \in Nat /\ SizeClass = 0..TopClass /\ t \in (s + 1)..TopClass
  BY Neighbours
<1>2. o \in Units
  BY EnclosesItself
<1> SUFFICES ASSUME Bad # {} PROVE FALSE
  BY <1>1
<1>3. PICK u \in Bad : \A v \in Bad : u <= v
  <2>1. Bad \subseteq Nat
    BY <1>1
  <2> QED BY <2>1, LeastElement
<1>4. u \in SizeClass /\ u - 1 \in SizeClass /\ u - 1 # TopClass /\ (u - 1) + 1 = u /\ s <= u - 1
  BY <1>1
<1> DEFINE x == EnclosingBlock(o, u - 1)
<1>5. x \in OffsetsOf(u - 1)
  BY <1>2, <1>4, EnclosingFacts
<1>6. Used(B, x, u - 1)
  <2>1. CASE u - 1 = s
    BY <2>1, EnclosesItself
  <2>2. CASE u - 1 # s
    <3>1. u - 1 \in (s + 1)..TopClass /\ u - 1 \notin Bad
      BY <1>1, <1>3, <1>4, <2>2
    <3> QED BY <3>1 DEF Split
  <2> QED BY <2>1, <2>2
<1>7. EnclosingBlock(x, u) = EnclosingBlock(o, u)
  BY <1>2, <1>4, EnclosingUp
<1>8. Split(B, W, EnclosingBlock(x, (u - 1) + 1), (u - 1) + 1)
  BY <1>4, <1>5, <1>6 DEF Tree
<1>9. Split(B, W, EnclosingBlock(o, u), u)
  BY <1>4, <1>7, <1>8
<1> QED BY <1>9

\* Nothing inside a free block or a block handed out is in use or handed out.
LEMMA Descend ==
  ASSUME NEW B, NEW W, Tree(B, W),
         NEW s \in SizeClass, NEW x \in OffsetsOf(s), NEW t \in SizeClass, s < t,
         ~Split(B, W, EnclosingBlock(x, t), t)
  PROVE  ~Used(B, x, s) /\ <<x, s>> \notin W
<1>1. ~Used(B, x, s)
  BY Ascend
<1> QED BY <1>1 DEF Tree

\* C is B with the blocks that start at o, from class a to class l, in use.
Marked(B, C, o, a, l) == C = B \cup {get_bitmap_index(o, u) : u \in a..l}

\* C is B with the blocks around o, from class a to class t, free.
Unmarked(B, C, o, a, t) == C = B \ {get_bitmap_index(EnclosingBlock(o, u), u) : u \in a..t}

\* V is W with the block o of class a handed out, or given back.
Gets(W, V, o, a) == V = W \cup {<<o, a>>}
Gives(W, V, o, a) == V = W \ {<<o, a>>}

\* Marking the blocks that start at o, from class a to class l, as in use.
LEMMA MarkUsed ==
  ASSUME NEW B, NEW a \in SizeClass, NEW l \in SizeClass, NEW o \in OffsetsOf(l),
         NEW C, Marked(B, C, o, a, l),
         NEW s \in SizeClass, NEW x \in OffsetsOf(s)
  PROVE  Used(C, x, s) <=> Used(B, x, s) \/ (x = o /\ s \in a..l)
<1>1. SizeClass = 0..TopClass /\ TopClass \in Nat
  BY Neighbours
<1>2. ASSUME NEW u \in a..l
      PROVE  u \in SizeClass /\ o \in OffsetsOf(u)
  <2>1. u \in SizeClass /\ u <= l
    BY <1>1, <1>2
  <2> QED BY <2>1, OffsetsNested
<1>3. ASSUME NEW u \in a..l, get_bitmap_index(x, s) = get_bitmap_index(o, u)
      PROVE  x = o /\ s = u
  BY <1>2, <1>3, BitFacts
<1> QED BY <1>3 DEF Used, Marked

\* Marking the blocks around o, from class a to class t, as free.
LEMMA MarkFree ==
  ASSUME NEW B, NEW a \in SizeClass, NEW t \in SizeClass, NEW o \in Units,
         NEW C, Unmarked(B, C, o, a, t),
         NEW s \in SizeClass, NEW x \in OffsetsOf(s)
  PROVE  Used(C, x, s) <=> Used(B, x, s) /\ ~(s \in a..t /\ x = EnclosingBlock(o, s))
<1>1. SizeClass = 0..TopClass /\ TopClass \in Nat
  BY Neighbours
<1>2. ASSUME NEW u \in a..t
      PROVE  u \in SizeClass /\ EnclosingBlock(o, u) \in OffsetsOf(u)
  <2>1. u \in SizeClass
    BY <1>1, <1>2
  <2> QED BY <2>1, EnclosingFacts
<1>3. ASSUME NEW u \in a..t, get_bitmap_index(x, s) = get_bitmap_index(EnclosingBlock(o, u), u)
      PROVE  x = EnclosingBlock(o, u) /\ s = u
  BY <1>2, <1>3, BitFacts
<1> QED BY <1>3 DEF Used, Unmarked

\* What alloc_internal does to a chunk: it takes the free block o of class l,
\* hands out its lower part of class a and links the halves split off.
LEMMA AllocTree ==
  ASSUME NEW B, NEW W, Tree(B, W),
         NEW a \in SizeClass, NEW l \in SizeClass, a <= l,
         NEW o \in OffsetsOf(l), Linked(B, W, o, l),
         NEW C, Marked(B, C, o, a, l),
         NEW V, Gets(W, V, o, a)
  PROVE  /\ Tree(C, V)
         /\ \A s \in SizeClass : \A x \in OffsetsOf(s) :
              /\ Linked(C, V, x, s) <=> \/ Linked(B, W, x, s) /\ ~(x = o /\ s = l)
                                        \/ s \in a..(l - 1) /\ x = get_buddy(o, s)
              /\ s \in a..(l - 1) => ~Linked(B, W, get_buddy(o, s), s)
              /\ Linked(C, V, x, s) => EnclosingBlock(x, a) # o
<1>1. TopClass \in Nat /\ SizeClass = 0..TopClass
  BY Neighbours
<1>2. ASSUME NEW s \in SizeClass, s <= l
      PROVE  o \in OffsetsOf(s) /\ EnclosingBlock(o, s) = o
  <2>1. o \in OffsetsOf(s)
    BY <1>2, OffsetsNested
  <2> QED BY <2>1, EnclosesItself
<1>3. ~Split(B, W, o, l) /\ ~Used(B, o, l)
  BY DEF Linked, Split
<1>4. ASSUME NEW s \in SizeClass, s <= l, NEW x \in OffsetsOf(s), EnclosingBlock(x, l) = o
      PROVE  ~Used(B, x, s) /\ <<x, s>> \notin W
  <2>1. CASE s = l
    <3>1. x = o
      BY <1>4, <2>1, EnclosesItself
    <3> QED BY <1>3, <2>1, <3>1 DEF Tree
  <2>2. CASE s # l
    <3>1. s < l
      BY <1>1, <1>4, <2>2
    <3> QED BY <1>3, <1>4, <3>1, Descend
  <2> QED BY <2>1, <2>2
<1>5. ASSUME NEW s \in SizeClass, s <= l PROVE ~Used(B, o, s) /\ <<o, s>> \notin W
  <2>1. o \in OffsetsOf(s) /\ EnclosingBlock(o, l) = o
    BY <1>1, <1>2, <1>5
  <2> QED BY <1>4, <1>5, <2>1
<1>6. ASSUME NEW s \in SizeClass, NEW x \in OffsetsOf(s)
      PROVE  /\ Used(C, x, s) <=> Used(B, x, s) \/ (x = o /\ s \in a..l)
             /\ Split(C, V, x, s) <=> Split(B, W, x, s) \/ (x = o /\ s \in (a + 1)..l)
  <2>1. Used(C, x, s) <=> Used(B, x, s) \/ (x = o /\ s \in a..l)
    BY MarkUsed
  <2>2. x = o /\ s \in a..l => ~Used(B, x, s) /\ <<x, s>> \notin W
    BY <1>1, <1>5
  <2>3. a \in a..l
    BY <1>1
  <2>4. <<x, s>> \in V <=> <<x, s>> \in W \/ (x = o /\ s = a)
    BY DEF Gets
  <2>5. s \in (a + 1)..l <=> s \in a..l /\ s # a
    BY <1>1
  <2> QED BY <2>1, <2>2, <2>3, <2>4, <2>5 DEF Split
<1>7. ASSUME NEW s \in SizeClass, s # TopClass, NEW x \in OffsetsOf(s)
      PROVE  s + 1 \in SizeClass /\ EnclosingBlock(x, s + 1) \in OffsetsOf(s + 1)
  <2>1. s + 1 \in SizeClass /\ x \in Units
    BY <1>7, Neighbours, EnclosesItself
  <2> QED BY <2>1, EnclosingFacts
<1>8. Tree(C, V)
  <2>1. ASSUME NEW x, NEW s, <<x, s>> \in V
        PROVE  s \in SizeClass /\ x \in OffsetsOf(s) /\ Used(C, x, s)
    <3>1. CASE <<x, s>> \in W
      <4>1. s \in SizeClass /\ x \in OffsetsOf(s) /\ Used(B, x, s)
        BY <3>1 DEF Tree
      <4> QED BY <1>6, <4>1
    <3>2. CASE x = o /\ s = a
      <4>1. a \in a..l /\ o \in OffsetsOf(a)
        BY <1>1, <1>2
      <4> QED BY <1>6, <3>2, <4>1
    <3> QED BY <2>1, <3>1, <3>2 DEF Gets
  <2>2. ASSUME NEW s \in SizeClass, NEW x \in OffsetsOf(s), Used(C, x, s), s # TopClass
        PROVE  Split(C, V, EnclosingBlock(x, s + 1), s + 1)
    <3> DEFINE p == EnclosingBlock(x, s + 1)
    <3>1. s + 1 \in SizeClass /\ p \in OffsetsOf(s + 1)
      BY <1>7, <2>2
    <3>2. CASE Used(B, x, s)
      <4>1. Split(B, W, p, s + 1)
        BY <2>2, <3>2 DEF Tree
      <4> QED BY <1>6, <3>1, <4>1
    <3>3. CASE x = o /\ s \in a..l /\ s # l
      <4>1. s + 1 \in (a + 1)..l /\ s + 1 <= l
        BY <1>1, <3>3
      <4>2. p = o
        BY <1>2, <3>1, <3>3, <4>1
      <4> QED BY <1>6, <3>1, <4>1, <4>2
    <3>4. CASE x = o /\ s = l
      <4>1. Split(B, W, p, s + 1)
        BY <2>2, <3>4 DEF Linked
      <4> QED BY <1>6, <3>1, <4>1
    <3> QED BY <1>6, <2>2, <3>2, <3>3, <3>4
  <2>3. ASSUME NEW s \in SizeClass, NEW x \in OffsetsOf(s), Split(C, V, x, s)
        PROVE  /\ s # 0
               /\ \E h \in OffsetsOf(s - 1) : EnclosingBlock(h, s) = x /\ Used(C, h, s - 1)
    <3>1. CASE Split(B, W, x, s)
      <4>1. s # 0 /\ \E h \in OffsetsOf(s - 1) : EnclosingBlock(h, s) = x /\ Used(B, h, s - 1)
        BY <3>1 DEF Tree
      <4>2. s - 1 \in SizeClass
        BY <4>1, Neighbours
      <4> QED BY <1>6, <4>1, <4>2
    <3>2. CASE x = o /\ s \in (a + 1)..l
      <4>1. s # 0 /\ s - 1 \in SizeClass /\ s - 1 \in a..l /\ s - 1 <= l /\ s <= l
        BY <1>1, <3>2
      <4>2. o \in OffsetsOf(s - 1) /\ EnclosingBlock(o, s) = o
        BY <1>2, <4>1
      <4>3. Used(C, o, s - 1)
        BY <1>6, <4>1, <4>2
      <4> QED BY <3>2, <4>1, <4>2, <4>3
    <3> QED BY <1>6, <2>3, <3>1, <3>2
  <2> QED BY <2>1, <2>2, <2>3 DEF Tree
<1>9. ASSUME NEW s \in a..(l - 1)
      PROVE  /\ s \in SizeClass /\ s # TopClass /\ s + 1 \in SizeClass /\ s + 1 <= l
             /\ get_buddy(o, s) \in OffsetsOf(s) /\ get_buddy(o, s) # o
             /\ EnclosingBlock(get_buddy(o, s), s + 1) = o /\ EnclosingBlock(o, s + 1) = o
             /\ \A x \in OffsetsOf(s) : EnclosingBlock(x, s + 1) = o => x = o \/ x = get_buddy(o, s)
             /\ ~Used(B, get_buddy(o, s), s) /\ ~Used(B, o, s + 1)
  <2> DEFINE b == get_buddy(o, s)
  <2>1. s \in SizeClass /\ s # TopClass /\ s + 1 \in SizeClass /\ s + 1 <= l /\ s <= l
    BY <1>1
  <2>2. o \in OffsetsOf(s) /\ EnclosingBlock(o, s + 1) = o /\ EnclosingBlock(o, l) = o
    BY <1>1, <1>2, <2>1
  <2>3. /\ b \in OffsetsOf(s) /\ b # o
        /\ EnclosingBlock(b, s + 1) = o
        /\ \A x \in OffsetsOf(s) : EnclosingBlock(x, s + 1) = o => x = o \/ x = b
    BY <2>1, <2>2, BuddyFacts
  <2>4. EnclosingBlock(b, l) = o
    <3>1. b \in Units
      BY <2>1, <2>3, EnclosesItself
    <3>2. EnclosingBlock(EnclosingBlock(b, s + 1), l) = EnclosingBlock(b, l)
      BY <2>1, <3>1, EnclosingTwice
    <3> QED BY <2>2, <2>3, <3>2
  <2>5. ~Used(B, b, s)
    BY <1>4, <2>1, <2>3, <2>4
  <2>6. ~Used(B, o, s + 1)
    BY <1>5, <2>1
  <2> QED BY <2>1, <2>2, <2>3, <2>5, <2>6
<1>10. ASSUME NEW s \in SizeClass, NEW x \in OffsetsOf(s)
       PROVE  Linked(C, V, x, s) <=> \/ Linked(B, W, x, s) /\ ~(x = o /\ s = l)
                                     \/ s \in a..(l - 1) /\ x = get_buddy(o, s)
  <2> DEFINE p == EnclosingBlock(x, s + 1)
  <2>1. s # TopClass => s + 1 \in SizeClass /\ p \in OffsetsOf(s + 1)
    BY <1>7
  <2>2. /\ Used(C, x, s) <=> Used(B, x, s) \/ (x = o /\ s \in a..l)
        /\ s # TopClass => (Split(C, V, p, s + 1) <=>
                              Split(B, W, p, s + 1) \/ (p = o /\ s + 1 \in (a + 1)..l))
    BY <1>6, <2>1
  <2>3. s + 1 \in (a + 1)..l <=> s \in a..(l - 1)
    BY <1>1
  <2>4. l \in a..l /\ \A u : u \in a..l <=> u = l \/ u \in a..(l - 1)
    BY <1>1
  <2>5. ASSUME Linked(C, V, x, s)
        PROVE  \/ Linked(B, W, x, s) /\ ~(x = o /\ s = l)
               \/ s \in a..(l - 1) /\ x = get_buddy(o, s)
    <3>1. ~Used(B, x, s) /\ ~(x = o /\ s \in a..l)
      BY <2>2, <2>5 DEF Linked
    <3>2. CASE s = TopClass \/ Split(B, W, p, s + 1)
      BY <2>4, <3>1, <3>2 DEF Linked
    <3>3. CASE p = o /\ s \in a..(l - 1)
      <4>1. x = o \/ x = get_buddy(o, s)
        BY <1>9, <3>3
      <4> QED BY <2>4, <3>1, <3>3, <4>1
    <3> QED BY <2>2, <2>3, <2>5, <3>2, <3>3 DEF Linked
  <2>6. ASSUME Linked(B, W, x, s), ~(x = o /\ s = l) PROVE Linked(C, V, x, s)
    <3>1. ~(x = o /\ s \in a..(l - 1))
      BY <1>9, <2>6 DEF Linked, Split
    <3>2. ~Used(C, x, s)
      BY <2>2, <2>4, <2>6, <3>1 DEF Linked
    <3> QED BY <2>2, <2>6, <3>2 DEF Linked
  <2>7. ASSUME s \in a..(l - 1), x = get_buddy(o, s) PROVE Linked(C, V, x, s)
    <3>1. ~Used(C, x, s)
      BY <1>9, <2>2, <2>7
    <3>2. p = o /\ s + 1 \in (a + 1)..l
      BY <1>9, <2>3, <2>7
    <3> QED BY <2>2, <3>1, <3>2 DEF Linked
  <2> QED BY <2>5, <2>6, <2>7
<1>11. ASSUME NEW s \in a..(l - 1) PROVE ~Linked(B, W, get_buddy(o, s), s)
  BY <1>9 DEF Linked, Split
<1>12. ASSUME NEW s \in SizeClass, NEW x \in OffsetsOf(s), Linked(C, V, x, s),
              EnclosingBlock(x, a) = o
       PROVE  FALSE
  <2>1. /\ ~Used(C, x, s)
        /\ s # TopClass => Split(C, V, EnclosingBlock(x, s + 1), s + 1)
    BY <1>12 DEF Linked
  <2>2. Used(C, o, a) /\ <<o, a>> \in V /\ ~Split(C, V, o, a) /\ o \in OffsetsOf(a)
    <3>1. a \in a..l /\ o \in OffsetsOf(a)
      BY <1>1, <1>2
    <3> QED BY <1>6, <3>1 DEF Split, Gets
  <2>3. x \in Units
    BY EnclosesItself
  <2>4. CASE s + 1 = a
    <3>1. s # TopClass
      BY <1>1, <2>4
    <3> QED BY <1>12, <2>1, <2>2, <2>4, <3>1
  <2>5. CASE s + 1 < a
    <3> DEFINE p == EnclosingBlock(x, s + 1)
    <3>1. s # TopClass /\ s + 1 \in SizeClass
      BY <1>1, <2>5
    <3>2. p \in OffsetsOf(s + 1) /\ EnclosingBlock(p, a) = o
      BY <1>1, <1>12, <2>3, <2>5, <3>1, EnclosingFacts, EnclosingTwice
    <3>3. ~Used(C, p, s + 1)
      BY <1>8, <2>2, <2>5, <3>1, <3>2, Descend
    <3> QED BY <2>1, <3>1, <3>3 DEF Split
  <2>6. CASE s = a
    BY <1>12, <2>1, <2>2, <2>6, EnclosesItself
  <2>7. CASE a < s
    <3>1. a <= s
      BY <1>1, <2>7
    <3>2. x \in OffsetsOf(a)
      BY <3>1, OffsetsNested
    <3>3. x = o
      BY <1>12, <3>2, EnclosesItself
    <3>4. Split(C, V, EnclosingBlock(o, s), s)
      BY <1>8, <2>2, <2>7, Ascend
    <3> QED BY <2>1, <3>3, <3>4, EnclosesItself DEF Split
  <2>8. s + 1 = a \/ s + 1 < a \/ s = a \/ a < s
    BY <1>1
  <2> QED BY <2>4, <2>5, <2>6, <2>7, <2>8
<1> QED BY <1>8, <1>10, <1>11, <1>12

\* The path from a block to the top, and the halves beside it.
LEMMA PathFacts ==
  ASSUME NEW o \in Units, NEW s \in SizeClass, s # TopClass
  PROVE  LET e == EnclosingBlock(o, s) IN
         /\ s + 1 \in SizeClass
         /\ e \in OffsetsOf(s) /\ EnclosingBlock(o, s + 1) \in OffsetsOf(s + 1)
         /\ EnclosingBlock(e, s + 1) = EnclosingBlock(o, s + 1)
         /\ get_buddy(e, s) \in OffsetsOf(s) /\ get_buddy(e, s) # e
         /\ EnclosingBlock(get_buddy(e, s), s + 1) = EnclosingBlock(o, s + 1)
         /\ \A x \in OffsetsOf(s) : EnclosingBlock(x, s + 1) = EnclosingBlock(o, s + 1)
                                      => x = e \/ x = get_buddy(e, s)
<1> DEFINE e == EnclosingBlock(o, s)
<1>1. s + 1 \in SizeClass
  BY Neighbours
<1>2. e \in OffsetsOf(s) /\ EnclosingBlock(o, s + 1) \in OffsetsOf(s + 1)
  BY <1>1, EnclosingFacts
<1>3. EnclosingBlock(e, s + 1) = EnclosingBlock(o, s + 1)
  BY EnclosingUp
<1>4. /\ get_buddy(e, s) \in OffsetsOf(s) /\ get_buddy(e, s) # e
      /\ EnclosingBlock(get_buddy(e, s), s + 1) = EnclosingBlock(e, s + 1)
      /\ \A x \in OffsetsOf(s) : EnclosingBlock(x, s + 1) = EnclosingBlock(e, s + 1)
                                   => x = e \/ x = get_buddy(e, s)
  BY <1>2, BuddyFacts
<1> QED BY <1>1, <1>2, <1>3, <1>4

\* free_internal merges the block o of class a up to class t: every buddy on
\* the way is free, and the one it stops at is not.
MergesUpTo(B, o, a, t) ==
  /\ \A s \in a..(t - 1) : ~Used(B, get_buddy(EnclosingBlock(o, s), s), s)
  /\ t # TopClass => Used(B, get_buddy(EnclosingBlock(o, t), t), t)

\* What free_internal does to a chunk: it unlinks the buddies it merges with
\* and links the block it ends with.
LEMMA FreeTree ==
  ASSUME NEW B, NEW W, Tree(B, W),
         NEW a \in SizeClass, NEW t \in SizeClass, a <= t,
         NEW o, <<o, a>> \in W, MergesUpTo(B, o, a, t),
         NEW C, Unmarked(B, C, o, a, t),
         NEW V, Gives(W, V, o, a)
  PROVE  /\ Tree(C, V)
         /\ ~Linked(B, W, EnclosingBlock(o, t), t)
         /\ ~Used(C, EnclosingBlock(o, t), t)
         /\ \A s \in a..(t - 1) : Linked(B, W, get_buddy(EnclosingBlock(o, s), s), s)
         /\ \A s \in SizeClass : \A x \in OffsetsOf(s) :
              Linked(C, V, x, s) <=>
                \/ Linked(B, W, x, s) /\ ~(s \in a..(t - 1) /\ x = get_buddy(EnclosingBlock(o, s), s))
                \/ s = t /\ x = EnclosingBlock(o, t)
<1> DEFINE e(s) == EnclosingBlock(o, s)
           b(s) == get_buddy(e(s), s)
<1>1. TopClass \in Nat /\ SizeClass = 0..TopClass
  BY Neighbours
<1>2. o \in OffsetsOf(a) /\ o \in Units /\ e(a) = o /\ Used(B, o, a) /\ ~Split(B, W, o, a)
  BY EnclosesItself DEF Tree, Split
<1>3. ASSUME NEW s \in SizeClass
      PROVE  /\ e(s) \in OffsetsOf(s)
             /\ a < s => Split(B, W, e(s), s)
             /\ a <= s => Used(B, e(s), s)
  <2>1. e(s) \in OffsetsOf(s)
    BY <1>2, EnclosingFacts
  <2>2. a < s => Split(B, W, e(s), s)
    BY <1>2, Ascend
  <2>3. a = s => Used(B, e(s), s)
    BY <1>2
  <2>4. a <= s <=> a = s \/ a < s
    BY <1>1
  <2> QED BY <2>1, <2>2, <2>3, <2>4 DEF Split
<1>4. ASSUME NEW s \in SizeClass, s # TopClass
      PROVE  /\ s + 1 \in SizeClass
             /\ e(s) \in OffsetsOf(s) /\ e(s + 1) \in OffsetsOf(s + 1)
             /\ EnclosingBlock(e(s), s + 1) = e(s + 1)
             /\ b(s) \in OffsetsOf(s) /\ b(s) # e(s) /\ EnclosingBlock(b(s), s + 1) = e(s + 1)
             /\ \A x \in OffsetsOf(s) :
                  /\ EnclosingBlock(x, s + 1) \in OffsetsOf(s + 1)
                  /\ EnclosingBlock(x, s + 1) = e(s + 1) => x = e(s) \/ x = b(s)
  <2>1. ASSUME NEW x \in OffsetsOf(s) PROVE EnclosingBlock(x, s + 1) \in OffsetsOf(s + 1)
    BY <1>4, Neighbours, EnclosesItself, EnclosingFacts
  <2> QED BY <1>2, <1>4, <2>1, PathFacts
<1>5. /\ \A u : u \in a..t <=> u = t \/ u \in a..(t - 1)
      /\ \A u : u \in a..t <=> u = a \/ u \in (a + 1)..t
      /\ \A u \in SizeClass : u + 1 \in (a + 1)..t <=> u \in a..(t - 1)
      /\ \A u \in SizeClass : u \in a..t => u + 1 \in (a + 1)..t \/ u = t
      /\ \A u \in (a + 1)..t : u \in SizeClass /\ a < u
      /\ \A u \in a..(t - 1) : u \in SizeClass /\ u # TopClass /\ a < u + 1
      /\ a \in a..t /\ t \in a..t /\ t + 1 \notin (a + 1)..t /\ a < t + 1
  BY <1>1
<1>6. ASSUME NEW s \in SizeClass, NEW x \in OffsetsOf(s)
      PROVE  /\ Used(C, x, s) <=> Used(B, x, s) /\ ~(s \in a..t /\ x = e(s))
             /\ Split(C, V, x, s) <=> Split(B, W, x, s) /\ ~(s \in (a + 1)..t /\ x = e(s))
  <2>1. Used(C, x, s) <=> Used(B, x, s) /\ ~(s \in a..t /\ x = e(s))
    BY <1>2, MarkFree
  <2>2. <<x, s>> \in V <=> <<x, s>> \in W /\ ~(x = o /\ s = a)
    BY DEF Gives
  <2>3. CASE x = o /\ s = a
    BY <1>2, <1>5, <2>1, <2>3 DEF Split
  <2>4. CASE ~(x = o /\ s = a)
    <3>1. s \in a..t /\ x = e(s) <=> s \in (a + 1)..t /\ x = e(s)
      BY <1>2, <1>5, <2>4
    <3> QED BY <2>1, <2>2, <2>4, <3>1 DEF Split
  <2> QED BY <2>1, <2>3, <2>4
<1>7. ASSUME NEW s \in a..(t - 1) PROVE ~Used(B, b(s), s) /\ Linked(B, W, b(s), s)
  <2>1. s \in SizeClass /\ s # TopClass /\ a < s + 1
    BY <1>5
  <2>2. ~Used(B, b(s), s)
    BY DEF MergesUpTo
  <2>3. Split(B, W, e(s + 1), s + 1) /\ EnclosingBlock(b(s), s + 1) = e(s + 1)
    BY <1>3, <1>4, <2>1
  <2> QED BY <2>2, <2>3 DEF Linked
<1>8. Tree(C, V)
  <2>1. ASSUME NEW x, NEW s, <<x, s>> \in V
        PROVE  s \in SizeClass /\ x \in OffsetsOf(s) /\ Used(C, x, s)
    <3>1. <<x, s>> \in W /\ ~(x = o /\ s = a)
      BY <2>1 DEF Gives
    <3>2. s \in SizeClass /\ x \in OffsetsOf(s) /\ Used(B, x, s)
      BY <3>1 DEF Tree
    <3>3. ~(s \in a..t /\ x = e(s))
      BY <1>2, <1>3, <1>5, <3>1 DEF Split
    <3> QED BY <1>6, <3>2, <3>3
  <2>2. ASSUME NEW s \in SizeClass, NEW x \in OffsetsOf(s), Used(C, x, s), s # TopClass
        PROVE  Split(C, V, EnclosingBlock(x, s + 1), s + 1)
    <3> DEFINE p == EnclosingBlock(x, s + 1)
    <3>1. s + 1 \in SizeClass /\ p \in OffsetsOf(s + 1)
      BY <1>4, <2>2
    <3>2. Used(B, x, s) /\ ~(s \in a..t /\ x = e(s))
      BY <1>6, <2>2
    <3>3. Split(B, W, p, s + 1)
      BY <2>2, <3>2 DEF Tree
    <3>4. ASSUME s + 1 \in (a + 1)..t, p = e(s + 1) PROVE FALSE
      <4>1. s \in a..(t - 1) /\ s \in a..t
        BY <1>5, <3>4
      <4>2. x = b(s)
        BY <1>4, <2>2, <3>2, <3>4, <4>1
      <4> QED BY <1>7, <3>2, <4>1, <4>2
    <3> QED BY <1>6, <3>1, <3>3, <3>4
  <2>3. ASSUME NEW s \in SizeClass, NEW x \in OffsetsOf(s), Split(C, V, x, s)
        PROVE  /\ s # 0
               /\ \E h \in OffsetsOf(s - 1) : EnclosingBlock(h, s) = x /\ Used(C, h, s - 1)
    <3>1. Split(B, W, x, s) /\ ~(s \in (a + 1)..t /\ x = e(s))
      BY <1>6, <2>3
    <3>2. s # 0 /\ \E h \in OffsetsOf(s - 1) : EnclosingBlock(h, s) = x /\ Used(B, h, s - 1)
      BY <3>1 DEF Tree
    <3>3. PICK h \in OffsetsOf(s - 1) : EnclosingBlock(h, s) = x /\ Used(B, h, s - 1)
      BY <3>2
    <3>4. s - 1 \in SizeClass /\ s - 1 # TopClass /\ (s - 1) + 1 = s
      BY <3>2, Neighbours
    <3>5. CASE ~(s - 1 \in a..t /\ h = e(s - 1))
      <4>1. Used(C, h, s - 1)
        BY <1>6, <3>3, <3>4, <3>5
      <4> QED BY <3>2, <3>3, <4>1
    <3>6. CASE s - 1 \in a..t /\ h = e(s - 1)
      <4>1. x = e(s)
        BY <1>4, <3>3, <3>4, <3>6
      <4>2. s - 1 = t
        BY <1>5, <3>1, <3>4, <3>6, <4>1
      <4>3. Used(B, b(t), t) /\ b(t) # e(t) /\ b(t) \in OffsetsOf(t)
            /\ EnclosingBlock(b(t), t + 1) = e(t + 1)
        BY <1>4, <3>4, <4>2 DEF MergesUpTo
      <4>4. Used(C, b(t), t)
        BY <1>6, <4>3
      <4> QED BY <3>2, <3>4, <4>1, <4>2, <4>3, <4>4
    <3> QED BY <3>5, <3>6
  <2> QED BY <2>1, <2>2, <2>3 DEF Tree
<1>9. ~Linked(B, W, e(t), t)
  BY <1>3 DEF Linked
<1>10. ~Used(C, e(t), t)
  BY <1>3, <1>5, <1>6
<1>11. ASSUME NEW s \in SizeClass, NEW x \in OffsetsOf(s)
       PROVE  Linked(C, V, x, s) <=> \/ Linked(B, W, x, s) /\ ~(s \in a..(t - 1) /\ x = b(s))
                                     \/ s = t /\ x = e(t)
  <2> DEFINE p == EnclosingBlock(x, s + 1)
  <2>1. s # TopClass =>
          (Split(C, V, p, s + 1) <=> Split(B, W, p, s + 1) /\ ~(s \in a..(t - 1) /\ p = e(s + 1)))
    BY <1>4, <1>5, <1>6
  <2>2. Used(C, x, s) <=> Used(B, x, s) /\ ~(s \in a..t /\ x = e(s))
    BY <1>6
  <2>3. s \in a..(t - 1) => /\ s # TopClass
                            /\ p = e(s + 1) <=> x = e(s) \/ x = b(s)
    BY <1>4, <1>5
  <2>4. ASSUME Linked(C, V, x, s)
        PROVE  \/ Linked(B, W, x, s) /\ ~(s \in a..(t - 1) /\ x = b(s))
               \/ s = t /\ x = e(t)
    <3>1. ~Used(C, x, s) /\ (s # TopClass => Split(C, V, p, s + 1))
      BY <2>4 DEF Linked
    <3>2. ~(s \in a..(t - 1) /\ (x = e(s) \/ x = b(s)))
      BY <2>1, <2>3, <3>1
    <3>3. CASE Used(B, x, s)
      BY <1>5, <2>2, <3>1, <3>2, <3>3
    <3>4. CASE ~Used(B, x, s)
      BY <2>1, <3>1, <3>2, <3>4 DEF Linked
    <3> QED BY <3>3, <3>4
  <2>5. ASSUME Linked(B, W, x, s), ~(s \in a..(t - 1) /\ x = b(s)) PROVE Linked(C, V, x, s)
    <3>1. ~Used(B, x, s) /\ (s # TopClass => Split(B, W, p, s + 1))
      BY <2>5 DEF Linked
    <3>2. s \in a..(t - 1) => x # e(s)
      BY <1>3, <1>5, <3>1
    <3> QED BY <2>1, <2>2, <2>3, <2>5, <3>1, <3>2 DEF Linked
  <2>6. ASSUME s = t, x = e(t) PROVE Linked(C, V, x, s)
    <3>1. t # TopClass => Split(B, W, e(t + 1), t + 1) /\ p = e(t + 1)
      BY <1>3, <1>4, <1>5, <2>6
    <3>2. t \notin a..(t - 1)
      BY <1>1
    <3> QED BY <1>10, <2>1, <2>6, <3>1, <3>2 DEF Linked
  <2> QED BY <2>4, <2>5, <2>6
<1> QED BY <1>7, <1>8, <1>9, <1>10, <1>11

\* A chunk has one block of the top class.
LEMMA TopBlock ==
  /\ TopClass \in SizeClass /\ 0 \in OffsetsOf(TopClass)
  /\ \A x \in Units : EnclosingBlock(x, TopClass) = 0
  /\ \A x \in OffsetsOf(TopClass) : x = 0
<1>1. TopClass \in SizeClass /\ get_size(TopClass) = PageSize
  BY ClassFacts
<1>2. /\ get_size(TopClass) \in Nat \ {0} /\ Count(TopClass) \in Nat \ {0}
      /\ PageSize = get_size(TopClass) * Count(TopClass)
      /\ \A o : o \in OffsetsOf(TopClass) <=> \E i \in 0..(Count(TopClass) - 1) : o = get_size(TopClass) * i
  BY <1>1, OffsetFacts
<1>3. Count(TopClass) = 1
  <2>1. \A p, k \in Nat \ {0} : p = p * k => k = 1
    OBVIOUS
  <2> QED BY <1>1, <1>2, <2>1
<1>4. get_size(TopClass) * 0 = 0
  BY <1>2
<1>5. \A x \in OffsetsOf(TopClass) : x = 0
  <2> SUFFICES ASSUME NEW x \in OffsetsOf(TopClass) PROVE x = 0
    OBVIOUS
  <2>1. PICK i \in 0..(Count(TopClass) - 1) : x = get_size(TopClass) * i
    BY <1>2
  <2>2. i = 0
    BY <1>3
  <2> QED BY <1>4, <2>1, <2>2
<1>6. 0 \in OffsetsOf(TopClass)
  <2>1. 0 \in 0..(Count(TopClass) - 1)
    BY <1>3
  <2> QED BY <1>2, <1>4, <2>1
<1>7. \A x \in Units : EnclosingBlock(x, TopClass) = 0
  BY <1>1, <1>5, EnclosingFacts
<1> QED BY <1>1, <1>5, <1>6, <1>7

\* A new chunk is one free block (alloc_chunk).
LEMMA NewTree ==
  /\ Tree({}, {})
  /\ \A s \in SizeClass : \A x \in OffsetsOf(s) : Linked({}, {}, x, s) <=> s = TopClass
BY DEF Tree, Linked, Split, Used

\* A chunk whose top block is free has nothing in use (free_chunk).
LEMMA WholeTree ==
  ASSUME NEW B, NEW W, Tree(B, W), ~Used(B, 0, TopClass)
  PROVE  /\ \A o, s : <<o, s>> \notin W
         /\ \A s \in SizeClass : \A x \in OffsetsOf(s) : ~Used(B, x, s)
         /\ \A s \in SizeClass : \A x \in OffsetsOf(s) : Linked(B, W, x, s) <=> s = TopClass
<1>1. ASSUME NEW s \in SizeClass, NEW x \in OffsetsOf(s) PROVE ~Used(B, x, s)
  <2>1. CASE s = TopClass
    BY <2>1, TopBlock
  <2>2. CASE s # TopClass
    <3>1. s < TopClass /\ TopClass \in SizeClass
      BY <2>2, Neighbours
    <3>2. EnclosingBlock(x, TopClass) = 0
      BY TopBlock, EnclosesItself
    <3> QED BY <3>1, <3>2, Ascend DEF Split
  <2> QED BY <2>1, <2>2
<1>2. \A o, s : <<o, s>> \notin W
  BY <1>1 DEF Tree
<1>3. ASSUME NEW s \in SizeClass, NEW x \in OffsetsOf(s)
      PROVE  Linked(B, W, x, s) <=> s = TopClass
  <2>1. s # TopClass => s + 1 \in SizeClass /\ EnclosingBlock(x, s + 1) \in OffsetsOf(s + 1)
    BY Neighbours, EnclosesItself, EnclosingFacts
  <2> QED BY <1>1, <2>1 DEF Linked, Split
<1> QED BY <1>1, <1>2, <1>3

\* A block that is free and linked, or handed out.
Block(B, W, o, s) == Linked(B, W, o, s) \/ <<o, s>> \in W

\* Every cell of a chunk is in exactly one block.
LEMMA TreeTiles ==
  ASSUME NEW B, NEW W, Tree(B, W), NEW u \in Units
  PROVE  \E s \in SizeClass :
           /\ Block(B, W, EnclosingBlock(u, s), s)
           /\ ~(Linked(B, W, EnclosingBlock(u, s), s) /\ <<EnclosingBlock(u, s), s>> \in W)
           /\ \A r \in SizeClass : Block(B, W, EnclosingBlock(u, r), r) => r = s
<1> DEFINE e(s) == EnclosingBlock(u, s)
           InUse == {s \in SizeClass : Used(B, e(s), s)}
<1>1. TopClass \in Nat /\ SizeClass = 0..TopClass /\ TopClass \in SizeClass
  BY Neighbours
<1>2. \A s \in SizeClass : e(s) \in OffsetsOf(s)
  BY EnclosingFacts
<1>3. \A s \in SizeClass : s # TopClass => s + 1 \in SizeClass /\ EnclosingBlock(e(s), s + 1) = e(s + 1)
  BY Neighbours, EnclosingUp
<1>4. \A s, t \in SizeClass : s < t => EnclosingBlock(e(s), t) = e(t)
  BY <1>1, EnclosingTwice
<1>5. \A s, t \in SizeClass : Used(B, e(s), s) /\ s < t => Split(B, W, e(t), t)
  BY <1>2, <1>4, Ascend
<1>6. \E s \in SizeClass : Block(B, W, e(s), s)
  <2>1. CASE InUse = {}
    <3>1. Linked(B, W, e(TopClass), TopClass)
      BY <1>1, <2>1 DEF Linked
    <3> QED BY <1>1, <3>1 DEF Block
  <2>2. CASE InUse # {}
    <3>1. PICK t \in InUse : \A r \in InUse : t <= r
      <4>1. InUse \subseteq Nat
        BY <1>1
      <4> QED BY <2>2, <4>1, LeastElement
    <3>2. CASE <<e(t), t>> \in W
      BY <3>2 DEF Block
    <3>3. CASE <<e(t), t>> \notin W
      <4>1. Split(B, W, e(t), t)
        BY <3>1, <3>3 DEF Split
      <4>2. t # 0
        BY <1>2, <4>1 DEF Tree
      <4>3. t - 1 \in SizeClass /\ t - 1 # TopClass /\ (t - 1) + 1 = t /\ t - 1 < t
        BY <1>1, <4>2
      <4>4. ~Used(B, e(t - 1), t - 1)
        BY <1>1, <3>1, <4>3
      <4>5. EnclosingBlock(e(t - 1), t) = e(t)
        BY <1>3, <4>3
      <4>6. Linked(B, W, e(t - 1), t - 1)
        BY <4>1, <4>3, <4>4, <4>5 DEF Linked
      <4> QED BY <4>3, <4>6 DEF Block
    <3> QED BY <3>2, <3>3
  <2> QED BY <2>1, <2>2
<1>7. ASSUME NEW s \in SizeClass, NEW r \in SizeClass, s < r,
             Block(B, W, e(s), s), Block(B, W, e(r), r)
      PROVE  FALSE
  <2>1. s # TopClass /\ s + 1 \in SizeClass /\ (s + 1 = r \/ s + 1 < r)
    BY <1>1, <1>7
  <2>2. Split(B, W, e(s + 1), s + 1)
    <3>1. CASE Linked(B, W, e(s), s)
      BY <1>3, <2>1, <3>1 DEF Linked
    <3>2. CASE <<e(s), s>> \in W
      <4>1. Used(B, e(s), s)
        BY <3>2 DEF Tree
      <4>2. s < s + 1
        BY <1>1
      <4> QED BY <1>5, <2>1, <4>1, <4>2
    <3> QED BY <1>7, <3>1, <3>2 DEF Block
  <2>3. Split(B, W, e(r), r)
    BY <1>5, <2>1, <2>2 DEF Split
  <2> QED BY <1>7, <2>3 DEF Block, Linked, Split
<1>8. ASSUME NEW s \in SizeClass PROVE ~(Linked(B, W, e(s), s) /\ <<e(s), s>> \in W)
  BY DEF Tree, Linked
<1>9. PICK s \in SizeClass : Block(B, W, e(s), s)
  BY <1>6
<1>10. \A r \in SizeClass : Block(B, W, e(r), r) => r = s
  <2> SUFFICES ASSUME NEW r \in SizeClass, Block(B, W, e(r), r) PROVE r = s
    OBVIOUS
  <2>1. r < s \/ r = s \/ s < r
    BY <1>1
  <2> QED BY <1>7, <1>9, <2>1
<1> QED BY <1>8, <1>9, <1>10

\* What is in use has, inside it, a block handed out.
LEMMA UsedHasLeaf ==
  ASSUME NEW B, NEW W, Tree(B, W), NEW s \in SizeClass, NEW o \in OffsetsOf(s), Used(B, o, s)
  PROVE  \E t \in SizeClass : \E h \in OffsetsOf(t) :
           t <= s /\ <<h, t>> \in W /\ EnclosingBlock(h, s) = o
<1>1. TopClass \in Nat /\ SizeClass = 0..TopClass /\ o \in Units /\ EnclosingBlock(o, s) = o
  BY Neighbours, EnclosesItself
<1> DEFINE InUse == {t \in 0..s : \E h \in OffsetsOf(t) : EnclosingBlock(h, s) = o /\ Used(B, h, t)}
<1>2. s \in InUse
  BY <1>1
<1>3. PICK t \in InUse : \A r \in InUse : t <= r
  <2>1. InUse \subseteq Nat /\ InUse # {}
    BY <1>2
  <2> QED BY <2>1, LeastElement
<1>4. t \in SizeClass /\ t <= s
  BY <1>1, <1>3
<1>5. PICK h \in OffsetsOf(t) : EnclosingBlock(h, s) = o /\ Used(B, h, t)
  BY <1>3
<1>6. ASSUME <<h, t>> \notin W PROVE FALSE
  <2>1. /\ t # 0
        /\ \E g \in OffsetsOf(t - 1) : EnclosingBlock(g, t) = h /\ Used(B, g, t - 1)
    BY <1>4, <1>5, <1>6 DEF Tree, Split
  <2>2. PICK g \in OffsetsOf(t - 1) : EnclosingBlock(g, t) = h /\ Used(B, g, t - 1)
    BY <2>1
  <2>3. t - 1 \in SizeClass /\ t - 1 \in 0..s /\ (t - 1) + 1 = t /\ ~(t <= t - 1)
    BY <1>1, <1>4, <2>1
  <2>4. EnclosingBlock(g, s) = o
    <3>1. g \in Units
      BY <2>3, EnclosesItself
    <3> QED BY <1>4, <1>5, <2>2, <3>1, EnclosingTwice
  <2>5. t - 1 \in InUse
    BY <2>2, <2>3, <2>4
  <2> QED BY <1>3, <2>3, <2>5
<1> QED BY <1>4, <1>5, <1>6

\* When nothing of a block is handed out, a block at least as large is linked:
\* merging leaves no two free halves apart.
LEMMA FreeFound ==
  ASSUME NEW B, NEW W, Tree(B, W), NEW s \in SizeClass, NEW o \in OffsetsOf(s),
         \A t \in SizeClass : \A x \in OffsetsOf(t) : <<x, t>> \in W =>
           /\ t <= s => EnclosingBlock(x, s) # o
           /\ s <= t => EnclosingBlock(o, t) # x
  PROVE  \E l \in SizeClass : s <= l /\ Linked(B, W, EnclosingBlock(o, l), l)
<1>1. TopClass \in Nat /\ SizeClass = 0..TopClass /\ o \in Units /\ EnclosingBlock(o, s) = o
  BY Neighbours, EnclosesItself
<1>2. ASSUME Used(B, o, s) PROVE FALSE
  <2>1. PICK t \in SizeClass : \E h \in OffsetsOf(t) :
          t <= s /\ <<h, t>> \in W /\ EnclosingBlock(h, s) = o
    BY <1>2, UsedHasLeaf
  <2> QED BY <2>1
<1>3. PICK l \in SizeClass : Block(B, W, EnclosingBlock(o, l), l)
  BY <1>1, TreeTiles
<1> DEFINE e == EnclosingBlock(o, l)
<1>4. e \in OffsetsOf(l)
  BY <1>1, EnclosingFacts
<1>5. CASE s <= l
  BY <1>3, <1>4, <1>5 DEF Block
<1>6. CASE l < s
  <2>1. l # TopClass /\ l + 1 \in SizeClass /\ (l + 1 = s \/ l + 1 < s) /\ l <= s
    BY <1>1, <1>6
  <2>2. EnclosingBlock(e, s) = o
    BY <1>1, <2>1, EnclosingTwice
  <2>3. CASE <<e, l>> \in W
    <3>1. Used(B, e, l)
      BY <2>3 DEF Tree
    <3>2. Split(B, W, o, s)
      BY <1>4, <1>6, <2>2, <3>1, Ascend
    <3> QED BY <1>2, <3>2 DEF Split
  <2>4. CASE Linked(B, W, e, l)
    <3> DEFINE p == EnclosingBlock(e, l + 1)
    <3>1. Used(B, p, l + 1)
      BY <2>1, <2>4 DEF Linked, Split
    <3>2. p \in OffsetsOf(l + 1) /\ EnclosingBlock(p, s) = o
      <4>1. e \in Units
        BY <1>4, EnclosesItself
      <4>2. p \in OffsetsOf(l + 1)
        BY <2>1, <4>1, EnclosingFacts
      <4>3. l + 1 <= s
        BY <1>1, <1>6
      <4>4. EnclosingBlock(p, s) = EnclosingBlock(e, s)
        BY <2>1, <4>1, <4>3, EnclosingTwice
      <4> QED BY <2>2, <4>2, <4>4
    <3>3. Used(B, o, s)
      <4>1. CASE l + 1 = s
        <5>1. EnclosingBlock(p, s) = p
          BY <3>2, <4>1, EnclosesItself
        <5> QED BY <3>1, <3>2, <4>1, <5>1
      <4>2. CASE l + 1 < s
        <5>1. Split(B, W, EnclosingBlock(p, s), s)
          BY <2>1, <3>1, <3>2, <4>2, Ascend
        <5> QED BY <3>2, <5>1 DEF Split
      <4> QED BY <2>1, <4>1, <4>2
    <3> QED BY <1>2, <3>3
  <2> QED BY <1>3, <2>3, <2>4 DEF Block
<1> QED BY <1>1, <1>5, <1>6

\* V is W with the block o of class a exchanged for the block p of class b.
Becomes(W, V, o, a, p, b) == V = (W \ {<<o, a>>}) \cup {<<p, b>>}

\* One return of alloc: the block in hand is split, its lower half is kept and
\* its upper half linked.
LEMMA SplitTree ==
  ASSUME NEW B, NEW W, Tree(B, W),
         NEW s \in SizeClass, s # 0, NEW o, <<o, s>> \in W,
         NEW C, Marked(B, C, o, s - 1, s - 1),
         NEW V, Becomes(W, V, o, s, o, s - 1)
  PROVE  /\ Tree(C, V) /\ <<o, s - 1>> \notin W
         /\ ~Linked(B, W, get_buddy(o, s - 1), s - 1)
         /\ \A r \in SizeClass : \A x \in OffsetsOf(r) :
              Linked(C, V, x, r) <=> \/ Linked(B, W, x, r)
                                     \/ r = s - 1 /\ x = get_buddy(o, s - 1)
<1> DEFINE q == s - 1
           b == get_buddy(o, q)
<1>1. /\ TopClass \in Nat /\ SizeClass = 0..TopClass
      /\ q \in SizeClass /\ q # TopClass /\ q + 1 = s /\ q < s /\ q <= s /\ q \in Nat
  BY Neighbours
<1>2. o \in OffsetsOf(s) /\ Used(B, o, s) /\ ~Split(B, W, o, s)
  BY DEF Tree, Split
<1>3. o \in OffsetsOf(q) /\ EnclosingBlock(o, s) = o
  <2>1. o \in OffsetsOf(q)
    BY <1>1, <1>2, OffsetsNested
  <2> QED BY <1>2, <2>1, EnclosesItself
<1>4. /\ b \in OffsetsOf(q) /\ b # o /\ EnclosingBlock(b, s) = o
      /\ \A x \in OffsetsOf(q) : EnclosingBlock(x, s) = o => x = o \/ x = b
  BY <1>1, <1>3, BuddyFacts
<1>5. \A x \in OffsetsOf(q) : EnclosingBlock(x, s) = o => ~Used(B, x, q) /\ <<x, q>> \notin W
  BY <1>1, <1>2, Descend
<1>6. ~Linked(B, W, b, q)
  BY <1>1, <1>2, <1>4 DEF Linked
<1>7. ASSUME NEW r \in SizeClass, NEW x \in OffsetsOf(r)
      PROVE  Used(C, x, r) <=> Used(B, x, r) \/ (x = o /\ r = q)
  <2>1. Used(C, x, r) <=> Used(B, x, r) \/ (x = o /\ r \in q..q)
    BY <1>1, <1>3, MarkUsed
  <2> QED BY <1>1, <2>1
<1>8. \A x, r : <<x, r>> \in V <=> (<<x, r>> \in W /\ ~(x = o /\ r = s)) \/ (x = o /\ r = q)
  BY DEF Becomes
<1> HIDE DEF q
<1>9. ASSUME NEW r \in SizeClass, NEW x \in OffsetsOf(r)
      PROVE  Split(C, V, x, r) <=> Split(B, W, x, r) \/ (x = o /\ r = s)
  BY <1>1, <1>2, <1>3, <1>5, <1>7, <1>8, <1>9 DEF Split
<1> HIDE DEF b
<1>10. ASSUME NEW r \in SizeClass, r # TopClass, NEW x \in OffsetsOf(r)
       PROVE  r + 1 \in SizeClass /\ EnclosingBlock(x, r + 1) \in OffsetsOf(r + 1)
  BY <1>10, Neighbours, EnclosesItself, EnclosingFacts
<1>11. Tree(C, V)
  <2>1. ASSUME NEW x, NEW r, <<x, r>> \in V
        PROVE  r \in SizeClass /\ x \in OffsetsOf(r) /\ Used(C, x, r)
    <3>1. r \in SizeClass /\ x \in OffsetsOf(r) /\ (Used(B, x, r) \/ (x = o /\ r = q))
      BY <1>1, <1>3, <1>8, <2>1 DEF Tree
    <3> QED BY <1>7, <3>1
  <2>2. ASSUME NEW r \in SizeClass, NEW x \in OffsetsOf(r), Used(C, x, r), r # TopClass
        PROVE  Split(C, V, EnclosingBlock(x, r + 1), r + 1)
    <3>1. Used(B, x, r) => Split(B, W, EnclosingBlock(x, r + 1), r + 1)
      BY <2>2 DEF Tree
    <3>2. x = o /\ r = q => EnclosingBlock(x, r + 1) = o /\ r + 1 = s
      BY <1>1, <1>3
    <3> QED BY <1>7, <1>9, <1>10, <2>2, <3>1, <3>2
  <2>3. ASSUME NEW r \in SizeClass, NEW x \in OffsetsOf(r), Split(C, V, x, r)
        PROVE  /\ r # 0
               /\ \E h \in OffsetsOf(r - 1) : EnclosingBlock(h, r) = x /\ Used(C, h, r - 1)
    <3>1. CASE x = o /\ r = s
      <4>1. Used(C, o, q)
        BY <1>1, <1>3, <1>7
      <4> QED BY <1>1, <1>3, <3>1, <4>1 DEF q
    <3>2. CASE Split(B, W, x, r)
      <4>1. r # 0
        BY <3>2 DEF Tree
      <4>2. PICK h \in OffsetsOf(r - 1) : EnclosingBlock(h, r) = x /\ Used(B, h, r - 1)
        BY <3>2 DEF Tree
      <4>3. r - 1 \in SizeClass
        BY <4>1, Neighbours
      <4>4. Used(C, h, r - 1)
        BY <1>7, <4>2, <4>3
      <4> QED BY <4>1, <4>2, <4>4
    <3> QED BY <1>9, <2>3, <3>1, <3>2
  <2> QED BY <2>1, <2>2, <2>3 DEF Tree
<1>12. ASSUME NEW r \in SizeClass, NEW x \in OffsetsOf(r)
       PROVE  Linked(C, V, x, r) <=> Linked(B, W, x, r) \/ (r = q /\ x = b)
  <2> DEFINE p == EnclosingBlock(x, r + 1)
  <2>1. r # TopClass => (Split(C, V, p, r + 1) <=> Split(B, W, p, r + 1) \/ (p = o /\ r + 1 = s))
    BY <1>9, <1>10
  <2>2. r + 1 = s <=> r = q
    BY <1>1
  <2>3. CASE r = q /\ p = o
    <3>1. x = o \/ x = b
      BY <1>1, <1>4, <2>3
    <3>2. ~Linked(B, W, x, r)
      BY <1>1, <1>2, <2>2, <2>3 DEF Linked
    <3>3. Linked(C, V, x, r) <=> ~Used(C, x, r)
      BY <2>1, <2>2, <2>3 DEF Linked
    <3>4. ~Used(B, x, r)
      BY <1>1, <1>5, <2>3
    <3> QED BY <1>4, <1>7, <2>3, <3>1, <3>2, <3>3, <3>4
  <2>4. CASE ~(r = q /\ p = o)
    <3>1. ~(r = q /\ x = b) /\ ~(r = q /\ x = o)
      BY <1>1, <1>3, <1>4, <2>4
    <3>2. Used(C, x, r) <=> Used(B, x, r)
      BY <1>7, <3>1
    <3>3. r # TopClass => (Split(C, V, p, r + 1) <=> Split(B, W, p, r + 1))
      BY <2>1, <2>2, <2>4
    <3> QED BY <3>1, <3>2, <3>3 DEF Linked
  <2> QED BY <2>3, <2>4
<1> QED BY <1>1, <1>5, <1>3, <1>6, <1>11, <1>12 DEF q, b

\* One level of free: the block in hand and its free buddy, which is unlinked,
\* become the block both are halves of.
LEMMA MergeTree ==
  ASSUME NEW B, NEW W, Tree(B, W),
         NEW s \in SizeClass, s # TopClass, NEW o, <<o, s>> \in W,
         ~Used(B, get_buddy(o, s), s),
         NEW C, Unmarked(B, C, o, s, s),
         NEW p, p = EnclosingBlock(o, s + 1),
         NEW V, Becomes(W, V, o, s, p, s + 1)
  PROVE  /\ Tree(C, V) /\ <<p, s + 1>> \notin W /\ p \in OffsetsOf(s + 1) /\ s + 1 \in SizeClass
         /\ get_buddy(o, s) \in OffsetsOf(s) /\ Linked(B, W, get_buddy(o, s), s)
         /\ \A r \in SizeClass : \A x \in OffsetsOf(r) :
              Linked(C, V, x, r) <=> Linked(B, W, x, r) /\ ~(r = s /\ x = get_buddy(o, s))
<1> DEFINE b == get_buddy(o, s)
<1>1. /\ TopClass \in Nat /\ SizeClass = 0..TopClass
      /\ s + 1 \in SizeClass /\ s \in Nat
  BY Neighbours
<1>2. o \in OffsetsOf(s) /\ Used(B, o, s) /\ o \in Units /\ EnclosingBlock(o, s) = o
  BY EnclosesItself DEF Tree
<1>3. p \in OffsetsOf(s + 1) /\ Split(B, W, p, s + 1)
  BY <1>1, <1>2, EnclosingFacts DEF Tree
<1>4. /\ b \in OffsetsOf(s) /\ b # o /\ EnclosingBlock(b, s + 1) = p
      /\ \A x \in OffsetsOf(s) : EnclosingBlock(x, s + 1) = p => x = o \/ x = b
  BY <1>1, <1>2, BuddyFacts
<1>5. Linked(B, W, b, s)
  BY <1>3, <1>4 DEF Linked
<1> HIDE DEF b
<1>6. ASSUME NEW r \in SizeClass, NEW x \in OffsetsOf(r)
      PROVE  Used(C, x, r) <=> Used(B, x, r) /\ ~(x = o /\ r = s)
  <2>1. Used(C, x, r) <=> Used(B, x, r) /\ ~(r \in s..s /\ x = EnclosingBlock(o, r))
    BY <1>2, MarkFree
  <2> QED BY <1>1, <1>2, <2>1
<1>7. \A x, r : <<x, r>> \in V <=> (<<x, r>> \in W /\ ~(x = o /\ r = s)) \/ (x = p /\ r = s + 1)
  BY DEF Becomes
<1>8. ASSUME NEW r \in SizeClass, NEW x \in OffsetsOf(r)
      PROVE  Split(C, V, x, r) <=> Split(B, W, x, r) /\ ~(x = p /\ r = s + 1)
  BY <1>3, <1>6, <1>7, <1>8 DEF Split
<1>9. ASSUME NEW r \in SizeClass, r # TopClass, NEW x \in OffsetsOf(r)
      PROVE  r + 1 \in SizeClass /\ EnclosingBlock(x, r + 1) \in OffsetsOf(r + 1)
  BY <1>9, Neighbours, EnclosesItself, EnclosingFacts
<1>10. Tree(C, V)
  <2>1. ASSUME NEW x, NEW r, <<x, r>> \in V
        PROVE  r \in SizeClass /\ x \in OffsetsOf(r) /\ Used(C, x, r)
    <3>1. CASE x = p /\ r = s + 1
      <4>1. Used(B, p, s + 1) /\ s + 1 # s
        BY <1>1, <1>3 DEF Split
      <4> QED BY <1>1, <1>3, <1>6, <3>1, <4>1
    <3>2. CASE <<x, r>> \in W /\ ~(x = o /\ r = s)
      <4>1. r \in SizeClass /\ x \in OffsetsOf(r) /\ Used(B, x, r)
        BY <3>2 DEF Tree
      <4> QED BY <1>6, <3>2, <4>1
    <3> QED BY <1>7, <2>1, <3>1, <3>2
  <2>2. ASSUME NEW r \in SizeClass, NEW x \in OffsetsOf(r), Used(C, x, r), r # TopClass
        PROVE  Split(C, V, EnclosingBlock(x, r + 1), r + 1)
    <3>1. Used(B, x, r) /\ ~(x = o /\ r = s)
      BY <1>6, <2>2
    <3>2. Split(B, W, EnclosingBlock(x, r + 1), r + 1)
      BY <2>2, <3>1 DEF Tree
    <3>3. ~(EnclosingBlock(x, r + 1) = p /\ r + 1 = s + 1)
      <4>1. SUFFICES ASSUME EnclosingBlock(x, r + 1) = p, r + 1 = s + 1 PROVE FALSE
        OBVIOUS
      <4>2. r = s
        BY <1>1, <4>1
      <4>3. x = b
        BY <1>4, <3>1, <4>1, <4>2
      <4> QED BY <3>1, <4>2, <4>3 DEF b
    <3> QED BY <1>8, <1>9, <2>2, <3>2, <3>3
  <2>3. ASSUME NEW r \in SizeClass, NEW x \in OffsetsOf(r), Split(C, V, x, r)
        PROVE  /\ r # 0
               /\ \E h \in OffsetsOf(r - 1) : EnclosingBlock(h, r) = x /\ Used(C, h, r - 1)
    <3>1. Split(B, W, x, r) /\ ~(x = p /\ r = s + 1)
      BY <1>8, <2>3
    <3>2. r # 0
      BY <3>1 DEF Tree
    <3>3. PICK h \in OffsetsOf(r - 1) : EnclosingBlock(h, r) = x /\ Used(B, h, r - 1)
      BY <3>1 DEF Tree
    <3>4. r - 1 \in SizeClass /\ (r - 1 = s => r = s + 1)
      BY <1>1, <3>2
    <3>5. ~(h = o /\ r - 1 = s)
      BY <3>1, <3>3, <3>4
    <3>6. Used(C, h, r - 1)
      BY <1>6, <3>3, <3>4, <3>5
    <3> QED BY <3>2, <3>3, <3>6
  <2> QED BY <2>1, <2>2, <2>3 DEF Tree
<1>11. ASSUME NEW r \in SizeClass, NEW x \in OffsetsOf(r)
       PROVE  Linked(C, V, x, r) <=> Linked(B, W, x, r) /\ ~(r = s /\ x = b)
  <2> DEFINE e == EnclosingBlock(x, r + 1)
  <2>1. r # TopClass => (Split(C, V, e, r + 1) <=> Split(B, W, e, r + 1) /\ ~(e = p /\ r + 1 = s + 1))
    BY <1>8, <1>9
  <2>2. r + 1 = s + 1 <=> r = s
    BY <1>1
  <2>3. CASE r = s /\ e = p
    <3>1. x = o \/ x = b
      BY <1>4, <2>3
    <3>2. ~Linked(C, V, x, r)
      BY <2>1, <2>2, <2>3 DEF Linked
    <3>3. x = o => ~Linked(B, W, x, r)
      BY <1>2, <2>3 DEF Linked
    <3> QED BY <2>3, <3>1, <3>2, <3>3
  <2>4. CASE ~(r = s /\ e = p)
    <3>1. ~(r = s /\ x = b) /\ ~(r = s /\ x = o)
      BY <1>4, <2>4
    <3>2. Used(C, x, r) <=> Used(B, x, r)
      BY <1>6, <3>1
    <3>3. r # TopClass => (Split(C, V, e, r + 1) <=> Split(B, W, e, r + 1))
      BY <2>1, <2>2, <2>4
    <3> QED BY <3>1, <3>2, <3>3 DEF Linked
  <2> QED BY <2>3, <2>4
<1> QED BY <1>1, <1>3, <1>4, <1>5, <1>10, <1>11 DEF Split, b

\* The lower of two buddies is where the block both are halves of starts.
LEMMA LowerHalf ==
  ASSUME NEW s \in SizeClass, s # TopClass, NEW o \in OffsetsOf(s)
  PROVE  (IF o < get_buddy(o, s) THEN o ELSE get_buddy(o, s)) = EnclosingBlock(o, s + 1)
<1> DEFINE d == get_size(s)
           n == o \div d
           m == n \div 2
<1>1. /\ d \in Nat \ {0} /\ get_size(s + 1) = 2 * d
      /\ n \in Nat /\ o = d * n /\ EnclosingBlock(o, s + 1) = get_size(s + 1) * m
  <2>1. Count(s) \in Nat \ {0} /\ d \in Nat \ {0}
    BY OffsetFacts
  <2> QED BY <2>1, ClassFacts, BlockNumber
<1>2. m \in Nat /\ n % 2 \in 0..1 /\ n = 2 * m + (n % 2)
  BY <1>1
<1>3. EnclosingBlock(o, s + 1) = d * (2 * m)
  <2>1. \A x, y \in Nat : (2 * x) * y = x * (2 * y)
    OBVIOUS
  <2> QED BY <1>1, <1>2, <2>1
<1>4. get_buddy(o, s) = (IF n % 2 = 0 THEN n + 1 ELSE n - 1) * d
  BY DEF get_buddy
<1> HIDE DEF m
<1>5. CASE n % 2 = 0
  <2>1. n = 2 * m /\ get_buddy(o, s) = (n + 1) * d
    BY <1>2, <1>4, <1>5
  <2> HIDE DEF n, d
  <2>2. (n + 1) * d = d * n + d
    BY <1>1
  <2> QED BY <1>1, <1>3, <2>1, <2>2
<1>6. CASE n % 2 # 0
  <2>1. n = 2 * m + 1 /\ get_buddy(o, s) = (n - 1) * d
    BY <1>2, <1>4, <1>6
  <2> HIDE DEF n, d
  <2>2. n - 1 = 2 * m
    BY <1>2, <2>1
  <2>3. get_buddy(o, s) = d * (2 * m)
    BY <1>1, <1>2, <2>1, <2>2
  <2>4. o = d * (2 * m) + d
    BY <1>1, <1>2, <2>1
  <2>5. d * (2 * m) \in Nat
    BY <1>1, <1>2
  <2> QED BY <1>1, <1>3, <2>3, <2>4, <2>5
<1> QED BY <1>5, <1>6
=============================================================================
