-------------------------- MODULE PageTable_proofs --------------------------
(***************************************************************************)
(* Proofs about the page tables of pmm.c and the memory manager below      *)
(* them, for every memory map, every size of memory and every set of       *)
(* linear pages.                                                           *)
(*                                                                         *)
(* The invariant relates the manager, the tables and the pages kernel code *)
(* holds.  It is stated of the values of the variables, so that the steps  *)
(* inside page_insert (get_pte, the count, page_remove_pte, the entry) can *)
(* be followed one by one.                                                 *)
(***************************************************************************)
EXTENDS PageTable, ProofLemmas, SequenceTheorems

-----------------------------------------------------------------------------
(***************************************************************************)
(* Lists without repetitions and the sets of their elements.               *)
(***************************************************************************)
\* An element added at the end.
LEMMA AppendSet ==
  ASSUME NEW B, NEW l \in Seq(B), NEW x \in B
  PROVE  /\ Append(l, x) \in Seq(B)
         /\ ToSet(Append(l, x)) = ToSet(l) \cup {x}
         /\ IsInjective(l) /\ x \notin ToSet(l) => IsInjective(Append(l, x))
<1> DEFINE n == Len(l)
           k == Append(l, x)
<1>1. /\ k \in Seq(B) /\ Len(k) = n + 1 /\ n \in Nat
      /\ DOMAIN l = 1 .. n /\ DOMAIN k = 1 .. n + 1
      /\ \A j \in 1 .. n : k[j] = l[j]
      /\ k[n + 1] = x
  OBVIOUS
<1> HIDE DEF k, n
<1>2. \A j : j \in 1 .. n + 1 <=> (j \in 1 .. n \/ j = n + 1)
  BY <1>1
<1>3. ToSet(k) = ToSet(l) \cup {x}
  BY <1>1, <1>2 DEF ToSet
<1>4. ASSUME IsInjective(l), x \notin ToSet(l)  PROVE IsInjective(k)
  <2>1. \A j \in 1 .. n : l[j] # x
    BY <1>1, <1>4 DEF ToSet
  <2>2. \A a, b \in 1 .. n : l[a] = l[b] => a = b
    BY <1>1, <1>4 DEF IsInjective
  <2> QED  BY <1>1, <1>2, <2>1, <2>2 DEF IsInjective
<1> QED  BY <1>1, <1>3, <1>4 DEF k

\* An element added at the front.
LEMMA ConsSet ==
  ASSUME NEW B, NEW l \in Seq(B), NEW x \in B
  PROVE  /\ <<x>> \o l \in Seq(B)
         /\ ToSet(<<x>> \o l) = ToSet(l) \cup {x}
         /\ IsInjective(l) /\ x \notin ToSet(l) => IsInjective(<<x>> \o l)
<1> DEFINE n == Len(l)
           k == <<x>> \o l
<1>1. /\ k \in Seq(B) /\ Len(k) = n + 1 /\ n \in Nat
      /\ DOMAIN l = 1 .. n /\ DOMAIN k = 1 .. n + 1
      /\ \A j \in 1 .. n : k[j + 1] = l[j]
      /\ k[1] = x
  OBVIOUS
<1> HIDE DEF k, n
<1>2. \A j \in 1 .. n + 1 : j = 1 \/ (j - 1 \in 1 .. n /\ k[j] = l[j - 1])
  BY <1>1
<1>3. \A j \in 1 .. n : j + 1 \in 1 .. n + 1
  BY <1>1
<1>4. ToSet(k) = ToSet(l) \cup {x}
  <2>1. 1 \in 1 .. n + 1
    BY <1>1
  <2>2. \A j \in 1 .. n + 1 : k[j] = x \/ \E a \in 1 .. n : k[j] = l[a]
    BY <1>1, <1>2
  <2>3. \A a \in 1 .. n : \E j \in 1 .. n + 1 : k[j] = l[a]
    BY <1>1, <1>3
  <2>4. ToSet(k) = {k[j] : j \in 1 .. n + 1} /\ ToSet(l) = {l[j] : j \in 1 .. n}
    BY <1>1 DEF ToSet
  <2>5. ASSUME NEW y \in ToSet(k)  PROVE y \in ToSet(l) \cup {x}
    BY <2>2, <2>4
  <2>6. ASSUME NEW y \in ToSet(l) \cup {x}  PROVE y \in ToSet(k)
    BY <1>1, <2>1, <2>3, <2>4
  <2> QED  BY <2>5, <2>6
<1>5. ASSUME IsInjective(l), x \notin ToSet(l)  PROVE IsInjective(k)
  <2>1. \A j \in 1 .. n : l[j] # x
    BY <1>1, <1>5 DEF ToSet
  <2>2. \A a, b \in 1 .. n : l[a] = l[b] => a = b
    BY <1>1, <1>5 DEF IsInjective
  <2>3. ASSUME NEW a \in 1 .. n + 1, NEW b \in 1 .. n + 1, k[a] = k[b]  PROVE a = b
    BY <1>1, <1>2, <2>1, <2>2, <2>3
  <2> QED  BY <1>1, <2>3 DEF IsInjective
<1> QED  BY <1>1, <1>4, <1>5 DEF k

\* The element at a position taken out.
LEMMA RemoveSet ==
  ASSUME NEW B, NEW l \in Seq(B), NEW i \in 1 .. Len(l), IsInjective(l)
  PROVE  /\ RemoveAt(l, i) \in Seq(B)
         /\ ToSet(RemoveAt(l, i)) = ToSet(l) \ {l[i]}
         /\ IsInjective(RemoveAt(l, i))
<1> DEFINE n == Len(l)
           u == SubSeq(l, 1, i - 1)
           v == SubSeq(l, i + 1, n)
           k == u \o v
<1>0. n \in Nat /\ i \in 1 .. n /\ DOMAIN l = 1 .. n
  OBVIOUS
<1>1. u \in Seq(B) /\ Len(u) = i - 1 /\ \A j \in 1 .. i - 1 : u[j] = l[j]
  BY <1>0
<1>2. v \in Seq(B) /\ Len(v) = n - i /\ \A j \in 1 .. n - i : v[j] = l[i + j]
  <2> DEFINE m == i + 1
  <2>1. m \in Int /\ n \in Int /\ \A j \in m .. n : l[j] \in B
    BY <1>0
  <2> HIDE DEF m, n
  <2>2. /\ SubSeq(l, m, n) \in Seq(B)
        /\ Len(SubSeq(l, m, n)) = IF m <= n THEN n - m + 1 ELSE 0
        /\ \A j \in 1 .. n - m + 1 : SubSeq(l, m, n)[j] = l[m + j - 1]
    BY <2>1, SubSeqProperties
  <2>3. v = SubSeq(l, m, n) /\ n - m + 1 = n - i /\ (~ (m <= n) => n - i = 0)
    BY <1>0 DEF m
  <2>4. \A j \in 1 .. n - i : m + j - 1 = i + j
    BY <1>0 DEF m
  <2> HIDE DEF v
  <2>5. Len(v) = n - i /\ v \in Seq(B)
    BY <2>2, <2>3
  <2>6. ASSUME NEW j \in 1 .. n - i  PROVE v[j] = l[i + j]
    BY <2>2, <2>3, <2>4
  <2> QED  BY <2>5, <2>6
<1> HIDE DEF u, v
<1>3. /\ k \in Seq(B) /\ Len(k) = n - 1 /\ DOMAIN k = 1 .. n - 1
      /\ \A j \in 1 .. n - 1 : k[j] = IF j < i THEN l[j] ELSE l[j + 1]
  <2>1. k \in Seq(B) /\ Len(k) = n - 1
    <3> HIDE DEF n
    <3>1. k \in Seq(B) /\ Len(k) = Len(u) + Len(v)
      BY <1>1, <1>2, ConcatProperties
    <3>2. Len(k) = (i - 1) + (n - i)
      BY <1>1, <1>2, <3>1
    <3>3. (i - 1) + (n - i) = n - 1
      BY <1>0
    <3> QED  BY <3>1, <3>2, <3>3
  <2>2. ASSUME NEW j \in 1 .. n - 1  PROVE k[j] = IF j < i THEN l[j] ELSE l[j + 1]
    <3>1. CASE j < i
      BY <1>0, <1>1, <1>2, <3>1
    <3>2. CASE ~ (j < i)
      <4>1. k[j] = v[j - (i - 1)]
        BY <1>0, <1>1, <1>2, <3>2
      <4>2. j - (i - 1) \in 1 .. n - i /\ i + (j - (i - 1)) = j + 1
        BY <1>0, <3>2
      <4> QED  BY <1>2, <3>2, <4>1, <4>2
    <3> QED  BY <3>1, <3>2
  <2>3. DOMAIN k = 1 .. n - 1
    BY <2>1
  <2> QED  BY <2>1, <2>2, <2>3
<1>4. k = RemoveAt(l, i)
  BY DEF RemoveAt, u, v
<1>5. \A a, b \in 1 .. n : l[a] = l[b] => a = b
  BY <1>0 DEF IsInjective
<1> HIDE DEF k, n
<1>6. ASSUME NEW j \in 1 .. n, j # i  PROVE \E a \in 1 .. n - 1 : k[a] = l[j]
  <2>1. CASE j < i
    <3>1. j \in 1 .. n - 1 /\ k[j] = l[j]
      BY <1>0, <1>3, <2>1
    <3> QED  BY <3>1
  <2>2. CASE j > i
    <3>1. j - 1 \in 1 .. n - 1 /\ ~ (j - 1 < i) /\ (j - 1) + 1 = j
      BY <1>0, <2>2
    <3>2. k[j - 1] = l[j]
      BY <1>3, <3>1
    <3> QED  BY <3>1, <3>2
  <2> QED  BY <1>0, <1>6, <2>1, <2>2
<1>7. ASSUME NEW a \in 1 .. n - 1  PROVE \E j \in 1 .. n : j # i /\ k[a] = l[j] /\ j = IF a < i THEN a ELSE a + 1
  <2>1. CASE a < i
    BY <1>0, <1>3, <2>1
  <2>2. CASE ~ (a < i)
    <3>1. a + 1 \in 1 .. n /\ a + 1 # i /\ k[a] = l[a + 1]
      BY <1>0, <1>3, <2>2
    <3> QED  BY <2>2, <3>1
  <2> QED  BY <2>1, <2>2
<1>8. ToSet(k) = ToSet(l) \ {l[i]}
  <2>1. ASSUME NEW x \in ToSet(k)  PROVE x \in ToSet(l) \ {l[i]}
    <3>1. PICK a \in 1 .. n - 1 : x = k[a]
      BY <1>3 DEF ToSet
    <3>2. PICK j \in 1 .. n : j # i /\ k[a] = l[j]
      BY <1>7
    <3> QED  BY <1>0, <1>5, <3>1, <3>2 DEF ToSet
  <2>2. ASSUME NEW x \in ToSet(l) \ {l[i]}  PROVE x \in ToSet(k)
    <3>1. PICK j \in 1 .. n : x = l[j] /\ j # i
      BY <1>0 DEF ToSet
    <3> QED  BY <1>3, <1>6, <3>1 DEF ToSet
  <2> QED  BY <2>1, <2>2
<1>9. IsInjective(k)
  <2>1. ASSUME NEW a \in 1 .. n - 1, NEW b \in 1 .. n - 1, k[a] = k[b]  PROVE a = b
    <3>1. PICK x \in 1 .. n : k[a] = l[x] /\ x = IF a < i THEN a ELSE a + 1
      BY <1>7
    <3>2. PICK y \in 1 .. n : k[b] = l[y] /\ y = IF b < i THEN b ELSE b + 1
      BY <1>7
    <3>3. x = y
      BY <1>5, <2>1, <3>1, <3>2
    <3> QED  BY <1>0, <3>1, <3>2, <3>3
  <2> QED  BY <1>3, <2>1 DEF IsInjective
<1> QED  BY <1>3, <1>4, <1>8, <1>9

\* An element put before the one at a position.
LEMMA InsertSet ==
  ASSUME NEW B, NEW l \in Seq(B), NEW i \in 1 .. Len(l), NEW x \in B
  PROVE  /\ InsertAt(l, i, x) \in Seq(B)
         /\ ToSet(InsertAt(l, i, x)) = ToSet(l) \cup {x}
         /\ IsInjective(l) /\ x \notin ToSet(l) => IsInjective(InsertAt(l, i, x))
<1> DEFINE n == Len(l)
           u == SubSeq(l, 1, i - 1)
           v == SubSeq(l, i, n)
           w == u \o <<x>>
           k == w \o v
<1>0. n \in Nat /\ i \in 1 .. n /\ DOMAIN l = 1 .. n
  OBVIOUS
<1>1. u \in Seq(B) /\ Len(u) = i - 1 /\ \A j \in 1 .. i - 1 : u[j] = l[j]
  BY <1>0
<1>2. v \in Seq(B) /\ Len(v) = n - i + 1 /\ \A j \in 1 .. n - i + 1 : v[j] = l[i + j - 1]
  BY <1>0
<1>3. k = InsertAt(l, i, x)
  BY DEF InsertAt
<1> HIDE DEF u, v
<1>4. /\ w \in Seq(B) /\ Len(w) = i /\ w[i] = x
      /\ \A j \in 1 .. i - 1 : w[j] = l[j]
  BY <1>0, <1>1
<1> HIDE DEF w
<1>5. /\ k \in Seq(B) /\ Len(k) = n + 1 /\ DOMAIN k = 1 .. n + 1
  <2> HIDE DEF n
  <2>1. k \in Seq(B) /\ Len(k) = n + 1
    BY <1>0, <1>2, <1>4, ConcatProperties
  <2> QED  BY <2>1
<1>6. ASSUME NEW j \in 1 .. n + 1
      PROVE  k[j] = IF j < i THEN l[j] ELSE IF j = i THEN x ELSE l[j - 1]
  <2>1. CASE j <= i
    <3>1. k[j] = w[j]
      BY <1>0, <1>2, <1>4, <2>1
    <3> QED  BY <1>0, <1>4, <2>1, <3>1
  <2>2. CASE j > i
    <3>1. k[j] = v[j - i]
      BY <1>0, <1>2, <1>4, <2>2
    <3>2. j - i \in 1 .. n - i + 1 /\ i + (j - i) - 1 = j - 1
      BY <1>0, <2>2
    <3> QED  BY <1>0, <1>2, <2>2, <3>1, <3>2
  <2> HIDE DEF k, n
  <2>3. j <= i \/ j > i
    BY <1>0
  <2> QED  BY <2>1, <2>2, <2>3
<1> HIDE DEF k, n
<1>7. ToSet(k) = ToSet(l) \cup {x}
  <2>1. ASSUME NEW j \in 1 .. n + 1  PROVE k[j] = x \/ \E a \in 1 .. n : k[j] = l[a]
    <3>1. CASE j < i
      BY <1>0, <1>6, <3>1
    <3>2. CASE j = i
      BY <1>0, <1>6, <3>2
    <3>3. CASE j > i
      <4>1. j - 1 \in 1 .. n /\ k[j] = l[j - 1]
        BY <1>0, <1>6, <3>3
      <4> QED  BY <4>1
    <3> QED  BY <1>0, <3>1, <3>2, <3>3
  <2>2. ASSUME NEW a \in 1 .. n  PROVE \E j \in 1 .. n + 1 : k[j] = l[a]
    <3>1. CASE a < i
      <4>1. a \in 1 .. n + 1 /\ k[a] = l[a]
        BY <1>0, <1>6, <3>1
      <4> QED  BY <4>1
    <3>2. CASE ~ (a < i)
      <4>1. a + 1 \in 1 .. n + 1 /\ ~ (a + 1 < i) /\ a + 1 # i /\ (a + 1) - 1 = a
        BY <1>0, <3>2
      <4>2. k[a + 1] = l[a]
        BY <1>6, <4>1
      <4> QED  BY <4>1, <4>2
    <3> QED  BY <3>1, <3>2
  <2>3. i \in 1 .. n + 1 /\ k[i] = x
    BY <1>0, <1>6
  <2>4. ToSet(k) = {k[j] : j \in 1 .. n + 1} /\ ToSet(l) = {l[j] : j \in 1 .. n}
    BY <1>0, <1>5 DEF ToSet
  <2>5. ASSUME NEW y \in ToSet(k)  PROVE y \in ToSet(l) \cup {x}
    BY <2>1, <2>4
  <2>6. ASSUME NEW y \in ToSet(l) \cup {x}  PROVE y \in ToSet(k)
    BY <2>2, <2>3, <2>4
  <2> QED  BY <2>5, <2>6
<1>8. ASSUME IsInjective(l), x \notin ToSet(l)  PROVE IsInjective(k)
  <2>1. \A j \in 1 .. n : l[j] # x
    BY <1>0, <1>8 DEF ToSet
  <2>2. \A a, b \in 1 .. n : l[a] = l[b] => a = b
    BY <1>0, <1>8 DEF IsInjective
  <2>3. ASSUME NEW a \in 1 .. n + 1, NEW b \in 1 .. n + 1, k[a] = k[b], a < b  PROVE FALSE
    <3>1. b # i => b > i \/ b < i
      BY <1>0
    <3>2. CASE b < i
      <4>1. a \in 1 .. n /\ b \in 1 .. n /\ k[a] = l[a] /\ k[b] = l[b] /\ a # b
        BY <1>0, <1>6, <2>3, <3>2
      <4> QED  BY <2>2, <2>3, <4>1
    <3>3. CASE b = i
      <4>1. a \in 1 .. n /\ k[a] = l[a] /\ k[b] = x
        BY <1>0, <1>6, <2>3, <3>3
      <4> QED  BY <2>1, <2>3, <4>1
    <3>4. CASE b > i
      <4>1. b - 1 \in 1 .. n /\ k[b] = l[b - 1]
        BY <1>0, <1>6, <3>4
      <4>2. CASE a < i
        <5>1. a \in 1 .. n /\ k[a] = l[a] /\ a # b - 1
          BY <1>0, <1>6, <3>4, <4>2
        <5> QED  BY <2>2, <2>3, <4>1, <5>1
      <4>3. CASE a = i
        <5>1. k[a] = x
          BY <1>6, <4>3
        <5> QED  BY <2>1, <2>3, <4>1, <5>1
      <4>4. CASE a > i
        <5>1. a - 1 \in 1 .. n /\ k[a] = l[a - 1] /\ a - 1 # b - 1
          BY <1>0, <1>6, <2>3, <4>4
        <5> QED  BY <2>2, <2>3, <4>1, <5>1
      <4> QED  BY <1>0, <4>2, <4>3, <4>4
    <3> QED  BY <3>1, <3>2, <3>3, <3>4
  <2>4. ASSUME NEW a \in 1 .. n + 1, NEW b \in 1 .. n + 1, k[a] = k[b]  PROVE a = b
    <3>1. a < b \/ b < a \/ a = b
      OBVIOUS
    <3> QED  BY <2>3, <2>4, <3>1
  <2> QED  BY <1>5, <2>4 DEF IsInjective
<1> QED  BY <1>3, <1>5, <1>7, <1>8

-----------------------------------------------------------------------------
(***************************************************************************)
(* Sets of blocks and their pages.                                         *)
(***************************************************************************)
Block == [base : Pages, property : Nat \ {0}]
PagesOf(b) == Run(b.base, b.property)
PagesIn(S) == UNION {PagesOf(b) : b \in S}
Disjoint(S) == \A b, c \in S : b # c => PagesOf(b) \cap PagesOf(c) = {}

\* One block begins where the other ends.
Touch(b, c) == b.base + b.property = c.base \/ c.base + c.property = b.base
Apart(S) == \A b, c \in S : b # c => ~ Touch(b, c)

\* The head of a block is one of its pages, and the others follow it.
LEMMA BlockFacts ==
  ASSUME NEW b \in Block
  PROVE  /\ b.base \in Int /\ b.property \in Int /\ b.property >= 1
         /\ b.base \in PagesOf(b)
         /\ \A q : q \in PagesOf(b) <=> q \in Int /\ b.base <= q /\ q < b.base + b.property
<1>1. b.base \in Int /\ b.property \in Int /\ b.property >= 1
  BY DEF Block, Pages
<1>2. \A q : q \in PagesOf(b) <=> q \in Int /\ b.base <= q /\ q < b.base + b.property
  BY <1>1 DEF PagesOf, Run
<1> QED  BY <1>1, <1>2

\* A run of n pages is finite and has n pages.
LEMMA RunFinite ==
  ASSUME NEW base \in Int, NEW n \in Nat
  PROVE  IsFiniteSet(Run(base, n)) /\ Cardinality(Run(base, n)) = n
<1> DEFINE last == base + n - 1
<1>1. last \in Int /\ (IF base > last THEN 0 ELSE last - base + 1) = n
  OBVIOUS
<1> HIDE DEF last
<1>2. IsFiniteSet(base .. last)
      /\ Cardinality(base .. last) = (IF base > last THEN 0 ELSE last - base + 1)
  BY <1>1, FS_Interval
<1> QED  BY <1>1, <1>2 DEF Run, last

\* Memory is finite, and so is every set of its pages.
LEMMA PagesFinite ==
  ASSUME NEW S, S \subseteq Pages
  PROVE  IsFiniteSet(S) /\ Cardinality(S) \in Nat
<1>1. KMEMSIZE \div PGSIZE - 1 \in Int
  BY Layout
<1>2. IsFiniteSet(Pages)
  <2> DEFINE last == KMEMSIZE \div PGSIZE - 1
  <2>1. IsFiniteSet(0 .. last)
    <3> HIDE DEF last
    <3>1. last \in Int
      BY <1>1 DEF last
    <3> QED  BY <3>1, FS_Interval
  <2> QED  BY <2>1 DEF Pages
<1>3. IsFiniteSet(S)
  BY <1>2, FS_Subset
<1> QED  BY <1>3, FS_CardinalityType

\* A block added adds its pages.
LEMMA PagesInAdd ==
  ASSUME NEW S, NEW b
  PROVE  PagesIn(S \cup {b}) = PagesIn(S) \cup PagesOf(b)
BY DEF PagesIn

\* A block taken out of disjoint blocks takes its pages with it.
LEMMA PagesInRemove ==
  ASSUME NEW S, NEW b \in S, Disjoint(S)
  PROVE  /\ PagesIn(S \ {b}) = PagesIn(S) \ PagesOf(b)
         /\ PagesOf(b) \subseteq PagesIn(S)
<1>1. PagesOf(b) \subseteq PagesIn(S)
  BY DEF PagesIn
<1>2. ASSUME NEW q \in PagesIn(S \ {b})  PROVE q \in PagesIn(S) \ PagesOf(b)
  <2>1. PICK c \in S \ {b} : q \in PagesOf(c)
    BY DEF PagesIn
  <2>2. q \notin PagesOf(b)
    BY <2>1 DEF Disjoint
  <2> QED  BY <2>1, <2>2 DEF PagesIn
<1>3. ASSUME NEW q \in PagesIn(S) \ PagesOf(b)  PROVE q \in PagesIn(S \ {b})
  <2>1. PICK c \in S : q \in PagesOf(c)
    BY DEF PagesIn
  <2>2. c \in S \ {b}
    BY <2>1
  <2> QED  BY <2>1, <2>2 DEF PagesIn
<1> QED  BY <1>1, <1>2, <1>3

\* A block beside the others, with pages that none of them has.
LEMMA DisjointAdd ==
  ASSUME NEW S \in SUBSET Block, NEW b \in Block, Disjoint(S), PagesOf(b) \cap PagesIn(S) = {}
  PROVE  Disjoint(S \cup {b}) /\ b \notin S /\ \A c \in S : c.base # b.base
<1>1. \A c \in S : PagesOf(b) \cap PagesOf(c) = {}
  BY DEF PagesIn
<1>2. \A c \in S : c.base # b.base
  <2> SUFFICES ASSUME NEW c \in S, c.base = b.base  PROVE FALSE
    OBVIOUS
  <2>1. c \in Block
    OBVIOUS
  <2>2. c.base \in PagesOf(c) /\ b.base \in PagesOf(b)
    BY <2>1, BlockFacts
  <2> QED  BY <1>1, <2>2
<1>3. Disjoint(S \cup {b})
  BY <1>1 DEF Disjoint
<1> QED  BY <1>2, <1>3

\* The heads of disjoint blocks are different.
LEMMA HeadsDiffer ==
  ASSUME NEW S \in SUBSET Block, Disjoint(S), NEW b \in S, NEW c \in S, b # c
  PROVE  b.base # c.base /\ c.base \notin PagesOf(b)
<1>1. b \in Block /\ c \in Block
  OBVIOUS
<1>2. b.base \in PagesOf(b) /\ c.base \in PagesOf(c)
  BY <1>1, BlockFacts
<1>3. PagesOf(b) \cap PagesOf(c) = {}
  BY DEF Disjoint
<1> QED  BY <1>2, <1>3

(***************************************************************************)
(* The state of the manager between two of its operations.                 *)
(***************************************************************************)
Manager == [free_list : Seq(Block), nr_free : Nat, PG_property : SUBSET Pages,
            PG_reserved : SUBSET Pages, ref : [Pages -> Nat], panic : BOOLEAN]

FreeBlocks(m) == ToSet(m.free_list)
FreeSet(m) == PagesIn(FreeBlocks(m))

Sound(m) == /\ m \in Manager
            /\ IsInjective(m.free_list)
            /\ FreeSet(m) \subseteq Pages
            /\ Disjoint(FreeBlocks(m))
            /\ m.nr_free = Cardinality(FreeSet(m))
            /\ m.PG_property = {b.base : b \in FreeBlocks(m)}
            /\ FreeSet(m) \cap m.PG_reserved = {}
            /\ ~ m.panic

\* The blocks of a list of blocks are blocks.
LEMMA ListOfBlocks ==
  ASSUME NEW l \in Seq(Block)
  PROVE  /\ ToSet(l) \in SUBSET Block
         /\ Len(l) \in Nat /\ DOMAIN l = 1 .. Len(l)
         /\ \A i \in 1 .. Len(l) : l[i] \in Block /\ l[i] \in ToSet(l)
         /\ \A b \in ToSet(l) : \E i \in 1 .. Len(l) : b = l[i]
<1>1. Len(l) \in Nat /\ DOMAIN l = 1 .. Len(l) /\ \A i \in 1 .. Len(l) : l[i] \in Block
  OBVIOUS
<1> QED  BY <1>1 DEF ToSet

\* A block cut in two after n pages: what is kept is beside the other blocks.
LEMMA CutBlock ==
  ASSUME NEW S \in SUBSET Block, Disjoint(S), PagesIn(S) \subseteq Pages, NEW b \in S,
         NEW n \in Nat \ {0}, b.property > n,
         NEW c, c = [base |-> b.base + n, property |-> b.property - n]
  PROVE  /\ c \in Block
         /\ PagesOf(c) = PagesOf(b) \ Run(b.base, n)
         /\ Disjoint((S \ {b}) \cup {c}) /\ c \notin S \ {b}
         /\ Apart(S) => Apart((S \ {b}) \cup {c})
<1>0. b \in Block
  OBVIOUS
<1>1. /\ b.base \in Int /\ b.property \in Int
      /\ c.base = b.base + n /\ c.property = b.property - n
  BY <1>0, BlockFacts
<1>2. PagesOf(c) = PagesOf(b) \ Run(b.base, n)
  BY <1>1 DEF PagesOf, Run
<1>3. c.base \in PagesOf(b)
  BY <1>1 DEF PagesOf, Run
<1>4. PagesOf(b) \subseteq Pages
  BY PagesInRemove
<1>5. c \in Block
  BY <1>1, <1>3, <1>4 DEF Block
<1>6. PagesOf(c) \cap PagesIn(S \ {b}) = {}
  BY <1>2, PagesInRemove
<1>7. Disjoint(S \ {b})
  BY DEF Disjoint
<1>8. Disjoint((S \ {b}) \cup {c}) /\ c \notin S \ {b}
  <2>1. S \ {b} \in SUBSET Block
    OBVIOUS
  <2> QED  BY <1>5, <1>6, <1>7, <2>1, DisjointAdd
<1>9. ASSUME Apart(S)  PROVE Apart((S \ {b}) \cup {c})
  <2>1. ASSUME NEW d \in S \ {b}  PROVE ~ Touch(d, c) /\ ~ Touch(c, d)
    <3>1. d \in Block /\ ~ Touch(b, d)
      BY <1>9 DEF Apart
    <3>2. d.base \in Int /\ d.property \in Int /\ d.property >= 1
          /\ \A q : q \in PagesOf(d) <=> q \in Int /\ d.base <= q /\ q < d.base + d.property
      BY <3>1, BlockFacts
    <3>3. c.base + c.property = b.base + b.property
      BY <1>1
    <3>4. d.base + d.property # c.base
      <4> SUFFICES ASSUME d.base + d.property = c.base  PROVE FALSE
        OBVIOUS
      <4> DEFINE q == c.base - 1
      <4>1. q \in PagesOf(d)
        BY <1>1, <3>2
      <4>2. q \in PagesOf(b)
        BY <1>1 DEF PagesOf, Run
      <4> QED  BY <4>1, <4>2 DEF Disjoint
    <3> QED  BY <3>1, <3>3, <3>4 DEF Touch
  <2> QED  BY <1>9, <2>1 DEF Apart
<1> QED  BY <1>2, <1>5, <1>8, <1>9

-----------------------------------------------------------------------------
(***************************************************************************)
(* default_alloc_pages.                                                    *)
(***************************************************************************)
\* The list after n pages of its i-th block are taken.
LEMMA TakeList ==
  ASSUME NEW m, Sound(m), NEW n \in Nat \ {0}, NEW i \in DOMAIN m.free_list,
         m.free_list[i].property >= n
  PROVE  LET b == m.free_list[i]
             k == Take(m, i, n)
             c == [base |-> b.base + n, property |-> b.property - n]
         IN  /\ k.free_list \in Seq(Block) /\ IsInjective(k.free_list)
             /\ ToSet(k.free_list) = (FreeBlocks(m) \ {b})
                                       \cup (IF b.property > n THEN {c} ELSE {})
             /\ k.PG_property = (m.PG_property \cup (IF b.property > n THEN {c.base} ELSE {}))
                                  \ {b.base}
             /\ k.nr_free = m.nr_free - n
             /\ k.PG_reserved = m.PG_reserved /\ k.ref = m.ref /\ k.panic = m.panic
             /\ DOMAIN k = DOMAIN m
<1> DEFINE l == m.free_list
           b == l[i]
           k == Take(m, i, n)
           c == [base |-> b.base + n, property |-> b.property - n]
           rest == IF b.property > n THEN <<c>> ELSE <<>>
           r == RemoveAt(l, i)
<1>0. m \in Manager
  BY DEF Sound
<1>1. l \in Seq(Block) /\ IsInjective(l) /\ i \in 1 .. Len(l)
  BY <1>0 DEF Sound, Manager
<1>2. /\ k.free_list = rest \o r
      /\ k.nr_free = m.nr_free - n
      /\ k.PG_property = (m.PG_property \cup {d.base : d \in ToSet(rest)}) \ {b.base}
      /\ k.PG_reserved = m.PG_reserved /\ k.ref = m.ref /\ k.panic = m.panic
      /\ DOMAIN k = DOMAIN m
  BY <1>0 DEF Take, Manager
<1> HIDE DEF k
<1>3. r \in Seq(Block) /\ ToSet(r) = ToSet(l) \ {b} /\ IsInjective(r)
  <2> HIDE DEF l
  <2> QED  BY <1>1, RemoveSet
<1>4. b \in FreeBlocks(m)
  BY <1>1, ListOfBlocks DEF FreeBlocks
<1> HIDE DEF r
<1>5. CASE b.property > n
  <2>1. c \in Block /\ c \notin FreeBlocks(m) \ {b}
    <3> DEFINE S == FreeBlocks(m)
    <3>1. S \in SUBSET Block /\ b \in S
      BY <1>1, <1>4, ListOfBlocks DEF FreeBlocks
    <3>2. Disjoint(S) /\ PagesIn(S) \subseteq Pages
      BY DEF Sound, FreeSet
    <3>3. c = [base |-> b.base + n, property |-> b.property - n]
      OBVIOUS
    <3> HIDE DEF S, b, c, rest, l
    <3>4. b.property > n =>
            /\ c \in Block /\ PagesOf(c) = PagesOf(b) \ Run(b.base, n)
            /\ Disjoint((S \ {b}) \cup {c}) /\ c \notin S \ {b}
      BY <3>1, <3>2, <3>3, CutBlock
    <3> QED  BY <1>5, <3>4 DEF S
  <2>2. rest = <<c>>
    BY <1>5
  <2> HIDE DEF rest, c, b
  <2>3. /\ <<c>> \o r \in Seq(Block) /\ ToSet(<<c>> \o r) = ToSet(r) \cup {c}
        /\ IsInjective(<<c>> \o r)
    BY <1>3, <2>1, ConsSet DEF FreeBlocks
  <2>4. ToSet(<<c>>) = {c}
    BY DEF ToSet
  <2>5. {d.base : d \in {c}} = {c.base}
    OBVIOUS
  <2>6. k.PG_property = (m.PG_property \cup {c.base}) \ {b.base}
    BY <1>2, <2>2, <2>4, <2>5
  <2>7. k.free_list = <<c>> \o r
    BY <1>2, <2>2
  <2>8. ToSet(k.free_list) = (FreeBlocks(m) \ {b}) \cup {c}
    BY <1>3, <2>3, <2>7 DEF FreeBlocks
  <2> QED  BY <1>2, <1>5, <2>3, <2>6, <2>7, <2>8 DEF k, c, b
<1>6. CASE ~ (b.property > n)
  <2>1. rest = <<>> /\ rest \o r = r
    BY <1>3, <1>6, ConcatEmptySeq
  <2>2. {d.base : d \in ToSet(rest)} = {}
    BY <2>1 DEF ToSet
  <2> HIDE DEF rest, c, b
  <2>3. k.free_list = r /\ k.PG_property = m.PG_property \ {b.base}
    BY <1>2, <2>1, <2>2
  <2> QED  BY <1>2, <1>3, <1>6, <2>3 DEF k, b, FreeBlocks
<1> QED  BY <1>5, <1>6

\* default_alloc_pages leaves the manager alone when it finds nothing, and
\* otherwise takes n pages in a row off the free list.
LEMMA AllocPages ==
  ASSUME NEW m, Sound(m), NEW n \in Nat \ {0}, NEW new, new = default_alloc_pages(m, n)
  PROVE  /\ new.page = NULL => new.mem = m
         /\ new.page # NULL =>
              /\ new.page \in Pages /\ Run(new.page, n) \subseteq FreeSet(m)
              /\ Sound(new.mem)
              /\ FreeSet(new.mem) = FreeSet(m) \ Run(new.page, n)
              /\ new.mem.ref = m.ref /\ new.mem.PG_reserved = m.PG_reserved
              /\ Apart(FreeBlocks(m)) => Apart(FreeBlocks(new.mem))
<1> DEFINE l == m.free_list
           fits == {i \in DOMAIN l : l[i].property >= n}
<1>0. m \in Manager /\ l \in Seq(Block) /\ DOMAIN l = 1 .. Len(l)
  BY ListOfBlocks DEF Sound, Manager
<1>1. CASE n > m.nr_free \/ fits = {}
  BY <1>1 DEF default_alloc_pages
<1>2. CASE ~ (n > m.nr_free \/ fits = {})
  <2> DEFINE i == Min(fits)
             b == l[i]
             k == Take(m, i, n)
             c == [base |-> b.base + n, property |-> b.property - n]
             S == FreeBlocks(m)
             T == FreeBlocks(k)
  <2>1. new = [page |-> b.base, mem |-> k]
    BY <1>2 DEF default_alloc_pages
  <2>2. i \in DOMAIN l /\ b.property >= n
    <3>1. fits \in SUBSET Nat /\ fits # {}
      BY <1>0, <1>2
    <3>2. \E j \in fits : \A h \in fits : j <= h
      <4> HIDE DEF fits
      <4> QED  BY <3>1, SmallestInSet
    <3>3. i \in fits
      BY <3>2 DEF Min
    <3> QED  BY <3>3
  <2> HIDE DEF i, fits
  <2>3. /\ k.free_list \in Seq(Block) /\ IsInjective(k.free_list)
        /\ T = (S \ {b}) \cup (IF b.property > n THEN {c} ELSE {})
        /\ k.PG_property = (m.PG_property \cup (IF b.property > n THEN {c.base} ELSE {})) \ {b.base}
        /\ k.nr_free = m.nr_free - n
        /\ k.PG_reserved = m.PG_reserved /\ k.ref = m.ref /\ k.panic = m.panic
        /\ DOMAIN k = DOMAIN m
    BY <2>2, TakeList DEF FreeBlocks
  <2>4. /\ S \in SUBSET Block /\ b \in S /\ b \in Block /\ Disjoint(S) /\ PagesIn(S) \subseteq Pages
        /\ m.PG_property = {d.base : d \in S} /\ PagesIn(S) \cap m.PG_reserved = {}
    BY <1>0, <2>2, ListOfBlocks DEF Sound, FreeSet, FreeBlocks
  <2>5. /\ b.base \in Int /\ b.property \in Int /\ b.base \in Pages
        /\ \A q : q \in PagesOf(b) <=> q \in Int /\ b.base <= q /\ q < b.base + b.property
    BY <2>4, BlockFacts DEF Block
  <2>6. PagesOf(b) \subseteq PagesIn(S) /\ PagesIn(S \ {b}) = PagesIn(S) \ PagesOf(b)
    BY <2>4, PagesInRemove
  <2>7. Run(b.base, n) \subseteq PagesOf(b)
    BY <2>2, <2>5 DEF Run
  <2> HIDE DEF b, k, c
  <2>8. c = [base |-> b.base + n, property |-> b.property - n]
    BY DEF c
  <2>9. b.property > n =>
          /\ c \in Block /\ PagesOf(c) = PagesOf(b) \ Run(b.base, n)
          /\ Disjoint((S \ {b}) \cup {c}) /\ c \notin S \ {b}
          /\ Apart(S) => Apart((S \ {b}) \cup {c})
    BY <2>4, <2>8, CutBlock
  <2>10. ~ (b.property > n) => PagesOf(b) = Run(b.base, n)
    BY <2>2, <2>5 DEF PagesOf
  <2> HIDE DEF S, T
  <2>11. PagesIn(T) = PagesIn(S) \ Run(b.base, n)
    <3>1. CASE b.property > n
      <4>1. PagesIn(T) = (PagesIn(S) \ PagesOf(b)) \cup (PagesOf(b) \ Run(b.base, n))
        BY <2>3, <2>6, <2>9, <3>1, PagesInAdd
      <4> QED  BY <2>6, <2>7, <4>1
    <3>2. CASE ~ (b.property > n)
      <4>1. T = S \ {b}
        BY <2>3, <3>2
      <4> QED  BY <2>6, <2>10, <3>2, <4>1
    <3> QED  BY <3>1, <3>2
  <2>12. Disjoint(T) /\ (Apart(S) => Apart(T))
    <3>1. CASE b.property > n
      BY <2>3, <2>9, <3>1
    <3>2. CASE ~ (b.property > n)
      <4>1. T = S \ {b}
        BY <2>3, <3>2
      <4> QED  BY <2>4, <4>1 DEF Disjoint, Apart
    <3> QED  BY <3>1, <3>2
  <2>13. k.PG_property = {d.base : d \in T}
    <3>1. \A d \in S \ {b} : d.base # b.base
      BY <2>4, HeadsDiffer
    <3>2. CASE b.property > n
      <4>1. c.base # b.base
        BY <2>2, <2>5, <2>8
      <4>2. T = (S \ {b}) \cup {c} /\ k.PG_property = (m.PG_property \cup {c.base}) \ {b.base}
        BY <2>3, <3>2
      <4> QED  BY <2>4, <3>1, <4>1, <4>2
    <3>3. CASE ~ (b.property > n)
      <4>1. T = S \ {b} /\ k.PG_property = m.PG_property \ {b.base}
        BY <2>3, <3>3
      <4> QED  BY <2>4, <3>1, <4>1
    <3> QED  BY <3>2, <3>3
  <2>14. k.nr_free = Cardinality(PagesIn(T)) /\ k.nr_free \in Nat
    <3> DEFINE F == PagesIn(S)
               R == Run(b.base, n)
    <3>1. IsFiniteSet(F) /\ Cardinality(F) \in Nat /\ Cardinality(F) = m.nr_free
      BY <2>4, PagesFinite DEF Sound, FreeSet, S
    <3>2. Cardinality(R) = n /\ F \cap R = R
      BY <2>5, <2>6, <2>7, RunFinite
    <3> HIDE DEF F, R
    <3>3. Cardinality(F \ R) = Cardinality(F) - Cardinality(F \cap R) /\ IsFiniteSet(F \ R)
      BY <3>1, FS_Difference
    <3>4. Cardinality(F \ R) = m.nr_free - n
      BY <3>1, <3>2, <3>3
    <3>5. Cardinality(F \ R) \in Nat
      BY <3>3, FS_CardinalityType
    <3> QED  BY <2>3, <2>11, <3>4, <3>5 DEF F, R
  <2>15. k \in Manager
    <3>1. {d.base : d \in T} \subseteq Pages
      <4>1. T \in SUBSET Block
        BY <2>3, <2>4, <2>9
      <4> QED  BY <4>1 DEF Block
    <3>2. k = Take(m, i, n)
      BY DEF k
    <3>3. k = [free_list |-> k.free_list, nr_free |-> k.nr_free, PG_property |-> k.PG_property,
               PG_reserved |-> k.PG_reserved, ref |-> k.ref, panic |-> k.panic]
      BY <1>0, <3>2 DEF Take, Manager
    <3>4. k.PG_reserved \in SUBSET Pages /\ k.ref \in [Pages -> Nat] /\ k.panic \in BOOLEAN
      BY <1>0, <2>3 DEF Manager
    <3> QED  BY <2>3, <2>13, <2>14, <3>1, <3>3, <3>4 DEF Manager
  <2>16. Sound(k)
    BY <2>3, <2>4, <2>11, <2>12, <2>13, <2>14, <2>15 DEF Sound, FreeSet, T, S
  <2>17. new.page = b.base /\ new.mem = k
    BY <2>1 DEF b, k
  <2>18. new.page # NULL
    BY <2>5, <2>17 DEF NULL, Pages
  <2>19. new.page \in Pages /\ Run(new.page, n) \subseteq FreeSet(m)
    BY <2>5, <2>6, <2>7, <2>17 DEF FreeSet, S
  <2>20. FreeSet(new.mem) = FreeSet(m) \ Run(new.page, n)
    BY <2>11, <2>17 DEF FreeSet, S, T
  <2>21. new.mem.ref = m.ref /\ new.mem.PG_reserved = m.PG_reserved /\ Sound(new.mem)
    BY <2>3, <2>16, <2>17
  <2>22. Apart(FreeBlocks(m)) => Apart(FreeBlocks(new.mem))
    BY <2>12, <2>17 DEF S, T
  <2> QED  BY <2>18, <2>19, <2>20, <2>21, <2>22
<1> QED  BY <1>1, <1>2

\* With no two blocks touching, a run of free pages lies in one block.
LEMMA RunInOneBlock ==
  ASSUME NEW S \in SUBSET Block, Disjoint(S), Apart(S),
         NEW p \in Int, NEW n \in Nat \ {0}, Run(p, n) \subseteq PagesIn(S)
  PROVE  \E b \in S : b.property >= n
<1>1. \A j \in 0 .. n - 1 : p + j \in PagesIn(S)
  BY DEF Run
<1>2. PICK b \in S : p \in PagesOf(b)
  <2>1. 0 \in 0 .. n - 1 /\ p + 0 = p
    OBVIOUS
  <2>2. p \in PagesIn(S)
    BY <1>1, <2>1
  <2> QED  BY <2>2 DEF PagesIn
<1>3. b.base \in Int /\ b.property \in Int
      /\ \A q : q \in PagesOf(b) <=> q \in Int /\ b.base <= q /\ q < b.base + b.property
  <2>1. b \in Block
    OBVIOUS
  <2> QED  BY <2>1, BlockFacts
<1> DEFINE J == {j \in 0 .. n - 1 : p + j \in PagesOf(b)}
<1>4. 0 \in J
  BY <1>2
<1>5. ASSUME NEW j \in 0 .. (n - 1) - 1, j \in J  PROVE j + 1 \in J
  <2>1. p + j \in PagesOf(b) /\ p + (j + 1) \in PagesIn(S) /\ j + 1 \in 0 .. n - 1
    BY <1>1, <1>5
  <2>2. PICK c \in S : p + (j + 1) \in PagesOf(c)
    BY <2>1 DEF PagesIn
  <2>3. c.base \in Int /\ c.property \in Int
        /\ \A q : q \in PagesOf(c) <=> q \in Int /\ c.base <= q /\ q < c.base + c.property
    <3>1. c \in Block
      OBVIOUS
    <3> QED  BY <3>1, BlockFacts
  <2>4. CASE c = b
    BY <2>1, <2>2, <2>4
  <2>5. CASE c # b
    <3>1. p + j \notin PagesOf(c) /\ p + (j + 1) \notin PagesOf(b)
      BY <2>1, <2>2, <2>5 DEF Disjoint
    <3>2. b.base + b.property = c.base
      BY <1>3, <2>1, <2>2, <2>3, <3>1
    <3> QED  BY <2>5, <3>2 DEF Apart, Touch
  <2> QED  BY <2>4, <2>5
<1>6. 0 .. n - 1 \subseteq J
  <2> DEFINE d == n - 1
  <2>1. d \in Nat /\ \A j \in 0 .. d - 1 : j \in J => j + 1 \in J
    BY <1>5
  <2> HIDE DEF J
  <2>2. 0 .. d \subseteq J
    <3> HIDE DEF d
    <3> QED  BY <1>4, <2>1, UpToInduction
  <2> QED  BY <2>2
<1>7. p + (n - 1) \in PagesOf(b)
  BY <1>6
<1> QED  BY <1>2, <1>3, <1>7

\* When no two free blocks touch, default_alloc_pages says NULL only if no n
\* free pages lie in a row.
LEMMA FirstFitExact ==
  ASSUME NEW m, Sound(m), Apart(FreeBlocks(m)), NEW n \in Nat \ {0}
  PROVE  default_alloc_pages(m, n).page = NULL
           <=> ~ \E p \in Pages : Run(p, n) \subseteq FreeSet(m)
<1> DEFINE new == default_alloc_pages(m, n)
           l == m.free_list
           S == FreeBlocks(m)
           fits == {i \in DOMAIN l : l[i].property >= n}
<1>1. ASSUME new.page # NULL  PROVE \E p \in Pages : Run(p, n) \subseteq FreeSet(m)
  <2> HIDE DEF new
  <2>1. new = default_alloc_pages(m, n)
    BY DEF new
  <2> QED  BY <1>1, <2>1, AllocPages
<1>2. ASSUME new.page = NULL, NEW p \in Pages, Run(p, n) \subseteq FreeSet(m)  PROVE FALSE
  <2>0. l \in Seq(Block) /\ DOMAIN l = 1 .. Len(l) /\ S \in SUBSET Block /\ p \in Int
    BY ListOfBlocks DEF Sound, Manager, FreeBlocks, Pages
  <2>1. n <= m.nr_free
    <3>1. Cardinality(Run(p, n)) = n
      BY <2>0, RunFinite
    <3>2. IsFiniteSet(FreeSet(m)) /\ m.nr_free = Cardinality(FreeSet(m)) /\ m.nr_free \in Nat
      BY PagesFinite DEF Sound
    <3>3. Cardinality(Run(p, n)) <= Cardinality(FreeSet(m))
      BY <1>2, <3>2, FS_Subset
    <3> QED  BY <3>1, <3>2, <3>3
  <2>2. PICK b \in S : b.property >= n
    <3>1. Disjoint(S) /\ Apart(S) /\ Run(p, n) \subseteq PagesIn(S)
      BY <1>2 DEF Sound, FreeSet
    <3> HIDE DEF S
    <3> QED  BY <2>0, <3>1, RunInOneBlock
  <2>3. fits # {}
    BY <2>0, <2>2, ListOfBlocks DEF FreeBlocks
  <2>4. fits \in SUBSET Nat
    BY <2>0
  <2>5. m.nr_free \in Nat
    BY DEF Sound, Manager
  <2>6. new = [page |-> l[Min(fits)].base, mem |-> Take(m, Min(fits), n)]
    BY <2>1, <2>3, <2>5 DEF default_alloc_pages
  <2>7. Min(fits) \in fits
    <3> HIDE DEF fits
    <3>1. \E j \in fits : \A h \in fits : j <= h
      BY <2>3, <2>4, SmallestInSet
    <3> QED  BY <3>1 DEF Min
  <2>8. l[Min(fits)] \in Block
    BY <2>0, <2>7, ListOfBlocks
  <2>9. new.page \in Pages
    BY <2>6, <2>8 DEF Block
  <2> QED  BY <1>2, <2>9 DEF NULL, Pages
<1> QED  BY <1>1, <1>2

-----------------------------------------------------------------------------
(***************************************************************************)
(* default_free_pages.  The walk has seen the blocks in Seen and has yet   *)
(* to see those in Rest: what was freed and the blocks merged with it are  *)
(* the block, the others are kept.                                         *)
(***************************************************************************)
WalkState == [block : [base : Int, property : Int], others : Seq(Block),
              PG_property : SUBSET Pages]

WalkInv(s, freed, Seen, Rest) ==
    /\ s.block \in Block
    /\ s.others \in Seq(Block) /\ IsInjective(s.others) /\ ToSet(s.others) \subseteq Seen
    /\ PagesOf(s.block) \cup PagesIn(ToSet(s.others)) = freed \cup PagesIn(Seen)
    /\ PagesOf(s.block) \cap PagesIn(ToSet(s.others)) = {}
    /\ PagesOf(s.block) \cap PagesIn(Rest) = {}
    /\ s.PG_property = {s.block.base} \cup {o.base : o \in ToSet(s.others)}
                                       \cup {b.base : b \in Rest}
    /\ Apart(Seen \cup Rest) => \A o \in ToSet(s.others) : ~ Touch(s.block, o)

\* Two blocks side by side make one block with the pages of both.
LEMMA JoinBlocks ==
  ASSUME NEW b \in Block, NEW c \in Block, b.base + b.property = c.base,
         NEW d, d = [base |-> b.base, property |-> b.property + c.property]
  PROVE  d \in Block /\ PagesOf(d) = PagesOf(b) \cup PagesOf(c)
<1>1. /\ b.base \in Int /\ b.property \in Int /\ b.property >= 1
      /\ c.base \in Int /\ c.property \in Int /\ c.property >= 1
      /\ \A q : q \in PagesOf(b) <=> q \in Int /\ b.base <= q /\ q < b.base + b.property
      /\ \A q : q \in PagesOf(c) <=> q \in Int /\ c.base <= q /\ q < c.base + c.property
  BY BlockFacts
<1>2. d \in Block
  BY <1>1 DEF Block
<1>3. \A q : q \in PagesOf(d) <=> q \in Int /\ d.base <= q /\ q < d.base + d.property
  BY <1>2, BlockFacts
<1>4. d.base = b.base /\ d.property = b.property + c.property
  OBVIOUS
<1>5. \A q : q \in PagesOf(d) <=> q \in PagesOf(b) \/ q \in PagesOf(c)
  BY <1>1, <1>3, <1>4
<1> QED  BY <1>2, <1>5

\* Each step of the walk keeps the invariant of the walk.
LEMMA MergeStep ==
  ASSUME NEW s \in WalkState, NEW freed, NEW Seen \in SUBSET Block, NEW Rest \in SUBSET Block,
         NEW b \in Rest, Disjoint(Seen \cup Rest), b \notin Seen,
         WalkInv(s, freed, Seen, Rest)
  PROVE  WalkInv(Merge(s, b), freed, Seen \cup {b}, Rest \ {b})
<1> DEFINE k == Merge(s, b)
           B == s.block
           O == ToSet(s.others)
           R == Rest \ {b}
<1>0. B \in Block /\ b \in Block /\ O \in SUBSET Block /\ s.others \in Seq(Block)
  BY DEF WalkInv
<1>1. /\ PagesOf(B) \cup PagesIn(O) = freed \cup PagesIn(Seen)
      /\ PagesOf(B) \cap PagesIn(O) = {} /\ PagesOf(B) \cap PagesIn(Rest) = {}
      /\ s.PG_property = {B.base} \cup {o.base : o \in O} \cup {c.base : c \in Rest}
      /\ Apart(Seen \cup Rest) => \A o \in O : ~ Touch(B, o)
      /\ O \subseteq Seen /\ IsInjective(s.others)
  BY DEF WalkInv
<1>2. PagesIn(Rest) = PagesIn(R) \cup PagesOf(b) /\ PagesOf(b) \cap PagesIn(R) = {}
  <2>1. Disjoint(Rest)
    BY DEF Disjoint
  <2>2. PagesIn(R) = PagesIn(Rest) \ PagesOf(b) /\ PagesOf(b) \subseteq PagesIn(Rest)
    BY <2>1, PagesInRemove
  <2> QED  BY <2>2
<1>3. PagesOf(b) \cap PagesIn(O) = {}
  <2>1. \A o \in O : PagesOf(b) \cap PagesOf(o) = {}
    BY <1>1 DEF Disjoint
  <2> QED  BY <2>1 DEF PagesIn
<1>4. PagesIn(Seen \cup {b}) = PagesIn(Seen) \cup PagesOf(b)
  BY PagesInAdd
<1>5. /\ \A o \in O : o.base # b.base /\ o.base # B.base
      /\ \A c \in R : c.base # b.base /\ c.base # B.base
      /\ b.base # B.base
  <2>1. \A o \in O : o.base \in PagesOf(o) /\ PagesOf(o) \subseteq PagesIn(O)
    BY <1>0, BlockFacts DEF PagesIn
  <2>2. \A c \in R : c.base \in PagesOf(c) /\ PagesOf(c) \subseteq PagesIn(R)
    <3>1. R \in SUBSET Block
      OBVIOUS
    <3> QED  BY <3>1, BlockFacts DEF PagesIn
  <2>3. b.base \in PagesOf(b) /\ B.base \in PagesOf(B)
    BY <1>0, BlockFacts
  <2> QED  BY <1>1, <1>2, <1>3, <2>1, <2>2, <2>3
<1>6. {c.base : c \in Rest} = {c.base : c \in R} \cup {b.base}
  OBVIOUS
<1>7. ASSUME Apart((Seen \cup {b}) \cup R)
      PROVE  /\ \A o \in O : ~ Touch(B, o) /\ ~ Touch(b, o) /\ ~ Touch(o, b)
  <2>1. (Seen \cup {b}) \cup R = Seen \cup Rest
    OBVIOUS
  <2>2. \A o \in O : o # b /\ o \in Seen
    BY <1>1
  <2> QED  BY <1>1, <1>7, <2>1, <2>2 DEF Apart
<1>8. \A c \in Block : c.base \in Int /\ c.property \in Int
  BY BlockFacts
<1>9. DOMAIN s = {"block", "others", "PG_property"} /\ DOMAIN B = {"base", "property"}
  BY DEF WalkState
<1>10. CASE B.base + B.property = b.base
  <2> DEFINE d == [base |-> B.base, property |-> B.property + b.property]
  <2>1. k.block = d /\ k.others = s.others /\ k.PG_property = s.PG_property \ {b.base}
    BY <1>9, <1>10 DEF Merge, WalkState
  <2> HIDE DEF k, B, O, R
  <2>2. d \in Block /\ PagesOf(d) = PagesOf(B) \cup PagesOf(b)
    BY <1>0, <1>10, JoinBlocks
  <2>3. d.base = B.base /\ d.base + d.property = b.base + b.property
    BY <1>0, <1>8, <1>10
  <2> HIDE DEF d
  <2>4. k.PG_property = {d.base} \cup {o.base : o \in O} \cup {c.base : c \in R}
    BY <1>1, <1>5, <1>6, <2>1, <2>3
  <2>5. Apart((Seen \cup {b}) \cup R) => \A o \in O : ~ Touch(d, o)
    BY <1>7, <2>3 DEF Touch
  <2>6. /\ PagesOf(d) \cup PagesIn(O) = freed \cup PagesIn(Seen \cup {b})
        /\ PagesOf(d) \cap PagesIn(O) = {} /\ PagesOf(d) \cap PagesIn(R) = {}
    BY <1>1, <1>2, <1>3, <1>4, <2>2
  <2>7. O \subseteq Seen \cup {b} /\ IsInjective(k.others) /\ k.others \in Seq(Block)
        /\ ToSet(k.others) = O
    BY <1>0, <1>1, <2>1 DEF O
  <2> QED  BY <2>1, <2>2, <2>4, <2>5, <2>6, <2>7 DEF WalkInv, k, R
<1>11. CASE B.base + B.property # b.base /\ b.base + b.property = B.base
  <2> DEFINE d == [base |-> b.base, property |-> b.property + B.property]
  <2>1. k.block = d /\ k.others = s.others /\ k.PG_property = s.PG_property \ {B.base}
    BY <1>9, <1>11 DEF Merge, WalkState
  <2> HIDE DEF k, B, O, R
  <2>2. d \in Block /\ PagesOf(d) = PagesOf(b) \cup PagesOf(B)
    BY <1>0, <1>11, JoinBlocks
  <2>3. d.base = b.base /\ d.base + d.property = B.base + B.property
    BY <1>0, <1>8, <1>11
  <2> HIDE DEF d
  <2>4. k.PG_property = {d.base} \cup {o.base : o \in O} \cup {c.base : c \in R}
    <3> DEFINE X == {o.base : o \in O}
               Y == {c.base : c \in R}
    <3>1. B.base \notin X /\ B.base \notin Y /\ b.base # B.base
      BY <1>5
    <3>2. k.PG_property = ({B.base} \cup X \cup (Y \cup {b.base})) \ {B.base}
      BY <1>1, <1>6, <2>1
    <3> HIDE DEF X, Y
    <3>3. k.PG_property = {d.base} \cup X \cup Y
      BY <2>3, <3>1, <3>2
    <3> QED  BY <3>3 DEF X, Y
  <2>5. Apart((Seen \cup {b}) \cup R) => \A o \in O : ~ Touch(d, o)
    BY <1>7, <2>3 DEF Touch
  <2>6. /\ PagesOf(d) \cup PagesIn(O) = freed \cup PagesIn(Seen \cup {b})
        /\ PagesOf(d) \cap PagesIn(O) = {} /\ PagesOf(d) \cap PagesIn(R) = {}
    BY <1>1, <1>2, <1>3, <1>4, <2>2
  <2>7. O \subseteq Seen \cup {b} /\ IsInjective(k.others) /\ k.others \in Seq(Block)
        /\ ToSet(k.others) = O
    BY <1>0, <1>1, <2>1 DEF O
  <2> QED  BY <2>1, <2>2, <2>4, <2>5, <2>6, <2>7 DEF WalkInv, k, R
<1>12. CASE B.base + B.property # b.base /\ b.base + b.property # B.base
  <2>1. k.block = B /\ k.others = Append(s.others, b) /\ k.PG_property = s.PG_property
    BY <1>9, <1>12 DEF Merge, WalkState
  <2> HIDE DEF k, B, O, R
  <2>2. /\ k.others \in Seq(Block) /\ ToSet(k.others) = O \cup {b} /\ IsInjective(k.others)
    BY <1>0, <1>1, <2>1, AppendSet DEF O
  <2>3. PagesIn(O \cup {b}) = PagesIn(O) \cup PagesOf(b)
    BY PagesInAdd
  <2>4. k.PG_property = {B.base} \cup {o.base : o \in O \cup {b}} \cup {c.base : c \in R}
    BY <1>1, <1>6, <2>1
  <2>5. Apart((Seen \cup {b}) \cup R) => \A o \in O \cup {b} : ~ Touch(B, o)
    BY <1>7, <1>12 DEF Touch
  <2>6. /\ PagesOf(B) \cup PagesIn(O \cup {b}) = freed \cup PagesIn(Seen \cup {b})
        /\ PagesOf(B) \cap PagesIn(O \cup {b}) = {} /\ PagesOf(B) \cap PagesIn(R) = {}
    BY <1>1, <1>2, <1>4, <2>3
  <2>7. O \cup {b} \subseteq Seen \cup {b}
    BY <1>1
  <2> QED  BY <1>0, <2>1, <2>2, <2>4, <2>5, <2>6, <2>7 DEF WalkInv, k, R
<1> QED  BY <1>10, <1>11, <1>12

\* A step of the walk stays within its states.
LEMMA MergeType ==
  ASSUME NEW s \in WalkState, NEW b \in Block
  PROVE  Merge(s, b) \in WalkState
<1> DEFINE B == s.block
<1>1. /\ B \in [base : Int, property : Int] /\ s.others \in Seq(Block)
      /\ s.PG_property \in SUBSET Pages /\ b.base \in Int /\ b.property \in Int
      /\ B.base \in Int /\ B.property \in Int
      /\ s = [block |-> s.block, others |-> s.others, PG_property |-> s.PG_property]
  BY BlockFacts DEF WalkState
<1>2. CASE B.base + B.property = b.base
  <2>1. Merge(s, b) = [s EXCEPT !.block.property = @ + b.property, !.PG_property = @ \ {b.base}]
    BY <1>2 DEF Merge
  <2>2. [B EXCEPT !.property = @ + b.property] \in [base : Int, property : Int]
    BY <1>1
  <2>3. s.PG_property \ {b.base} \in SUBSET Pages
    BY <1>1
  <2> QED  BY <1>1, <2>1, <2>2, <2>3 DEF WalkState
<1>3. CASE B.base + B.property # b.base /\ b.base + b.property = B.base
  <2>1. Merge(s, b) = [s EXCEPT !.block = [base |-> b.base, property |-> b.property + B.property],
                                !.PG_property = @ \ {B.base}]
    BY <1>3 DEF Merge
  <2>2. [base |-> b.base, property |-> b.property + B.property] \in [base : Int, property : Int]
    BY <1>1
  <2>3. s.PG_property \ {B.base} \in SUBSET Pages
    BY <1>1
  <2> QED  BY <1>1, <2>1, <2>2, <2>3 DEF WalkState
<1>4. CASE B.base + B.property # b.base /\ b.base + b.property # B.base
  <2>1. Merge(s, b) = [s EXCEPT !.others = Append(@, b)]
    BY <1>4 DEF Merge
  <2>2. Append(s.others, b) \in Seq(Block)
    BY <1>1
  <2> QED  BY <1>1, <2>1, <2>2 DEF WalkState
<1> QED  BY <1>2, <1>3, <1>4

IsWalk(w, m, base, n) ==
    /\ w \in [0 .. Len(m.free_list) -> WalkState]
    /\ w[0] = [block |-> [base |-> base, property |-> n], others |-> <<>>,
               PG_property |-> m.PG_property \cup {base}]
    /\ \A i \in 1 .. Len(m.free_list) : w[i] = Merge(w[i - 1], m.free_list[i])

\* The recursive definition of the walk describes a function.
LEMMA WalkDef ==
  ASSUME NEW m \in Manager, NEW base \in Pages, NEW n \in Nat
  PROVE  \E w : IsWalk(w, m, base, n) /\ MergeAll(m, base, n) = w[Len(m.free_list)]
<1> DEFINE l == m.free_list
           L == Len(l)
           z == [block |-> [base |-> base, property |-> n], others |-> <<>>,
                 PG_property |-> m.PG_property \cup {base}]
           G == [i \in 1 .. L |-> [s \in WalkState |-> Merge(s, l[i])]]
           Body(u) == [i \in 0 .. L |-> IF i = 0 THEN z ELSE Merge(u[i - 1], l[i])]
           c == CHOOSE u : u = Body(u)
<1>0. l \in Seq(Block) /\ L \in Nat /\ \A i \in 1 .. L : l[i] \in Block
  BY ListOfBlocks DEF Manager
<1>1. z \in WalkState
  <2>1. base \in Int /\ n \in Int /\ m.PG_property \cup {base} \in SUBSET Pages
    BY DEF Pages, Manager
  <2>2. <<>> \in Seq(Block)
    OBVIOUS
  <2> QED  BY <2>1, <2>2 DEF WalkState
<1>2. \A i \in 1 .. L : \A s \in WalkState : Merge(s, l[i]) \in WalkState
  BY <1>0, MergeType
<1>3. StepsOf(G, L, WalkState)
  BY <1>2 DEF StepsOf
<1>4. PICK s : Iterates(s, z, G, L, WalkState)
  <2> HIDE DEF z, G, L
  <2> QED  BY <1>0, <1>1, <1>3, IterateExists
<1>5. s \in [0 .. L -> WalkState] /\ s[0] = z /\ \A i \in 1 .. L : s[i] = G[i][s[i - 1]]
  <2> HIDE DEF z, G, L
  <2> QED  BY <1>4 DEF Iterates
<1>6. MergeAll(m, base, n) = c[L]
  BY DEF MergeAll
<1> HIDE DEF z, c, L, l
<1>7. ASSUME NEW i \in 1 .. L  PROVE s[i] = Merge(s[i - 1], l[i])
  <2>1. i - 1 \in 0 .. L /\ s[i - 1] \in WalkState
    BY <1>0, <1>5
  <2>2. G[i] = [u \in WalkState |-> Merge(u, l[i])]
    OBVIOUS
  <2>3. G[i][s[i - 1]] = Merge(s[i - 1], l[i])
    BY <2>1, <2>2
  <2> QED  BY <1>5, <2>3
<1>8. s = Body(s)
  BY <1>0, <1>5, <1>7
<1>9. c = Body(c)
  <2> HIDE DEF Body
  <2> QED  BY <1>8 DEF c
<1>10. c[0] = z
  BY <1>0, <1>9
<1>11. ASSUME NEW i \in 1 .. L  PROVE c[i] = Merge(c[i - 1], l[i])
  <2>1. i \in 0 .. L /\ i # 0
    BY <1>0
  <2> QED  BY <1>9, <2>1
<1>12. 0 .. L \subseteq {i \in 0 .. L : c[i] \in WalkState}
  <2> DEFINE S == {i \in 0 .. L : c[i] \in WalkState}
  <2>1. 0 \in S
    BY <1>0, <1>1, <1>10
  <2>2. ASSUME NEW i \in 0 .. L - 1, i \in S  PROVE i + 1 \in S
    <3>1. i + 1 \in 1 .. L /\ i + 1 \in 0 .. L /\ (i + 1) - 1 = i
      BY <1>0
    <3>2. c[i + 1] = Merge(c[i], l[i + 1])
      BY <1>11, <3>1
    <3> QED  BY <1>2, <2>2, <3>1, <3>2
  <2> HIDE DEF S
  <2> QED  BY <1>0, <2>1, <2>2, UpToInduction DEF S
<1>13. c \in [0 .. L -> WalkState]
  BY <1>9, <1>12
<1>14. IsWalk(c, m, base, n)
  BY <1>10, <1>11, <1>13 DEF IsWalk, z, L, l
<1> QED  BY <1>6, <1>14 DEF L, l

\* After the walk, the blocks that were not merged and the one that was have all
\* the pages there were.
LEMMA WalkEnds ==
  ASSUME NEW m, Sound(m), NEW base \in Pages, NEW n \in Nat \ {0},
         Run(base, n) \cap FreeSet(m) = {}
  PROVE  WalkInv(MergeAll(m, base, n), Run(base, n), FreeBlocks(m), {})
<1> DEFINE l == m.free_list
           L == Len(l)
           z == [block |-> [base |-> base, property |-> n], others |-> <<>>,
                 PG_property |-> m.PG_property \cup {base}]
           F == Run(base, n)
           Seen(i) == {l[j] : j \in 1 .. i}
           Rest(i) == {l[j] : j \in i + 1 .. L}
<1>0. /\ m \in Manager /\ l \in Seq(Block) /\ L \in Nat /\ DOMAIN l = 1 .. L
      /\ \A i \in 1 .. L : l[i] \in Block
      /\ \A a, b \in 1 .. L : l[a] = l[b] => a = b
  BY ListOfBlocks DEF Sound, Manager, IsInjective
<1>1. PICK w \in [0 .. L -> WalkState] :
        /\ w[0] = z
        /\ \A i \in 1 .. L : w[i] = Merge(w[i - 1], l[i])
        /\ MergeAll(m, base, n) = w[L]
  <2>1. n \in Nat
    OBVIOUS
  <2>2. PICK w : IsWalk(w, m, base, n) /\ MergeAll(m, base, n) = w[Len(m.free_list)]
    BY <1>0, <2>1, WalkDef
  <2> QED  BY <2>2 DEF IsWalk
<1>2. \A i \in 0 .. L : /\ Seen(i) \cup Rest(i) = FreeBlocks(m)
                        /\ Seen(i) \in SUBSET Block /\ Rest(i) \in SUBSET Block
  <2>1. ASSUME NEW i \in 0 .. L
        PROVE  \A j : j \in 1 .. L <=> j \in 1 .. i \/ j \in i + 1 .. L
    BY <1>0
  <2>2. FreeBlocks(m) = {l[j] : j \in 1 .. L}
    BY <1>0 DEF FreeBlocks, ToSet
  <2>3. FreeBlocks(m) \in SUBSET Block
    BY <1>0, <2>2
  <2>4. ASSUME NEW i \in 0 .. L  PROVE Seen(i) \cup Rest(i) = FreeBlocks(m)
    BY <2>1, <2>2
  <2> HIDE DEF Seen, Rest
  <2> QED  BY <2>3, <2>4
<1>3. ASSUME NEW i \in 0 .. L - 1
      PROVE  /\ i \in 0 .. L /\ i + 1 \in 1 .. L /\ i + 1 \in 0 .. L
             /\ Seen(i + 1) = Seen(i) \cup {l[i + 1]} /\ Rest(i + 1) = Rest(i) \ {l[i + 1]}
             /\ l[i + 1] \in Rest(i) /\ l[i + 1] \notin Seen(i)
  <2>1. i \in 0 .. L /\ i + 1 \in 1 .. L /\ i + 1 \in 0 .. L /\ i + 1 \in i + 1 .. L
    BY <1>0
  <2>2. \A j : j \in 1 .. i + 1 <=> j \in 1 .. i \/ j = i + 1
    BY <2>1
  <2>3. Seen(i + 1) = Seen(i) \cup {l[i + 1]}
    BY <2>2
  <2>4. l[i + 1] \in Rest(i)
    BY <2>1
  <2>5. l[i + 1] \notin Seen(i)
    <3>1. \A j \in 1 .. i : j \in 1 .. L /\ j # i + 1
      BY <2>1
    <3> QED  BY <1>0, <2>1, <3>1
  <2>6. Rest(i + 1) = Rest(i) \ {l[i + 1]}
    <3>1. \A j : j \in (i + 1) + 1 .. L <=> j \in i + 1 .. L /\ j # i + 1
      BY <1>0
    <3>2. \A j \in i + 1 .. L : j \in 1 .. L
      BY <1>0
    <3>3. \A j \in i + 1 .. L : l[j] = l[i + 1] => j = i + 1
      BY <1>0, <2>1, <3>2
    <3> QED  BY <3>1, <3>3
  <2> QED  BY <2>1, <2>3, <2>4, <2>5, <2>6
<1>4. Disjoint(FreeBlocks(m)) /\ m.PG_property = {b.base : b \in FreeBlocks(m)}
  BY DEF Sound
<1>5. WalkInv(w[0], F, Seen(0), Rest(0))
  <2>1. Seen(0) = {} /\ Rest(0) = FreeBlocks(m)
    <3>1. Seen(0) = {}
      OBVIOUS
    <3> HIDE DEF Seen, Rest
    <3>2. 0 \in 0 .. L
      BY <1>0
    <3> QED  BY <1>2, <3>1, <3>2
  <2> DEFINE b == [base |-> base, property |-> n]
  <2>2. b \in Block /\ PagesOf(b) = F /\ b.base = base
    BY DEF Block, PagesOf
  <2>3. w[0].block = b /\ w[0].others = <<>> /\ w[0].PG_property = m.PG_property \cup {base}
    BY <1>1
  <2>4. ToSet(<<>>) = {} /\ IsInjective(<<>>) /\ <<>> \in Seq(Block)
    BY DEF ToSet, IsInjective
  <2>5. PagesIn({}) = {} /\ {o.base : o \in {}} = {}
    BY DEF PagesIn
  <2>6. F \cap PagesIn(FreeBlocks(m)) = {}
    BY DEF FreeSet
  <2> HIDE DEF b, F, Seen, Rest
  <2> QED  BY <1>4, <2>1, <2>2, <2>3, <2>4, <2>5, <2>6 DEF WalkInv
<1> HIDE DEF Seen, Rest, z, F, l, L
<1>6. ASSUME NEW i \in 0 .. L - 1, WalkInv(w[i], F, Seen(i), Rest(i))
      PROVE  WalkInv(w[i + 1], F, Seen(i + 1), Rest(i + 1))
  <2>1. w[i] \in WalkState /\ w[i + 1] = Merge(w[i], l[i + 1])
    <3>1. (i + 1) - 1 = i
      OBVIOUS
    <3> QED  BY <1>1, <1>3, <3>1
  <2>2. /\ Seen(i) \in SUBSET Block /\ Rest(i) \in SUBSET Block
        /\ Disjoint(Seen(i) \cup Rest(i))
    BY <1>2, <1>3, <1>4
  <2>3. WalkInv(Merge(w[i], l[i + 1]), F, Seen(i) \cup {l[i + 1]}, Rest(i) \ {l[i + 1]})
    BY <1>3, <1>6, <2>1, <2>2, MergeStep
  <2> QED  BY <1>3, <2>1, <2>3
<1>7. WalkInv(w[L], F, Seen(L), Rest(L))
  <2> DEFINE S == {i \in 0 .. L : WalkInv(w[i], F, Seen(i), Rest(i))}
  <2>1. 0 \in S
    BY <1>0, <1>5
  <2>2. ASSUME NEW i \in 0 .. L - 1, i \in S  PROVE i + 1 \in S
    BY <1>3, <1>6, <2>2
  <2>3. 0 .. L \subseteq S
    <3> HIDE DEF S
    <3> QED  BY <1>0, <2>1, <2>2, UpToInduction
  <2>4. L \in S
    BY <1>0, <2>3
  <2> QED  BY <2>4
<1>8. Seen(L) = FreeBlocks(m) /\ Rest(L) = {}
  <2>1. Rest(L) = {}
    BY <1>0 DEF Rest
  <2>2. L \in 0 .. L
    BY <1>0
  <2> QED  BY <1>2, <2>1, <2>2
<1> QED  BY <1>1, <1>7, <1>8 DEF F

\* The merged block goes into the list, wherever its place is.
LEMMA InsertBlockSet ==
  ASSUME NEW l \in Seq(Block), NEW b \in Block, IsInjective(l), b \notin ToSet(l)
  PROVE  /\ InsertBlock(l, b) \in Seq(Block) /\ IsInjective(InsertBlock(l, b))
         /\ ToSet(InsertBlock(l, b)) = ToSet(l) \cup {b}
<1> DEFINE after == {i \in DOMAIN l : b.base + b.property <= l[i].base}
<1>1. CASE after = {}
  <2>1. InsertBlock(l, b) = Append(l, b)
    BY <1>1 DEF InsertBlock
  <2> QED  BY <2>1, AppendSet
<1>2. CASE after # {}
  <2>1. InsertBlock(l, b) = InsertAt(l, Min(after), b)
    BY <1>2 DEF InsertBlock
  <2>2. after \in SUBSET Nat
    OBVIOUS
  <2>3. Min(after) \in after
    <3> HIDE DEF after
    <3>1. \E j \in after : \A h \in after : j <= h
      BY <1>2, <2>2, SmallestInSet
    <3> QED  BY <3>1 DEF Min
  <2>4. Min(after) \in 1 .. Len(l)
    BY <2>3
  <2> HIDE DEF after
  <2> QED  BY <2>1, <2>4, InsertSet
<1> QED  BY <1>1, <1>2

\* default_free_pages adds the pages to the free list, leaves no two blocks
\* touching if there were none, and no assertion of it fails for pages that are
\* not free and not reserved.
LEMMA FreePages ==
  ASSUME NEW m, Sound(m), NEW base \in Pages, NEW n \in Nat \ {0},
         Run(base, n) \subseteq Pages, Run(base, n) \cap FreeSet(m) = {},
         Run(base, n) \cap m.PG_reserved = {},
         NEW k, k = default_free_pages(m, base, n)
  PROVE  /\ Sound(k)
         /\ FreeSet(k) = FreeSet(m) \cup Run(base, n)
         /\ k.ref = [p \in Pages |-> IF p \in Run(base, n) THEN 0 ELSE m.ref[p]]
         /\ k.PG_reserved = m.PG_reserved
         /\ Apart(FreeBlocks(m)) => Apart(FreeBlocks(k))
<1> DEFINE w == MergeAll(m, base, n)
           F == Run(base, n)
           S == FreeBlocks(m)
           O == ToSet(w.others)
           B == w.block
<1>0. m \in Manager /\ S \in SUBSET Block
  BY ListOfBlocks DEF Sound, Manager, FreeBlocks
<1>1. WalkInv(w, F, S, {})
  BY WalkEnds
<1>2. /\ B \in Block /\ w.others \in Seq(Block) /\ IsInjective(w.others) /\ O \subseteq S
      /\ PagesOf(B) \cup PagesIn(O) = F \cup PagesIn(S)
      /\ PagesOf(B) \cap PagesIn(O) = {}
      /\ w.PG_property = {B.base} \cup {o.base : o \in O}
      /\ Apart(S) => \A o \in O : ~ Touch(B, o)
  <2>1. S \cup {} = S /\ {b.base : b \in {}} = {}
    OBVIOUS
  <2> HIDE DEF w, S, F
  <2> QED  BY <1>1, <2>1 DEF WalkInv
<1>3. k = [m EXCEPT !.free_list = InsertBlock(w.others, B),
                    !.nr_free = @ + n,
                    !.PG_property = w.PG_property,
                    !.ref = [p \in Pages |-> IF p \in F THEN 0 ELSE m.ref[p]],
                    !.panic = @ \/ n = 0 \/ F \cap (m.PG_reserved \cup m.PG_property) # {}]
  BY <1>0 DEF default_free_pages
<1> HIDE DEF w
<1>4. /\ k.free_list = InsertBlock(w.others, B) /\ k.nr_free = m.nr_free + n
      /\ k.PG_property = w.PG_property /\ k.PG_reserved = m.PG_reserved
      /\ k.ref = [p \in Pages |-> IF p \in F THEN 0 ELSE m.ref[p]]
      /\ k.panic = (m.panic \/ n = 0 \/ F \cap (m.PG_reserved \cup m.PG_property) # {})
      /\ k = [free_list |-> k.free_list, nr_free |-> k.nr_free, PG_property |-> k.PG_property,
              PG_reserved |-> k.PG_reserved, ref |-> k.ref, panic |-> k.panic]
  BY <1>0, <1>3 DEF Manager
<1>5. O \in SUBSET Block /\ Disjoint(O)
  <2>1. Disjoint(S)
    BY DEF Sound
  <2> HIDE DEF S, O, B
  <2> QED  BY <1>0, <1>2, <2>1 DEF Disjoint
<1> HIDE DEF B, O
<1>6. Disjoint(O \cup {B}) /\ B \notin O
  BY <1>2, <1>5, DisjointAdd
<1>7. k.free_list \in Seq(Block) /\ IsInjective(k.free_list) /\ FreeBlocks(k) = O \cup {B}
  BY <1>2, <1>4, <1>6, InsertBlockSet DEF FreeBlocks, O
<1>8. FreeSet(k) = FreeSet(m) \cup F
  BY <1>2, <1>7, PagesInAdd DEF FreeSet
<1>9. k.nr_free = Cardinality(FreeSet(k)) /\ k.nr_free \in Nat
  <2> DEFINE E == FreeSet(m)
  <2>1. IsFiniteSet(E) /\ Cardinality(E) \in Nat /\ m.nr_free = Cardinality(E)
    BY PagesFinite DEF Sound
  <2>2. IsFiniteSet(F) /\ Cardinality(F) = n
    BY RunFinite DEF Pages
  <2>3. Cardinality(E \cap F) = 0
    <3>1. E \cap F = {} /\ Cardinality({}) = 0
      BY FS_EmptySet
    <3> QED  BY <3>1
  <2> HIDE DEF E, F
  <2>4. Cardinality(E \cup F) = Cardinality(E) + Cardinality(F) - Cardinality(E \cap F)
    BY <2>1, <2>2, FS_Union
  <2>5. Cardinality(E \cup F) = m.nr_free + n
    BY <2>1, <2>2, <2>3, <2>4
  <2> QED  BY <1>4, <1>8, <2>1, <2>5 DEF E
<1>10. k.PG_property = {b.base : b \in FreeBlocks(k)}
  BY <1>2, <1>4, <1>7
<1>11. m.PG_property \subseteq FreeSet(m)
  <2>1. m.PG_property = {b.base : b \in S}
    BY DEF Sound
  <2>2. \A b \in S : b.base \in PagesOf(b)
    BY <1>0, BlockFacts
  <2> QED  BY <2>1, <2>2 DEF FreeSet, PagesIn
<1>12. k.panic = FALSE
  BY <1>4, <1>11 DEF Sound
<1>13. k \in Manager
  <2>1. k.PG_property \in SUBSET Pages
    BY <1>2, <1>5, <1>7, <1>10 DEF Block
  <2>2. k.ref \in [Pages -> Nat] /\ k.PG_reserved \in SUBSET Pages
    BY <1>0, <1>4 DEF Manager
  <2> QED  BY <1>4, <1>7, <1>9, <1>12, <2>1, <2>2 DEF Manager
<1>14. ASSUME Apart(S)  PROVE Apart(FreeBlocks(k))
  <2>1. \A o \in O : ~ Touch(B, o) /\ ~ Touch(o, B)
    BY <1>2, <1>14 DEF Touch
  <2> QED  BY <1>2, <1>7, <1>14, <2>1 DEF Apart
<1>15. Sound(k)
  <2>1. FreeSet(k) \subseteq Pages /\ FreeSet(k) \cap k.PG_reserved = {}
    BY <1>4, <1>8 DEF Sound
  <2>2. Disjoint(FreeBlocks(k))
    BY <1>6, <1>7
  <2> QED  BY <1>7, <1>9, <1>10, <1>12, <1>13, <2>1, <2>2 DEF Sound
<1> QED  BY <1>4, <1>8, <1>14, <1>15

-----------------------------------------------------------------------------
(***************************************************************************)
(* page_init.                                                              *)
(***************************************************************************)
\* The smaller and the larger of two numbers.
LEMMA MinMaxPair ==
  ASSUME NEW a \in Int, NEW b \in Int
  PROVE  /\ Min({a, b}) \in {a, b} /\ Min({a, b}) <= a /\ Min({a, b}) <= b
         /\ Max({a, b}) \in {a, b} /\ Max({a, b}) >= a /\ Max({a, b}) >= b
<1>1. \E x \in {a, b} : \A y \in {a, b} : x <= y
  OBVIOUS
<1>2. \E x \in {a, b} : \A y \in {a, b} : x >= y
  OBVIOUS
<1>3. Min({a, b}) \in {a, b} /\ \A y \in {a, b} : Min({a, b}) <= y
  BY <1>1 DEF Min
<1>4. Max({a, b}) \in {a, b} /\ \A y \in {a, b} : Max({a, b}) >= y
  BY <1>2 DEF Max
<1> QED  BY <1>3, <1>4

\* The pages of an entry that become free: all of each is in the entry, above
\* the kernel and below KMEMSIZE.
LEMMA EntryPages ==
  ASSUME NEW e \in E820Entries
  PROVE  /\ FirstPage(e) \in Nat /\ EndPage(e) \in Nat /\ EndPage(e) <= KMEMSIZE \div PGSIZE
         /\ \A q \in Int : FirstPage(e) <= q <=> e.addr <= q * PGSIZE /\ freemem <= q * PGSIZE
         /\ \A q \in Int : q <= EndPage(e) <=> q * PGSIZE <= End(e) /\ q * PGSIZE <= KMEMSIZE
<1> DEFINE a == Max({e.addr, freemem})
           z == Min({End(e), KMEMSIZE})
<1>0. /\ e.addr \in Nat /\ e.size \in Nat /\ End(e) \in Nat
      /\ PGSIZE \in Nat \ {0} /\ KMEMSIZE \in Nat /\ freemem \in Nat
  BY Layout DEF E820Entries, End
<1>1. a \in Nat /\ a >= e.addr /\ a >= freemem /\ (a = e.addr \/ a = freemem)
  <2> DEFINE x == e.addr
  <2>1. x \in Int /\ freemem \in Int
    BY <1>0
  <2> HIDE DEF x
  <2>2. Max({x, freemem}) \in {x, freemem} /\ Max({x, freemem}) >= x /\ Max({x, freemem}) >= freemem
    BY <2>1, MinMaxPair
  <2> QED  BY <1>0, <2>2 DEF x
<1>2. z \in Nat /\ z <= End(e) /\ z <= KMEMSIZE /\ (z = End(e) \/ z = KMEMSIZE)
  BY <1>0, MinMaxPair
<1>3. FirstPage(e) = (a + PGSIZE - 1) \div PGSIZE /\ EndPage(e) = z \div PGSIZE
  BY DEF FirstPage, EndPage
<1> HIDE DEF a, z
<1>4. ASSUME NEW q \in Int
      PROVE  FirstPage(e) <= q <=> e.addr <= q * PGSIZE /\ freemem <= q * PGSIZE
  <2>1. FirstPage(e) <= q <=> a <= q * PGSIZE
    BY <1>0, <1>1, <1>3, DivCeil
  <2>2. q * PGSIZE \in Int
    BY <1>0
  <2> QED  BY <1>0, <1>1, <2>1, <2>2
<1>5. ASSUME NEW q \in Int
      PROVE  q <= EndPage(e) <=> q * PGSIZE <= End(e) /\ q * PGSIZE <= KMEMSIZE
  <2>1. q <= EndPage(e) <=> q * PGSIZE <= z
    BY <1>0, <1>2, <1>3, DivFloor
  <2>2. q * PGSIZE \in Int
    BY <1>0
  <2> QED  BY <1>0, <1>2, <2>1, <2>2
<1>6. FirstPage(e) \in Nat /\ EndPage(e) \in Nat
  BY <1>0, <1>1, <1>2, <1>3
<1>7. EndPage(e) <= KMEMSIZE \div PGSIZE
  <2>1. EndPage(e) * PGSIZE <= KMEMSIZE
    BY <1>5, <1>6
  <2> QED  BY <1>0, <1>6, <2>1, DivFloor
<1> QED  BY <1>4, <1>5, <1>6, <1>7

\* maxpa is within memory, and no usable entry ends above it, but above memory.
LEMMA MaxpaBounds ==
  ASSUME NEW map \in Seq(E820Entries)
  PROVE  /\ maxpa(map) \in Nat /\ maxpa(map) <= KMEMSIZE
         /\ \A i \in DOMAIN map : map[i].arm /\ map[i].addr < KMEMSIZE
              => maxpa(map) >= End(map[i]) \/ maxpa(map) = KMEMSIZE
<1> DEFINE D == {j \in DOMAIN map : map[j].arm /\ map[j].addr < KMEMSIZE}
           X == {0} \cup {End(map[i]) : i \in D}
           L == Len(map)
<1>0. /\ KMEMSIZE \in Nat /\ L \in Nat /\ DOMAIN map = 1 .. L
      /\ \A i \in 1 .. L : End(map[i]) \in Nat
  <2>1. KMEMSIZE \in Nat /\ L \in Nat /\ DOMAIN map = 1 .. L
    BY Layout
  <2>2. \A i \in 1 .. L : map[i] \in E820Entries
    OBVIOUS
  <2>3. \A e \in E820Entries : End(e) \in Nat
    BY DEF E820Entries, End
  <2> QED  BY <2>1, <2>2, <2>3
<1>1. \E u \in Nat : \A j \in 1 .. L : End(map[j]) <= u
  <2> DEFINE Bounded(i) == \E u \in Nat : \A j \in 1 .. i : End(map[j]) <= u
             S == {i \in 0 .. L : Bounded(i)}
  <2>1. 0 \in S
    BY <1>0
  <2>2. ASSUME NEW i \in 0 .. L - 1, i \in S  PROVE i + 1 \in S
    <3>1. PICK u \in Nat : \A j \in 1 .. i : End(map[j]) <= u
      BY <2>2
    <3> DEFINE v == u + End(map[i + 1])
    <3>2. i + 1 \in 1 .. L /\ i + 1 \in 0 .. L
      BY <1>0
    <3>3. v \in Nat /\ v >= u /\ v >= End(map[i + 1])
      BY <1>0, <3>2
    <3>4. \A j \in 1 .. i + 1 : End(map[j]) <= v
      <4> SUFFICES ASSUME NEW j \in 1 .. i + 1  PROVE End(map[j]) <= v
        OBVIOUS
      <4>1. CASE j = i + 1
        BY <3>3, <4>1
      <4>2. CASE j # i + 1
        <5>1. j \in 1 .. i /\ j \in 1 .. L
          BY <3>2, <4>2
        <5> QED  BY <1>0, <3>1, <3>3, <5>1
      <4> QED  BY <4>1, <4>2
    <3> HIDE DEF v
    <3> QED  BY <3>2, <3>3, <3>4
  <2>3. 0 .. L \subseteq S
    <3> HIDE DEF S, L
    <3> QED  BY <1>0, <2>1, <2>2, UpToInduction
  <2>4. L \in S
    <3> HIDE DEF S, L
    <3> QED  BY <1>0, <2>3
  <2> QED  BY <2>4
<1>2. PICK u \in Nat : \A j \in 1 .. L : End(map[j]) <= u
  BY <1>1
<1>3. X \in SUBSET Nat /\ X # {} /\ \A x \in X : x <= u
  BY <1>0, <1>2
<1>4. Max(X) \in X /\ \A x \in X : x <= Max(X)
  <2> HIDE DEF X
  <2>1. \E x \in X : \A y \in X : y <= x
    BY <1>3, LargestInSet
  <2>2. \E x \in X : \A y \in X : x >= y
    <3>1. \A x, y \in X : y <= x <=> x >= y
      BY <1>3
    <3> QED  BY <2>1, <3>1
  <2>3. Max(X) \in X /\ \A y \in X : Max(X) >= y
    BY <2>2 DEF Max
  <2> QED  BY <1>3, <2>3
<1>5. maxpa(map) = Min({KMEMSIZE, Max(X)})
  BY DEF maxpa
<1>6. \A i \in D : End(map[i]) \in X
  OBVIOUS
<1> HIDE DEF X
<1>7. Max(X) \in Nat
  BY <1>3, <1>4
<1>8. /\ maxpa(map) \in {KMEMSIZE, Max(X)} /\ maxpa(map) <= KMEMSIZE
  <2> DEFINE y == Max(X)
  <2>1. y \in Int /\ KMEMSIZE \in Int
    BY <1>0, <1>7
  <2> HIDE DEF y
  <2>2. Min({KMEMSIZE, y}) \in {KMEMSIZE, y} /\ Min({KMEMSIZE, y}) <= KMEMSIZE
    BY <2>1, MinMaxPair
  <2> QED  BY <1>5, <2>2 DEF y
<1> QED  BY <1>0, <1>4, <1>6, <1>7, <1>8

\* The entries that give a block, and the block they give.
Used(e) == e.arm /\ FirstPage(e) < EndPage(e)
EntryBlock(e) == [base |-> FirstPage(e), property |-> EndPage(e) - FirstPage(e)]

\* No usable entry begins where another one ends: the firmware reports such two
\* as one.
NoneTouch(map) == \A i, j \in DOMAIN map :
                    i # j /\ map[i].arm /\ map[j].arm => End(map[i]) # map[j].addr

\* The block of an entry is a block of memory that was reserved.
LEMMA EntryBlockFacts ==
  ASSUME NEW map \in Seq(E820Entries), NEW i \in DOMAIN map, Used(map[i]),
         NEW b, b = EntryBlock(map[i])
  PROVE  /\ b \in Block /\ b.base = FirstPage(map[i]) /\ b.base + b.property = EndPage(map[i])
         /\ PagesOf(b) \subseteq Pages
         /\ PagesOf(b) \subseteq 0 .. maxpa(map) \div PGSIZE - 1
<1> DEFINE e == map[i]
<1>0. e \in E820Entries
  OBVIOUS
<1>1. /\ FirstPage(e) \in Nat /\ EndPage(e) \in Nat /\ EndPage(e) <= KMEMSIZE \div PGSIZE
      /\ FirstPage(e) < EndPage(e) /\ e.arm
  BY <1>0, EntryPages DEF Used
<1>2. b.base = FirstPage(e) /\ b.property = EndPage(e) - FirstPage(e)
  BY DEF EntryBlock
<1>3. KMEMSIZE \div PGSIZE \in Int
  BY Layout
<1>4. b.base \in Pages
  BY <1>1, <1>2, <1>3 DEF Pages
<1>5. b \in Block
  BY <1>1, <1>2, <1>4 DEF Block, EntryBlock
<1>6. b.base + b.property = EndPage(e)
  BY <1>1, <1>2
<1>7. \A q : q \in PagesOf(b) <=> q \in Int /\ FirstPage(e) <= q /\ q < EndPage(e)
  BY <1>2, <1>5, <1>6, BlockFacts
<1>8. PagesOf(b) \subseteq Pages
  BY <1>1, <1>3, <1>7 DEF Pages
<1>9. EndPage(e) <= maxpa(map) \div PGSIZE
  <2> DEFINE z == EndPage(e)
             a == FirstPage(e)
  <2>1. z * PGSIZE <= End(e) /\ z * PGSIZE <= KMEMSIZE /\ e.addr <= a * PGSIZE
    <3>1. \A q \in Int : q <= EndPage(e) <=> q * PGSIZE <= End(e) /\ q * PGSIZE <= KMEMSIZE
      BY <1>0, EntryPages
    <3>2. \A q \in Int : FirstPage(e) <= q <=> e.addr <= q * PGSIZE /\ freemem <= q * PGSIZE
      BY <1>0, EntryPages
    <3>3. z \in Int /\ z <= EndPage(e) /\ a \in Int /\ FirstPage(e) <= a
      BY <1>1
    <3> QED  BY <3>1, <3>2, <3>3
  <2>2. a * PGSIZE < z * PGSIZE
    <3>1. a \in Nat /\ z \in Nat /\ a < z /\ PGSIZE \in Nat \ {0}
      BY <1>1, Layout
    <3> HIDE DEF a, z
    <3> QED  BY <3>1
  <2>3. /\ e.addr \in Int /\ End(e) \in Int /\ KMEMSIZE \in Int /\ PGSIZE \in Nat \ {0}
        /\ a * PGSIZE \in Int /\ z * PGSIZE \in Int /\ z \in Int
    BY <1>0, <1>1, Layout DEF E820Entries, End
  <2> HIDE DEF a, z
  <2>4. e.addr < KMEMSIZE
    BY <2>1, <2>2, <2>3
  <2>5. maxpa(map) \in Nat /\ (maxpa(map) >= End(e) \/ maxpa(map) = KMEMSIZE)
    BY <1>1, <2>4, MaxpaBounds
  <2>6. z * PGSIZE <= maxpa(map)
    BY <2>1, <2>3, <2>5
  <2>7. z <= maxpa(map) \div PGSIZE
    BY <2>3, <2>5, <2>6, DivFloor
  <2> QED  BY <2>7 DEF z
<1>10. PagesOf(b) \subseteq 0 .. maxpa(map) \div PGSIZE - 1
  <2>1. maxpa(map) \div PGSIZE \in Int
    BY Layout, MaxpaBounds
  <2> QED  BY <1>1, <1>7, <1>9, <2>1
<1> QED  BY <1>2, <1>5, <1>6, <1>8, <1>10

\* Two entries give blocks without a common page, and blocks that do not touch
\* unless the entries do.
LEMMA TwoEntries ==
  ASSUME NEW map \in E820Maps, NEW i \in DOMAIN map, NEW j \in DOMAIN map, i # j,
         Used(map[i]), Used(map[j]),
         NEW b, b = EntryBlock(map[i]), NEW c, c = EntryBlock(map[j])
  PROVE  /\ PagesOf(b) \cap PagesOf(c) = {}
         /\ NoneTouch(map) => ~ Touch(b, c)
<1> DEFINE d == map[i]
           e == map[j]
<1>0. map \in Seq(E820Entries) /\ d \in E820Entries /\ e \in E820Entries
  BY Firmware
<1>1. /\ b \in Block /\ b.base = FirstPage(d) /\ b.base + b.property = EndPage(d)
      /\ c \in Block /\ c.base = FirstPage(e) /\ c.base + c.property = EndPage(e)
  BY <1>0, EntryBlockFacts
<1>2. /\ End(d) <= e.addr \/ End(e) <= d.addr
      /\ NoneTouch(map) => End(d) # e.addr /\ End(e) # d.addr
  BY Firmware DEF Used, NoneTouch
<1>3. /\ FirstPage(d) \in Nat /\ EndPage(d) \in Nat /\ FirstPage(e) \in Nat /\ EndPage(e) \in Nat
      /\ d.addr <= FirstPage(d) * PGSIZE /\ EndPage(d) * PGSIZE <= End(d)
      /\ e.addr <= FirstPage(e) * PGSIZE /\ EndPage(e) * PGSIZE <= End(e)
  <2>1. \A x \in E820Entries : /\ FirstPage(x) \in Nat /\ EndPage(x) \in Nat
                               /\ x.addr <= FirstPage(x) * PGSIZE
                               /\ EndPage(x) * PGSIZE <= End(x)
    <3> SUFFICES ASSUME NEW x \in E820Entries
                 PROVE  /\ FirstPage(x) \in Nat /\ EndPage(x) \in Nat
                        /\ x.addr <= FirstPage(x) * PGSIZE /\ EndPage(x) * PGSIZE <= End(x)
      OBVIOUS
    <3>1. /\ FirstPage(x) \in Nat /\ EndPage(x) \in Nat
          /\ \A q \in Int : FirstPage(x) <= q <=> x.addr <= q * PGSIZE /\ freemem <= q * PGSIZE
          /\ \A q \in Int : q <= EndPage(x) <=> q * PGSIZE <= End(x) /\ q * PGSIZE <= KMEMSIZE
      BY EntryPages
    <3>2. FirstPage(x) <= FirstPage(x) /\ EndPage(x) <= EndPage(x)
      BY <3>1
    <3> QED  BY <3>1, <3>2
  <2> QED  BY <1>0, <2>1
<1>4. /\ d.addr \in Int /\ End(d) \in Int /\ e.addr \in Int /\ End(e) \in Int
  BY <1>0 DEF E820Entries, End
<1>5. FirstPage(d) < EndPage(d) /\ FirstPage(e) < EndPage(e)
  BY DEF Used
<1>6. ASSUME NEW x \in Nat, NEW y \in Nat, x * PGSIZE <= y * PGSIZE  PROVE x <= y
  <2>1. PGSIZE \in Nat \ {0}
    BY Layout
  <2>2. x >= y + 1 => x * PGSIZE >= (y + 1) * PGSIZE
    BY <2>1
  <2>3. (y + 1) * PGSIZE = y * PGSIZE + PGSIZE /\ x * PGSIZE \in Int /\ y * PGSIZE \in Int
    BY <2>1
  <2> QED  BY <1>6, <2>1, <2>2, <2>3
<1>7. ASSUME NEW x \in Nat, NEW y \in Nat  PROVE x * PGSIZE \in Int /\ y * PGSIZE \in Int
  BY Layout
<1>8. ASSUME End(d) <= e.addr
      PROVE  EndPage(d) <= FirstPage(e) /\ (End(d) # e.addr => EndPage(d) # FirstPage(e))
  <2>1. EndPage(d) * PGSIZE \in Int /\ FirstPage(e) * PGSIZE \in Int
    BY <1>3, <1>7
  <2>2. EndPage(d) * PGSIZE <= FirstPage(e) * PGSIZE
    BY <1>3, <1>4, <1>8, <2>1
  <2>3. EndPage(d) <= FirstPage(e)
    BY <1>3, <1>6, <2>2
  <2>4. End(d) # e.addr => EndPage(d) * PGSIZE < FirstPage(e) * PGSIZE
    BY <1>3, <1>4, <1>8, <2>1
  <2>5. End(d) # e.addr => EndPage(d) # FirstPage(e)
    BY <2>1, <2>4
  <2> QED  BY <2>3, <2>5
<1>9. ASSUME End(e) <= d.addr
      PROVE  EndPage(e) <= FirstPage(d) /\ (End(e) # d.addr => EndPage(e) # FirstPage(d))
  <2>1. EndPage(e) * PGSIZE \in Int /\ FirstPage(d) * PGSIZE \in Int
    BY <1>3, <1>7
  <2>2. EndPage(e) * PGSIZE <= FirstPage(d) * PGSIZE
    BY <1>3, <1>4, <1>9, <2>1
  <2>3. EndPage(e) <= FirstPage(d)
    BY <1>3, <1>6, <2>2
  <2>4. End(e) # d.addr => EndPage(e) * PGSIZE < FirstPage(d) * PGSIZE
    BY <1>3, <1>4, <1>9, <2>1
  <2>5. End(e) # d.addr => EndPage(e) # FirstPage(d)
    BY <2>1, <2>4
  <2> QED  BY <2>3, <2>5
<1>10. /\ \A q : q \in PagesOf(b) <=> q \in Int /\ FirstPage(d) <= q /\ q < EndPage(d)
       /\ \A q : q \in PagesOf(c) <=> q \in Int /\ FirstPage(e) <= q /\ q < EndPage(e)
  BY <1>1, BlockFacts
<1> HIDE DEF d, e
<1>11. PagesOf(b) \cap PagesOf(c) = {}
  BY <1>2, <1>3, <1>8, <1>9, <1>10
<1>12. NoneTouch(map) => ~ Touch(b, c)
  BY <1>1, <1>2, <1>3, <1>5, <1>8, <1>9 DEF Touch
<1> QED  BY <1>11, <1>12

\* After the first i entries: a block for each of them that is used, all other
\* pages reserved.
UsedTo(map, i) == {j \in 1 .. i : Used(map[j])}

InitInv(m, map, i) ==
    /\ Sound(m)
    /\ FreeBlocks(m) = {EntryBlock(map[j]) : j \in UsedTo(map, i)}
    /\ m.PG_reserved = (0 .. maxpa(map) \div PGSIZE - 1) \ FreeSet(m)
    /\ m.ref = [p \in Pages |-> 0]

\* An entry leaves the manager's state in its type.
LEMMA InitEntryType ==
  ASSUME NEW m \in Manager, NEW map \in Seq(E820Entries), NEW i \in DOMAIN map
  PROVE  InitEntry(m, map[i]) \in Manager
<1> DEFINE e == map[i]
           b == EntryBlock(e)
           f == FirstPage(e)
           n == EndPage(e) - FirstPage(e)
           k == default_init_memmap(m, f, n)
<1>1. CASE Used(e)
  <2>1. b \in Block /\ b.base = FirstPage(e) /\ PagesOf(b) \subseteq Pages
    BY <1>1, EntryBlockFacts
  <2>2. InitEntry(m, e) = k
    BY <1>1 DEF InitEntry, Used
  <2>3. f \in Pages /\ n \in Nat
    BY <2>1 DEF Block, EntryBlock
  <2>4. /\ k.free_list = Append(m.free_list, b) /\ k.nr_free = m.nr_free + n
        /\ k.PG_property = (m.PG_property \ Run(f, n)) \cup {f}
        /\ k.PG_reserved = m.PG_reserved \ Run(f, n)
        /\ k.ref = [p \in Pages |-> IF p \in Run(f, n) THEN 0 ELSE m.ref[p]]
        /\ k.panic \in BOOLEAN
        /\ k = [free_list |-> k.free_list, nr_free |-> k.nr_free, PG_property |-> k.PG_property,
                PG_reserved |-> k.PG_reserved, ref |-> k.ref, panic |-> k.panic]
    <3>1. b = [base |-> f, property |-> n]
      BY DEF EntryBlock
    <3> HIDE DEF b, f, n
    <3>2. k = [m EXCEPT !.free_list = Append(@, b), !.nr_free = @ + n,
                        !.PG_property = (@ \ Run(f, n)) \cup {f},
                        !.PG_reserved = @ \ Run(f, n),
                        !.ref = [p \in Pages |-> IF p \in Run(f, n) THEN 0 ELSE @[p]],
                        !.panic = @ \/ ~ (n > 0 /\ Run(f, n) \subseteq m.PG_reserved)]
      BY <3>1 DEF default_init_memmap
    <3> HIDE DEF k
    <3>3. k.panic = (m.panic \/ ~ (n > 0 /\ Run(f, n) \subseteq m.PG_reserved))
      BY <3>2 DEF Manager
    <3> QED  BY <3>2, <3>3 DEF Manager
  <2> HIDE DEF k, b, e, f, n
  <2>5. k.free_list \in Seq(Block)
    BY <2>1, <2>4, AppendSet DEF Manager
  <2>6. k.nr_free \in Nat /\ k.PG_property \in SUBSET Pages /\ k.PG_reserved \in SUBSET Pages
        /\ k.ref \in [Pages -> Nat]
    BY <2>3, <2>4 DEF Manager
  <2>7. k \in Manager
    BY <2>4, <2>5, <2>6 DEF Manager
  <2> QED  BY <2>2, <2>7 DEF e
<1>2. CASE ~ Used(e)
  BY <1>2 DEF InitEntry, Used
<1> QED  BY <1>1, <1>2

\* The next entry keeps what page_init maintains; none of its assertions fails.
LEMMA InitEntryStep ==
  ASSUME NEW map \in E820Maps, NEW i \in 0 .. Len(map) - 1, NEW m, InitInv(m, map, i)
  PROVE  InitInv(InitEntry(m, map[i + 1]), map, i + 1)
<1> DEFINE e == map[i + 1]
           b == EntryBlock(e)
           f == FirstPage(e)
           n == EndPage(e) - FirstPage(e)
           k == default_init_memmap(m, f, n)
           S == FreeBlocks(m)
           T == FreeBlocks(k)
<1>0. /\ map \in Seq(E820Entries) /\ Len(map) \in Nat /\ DOMAIN map = 1 .. Len(map)
      /\ i + 1 \in DOMAIN map /\ i \in Nat
  <2>1. map \in Seq(E820Entries)
    BY Firmware
  <2> QED  BY <2>1
<1>1. Sound(m) /\ m \in Manager /\ S \in SUBSET Block
  BY ListOfBlocks DEF InitInv, Sound, Manager, FreeBlocks
<1>2. CASE ~ Used(e)
  <2>1. InitEntry(m, e) = m
    BY <1>2 DEF InitEntry, Used
  <2>2. \A j : j \in 1 .. i + 1 <=> j \in 1 .. i \/ j = i + 1
    BY <1>0
  <2>3. UsedTo(map, i + 1) = UsedTo(map, i)
    BY <1>2, <2>2 DEF UsedTo
  <2> QED  BY <2>1, <2>3 DEF InitInv
<1>3. CASE Used(e)
  <2>1. /\ b \in Block /\ b.base = f /\ b.property = n
        /\ PagesOf(b) \subseteq Pages /\ PagesOf(b) \subseteq 0 .. maxpa(map) \div PGSIZE - 1
    BY <1>0, <1>3, EntryBlockFacts DEF EntryBlock
  <2>2. InitEntry(m, e) = k
    BY <1>3 DEF InitEntry, Used
  <2>3. k \in Manager
    BY <1>0, <1>1, <2>2, InitEntryType
  <2>4. Run(f, n) = PagesOf(b) /\ n > 0 /\ n \in Nat /\ f \in Int
    BY <2>1, BlockFacts DEF PagesOf, Block
  <2>5. UsedTo(map, i + 1) = UsedTo(map, i) \cup {i + 1}
    <3>1. \A j : j \in 1 .. i + 1 <=> j \in 1 .. i \/ j = i + 1
      BY <1>0
    <3> QED  BY <1>3, <3>1 DEF UsedTo
  <2>6. PagesOf(b) \cap PagesIn(S) = {}
    <3> SUFFICES ASSUME NEW c \in S  PROVE PagesOf(b) \cap PagesOf(c) = {}
      BY DEF PagesIn
    <3>1. PICK j \in UsedTo(map, i) : c = EntryBlock(map[j])
      BY DEF InitInv
    <3>2. j \in DOMAIN map /\ j # i + 1 /\ Used(map[j])
      BY <1>0 DEF UsedTo
    <3> QED  BY <1>0, <1>3, <3>1, <3>2, TwoEntries
  <2>7. PagesOf(b) \subseteq m.PG_reserved
    BY <2>1, <2>6 DEF InitInv, FreeSet
  <2>8. /\ k.free_list = Append(m.free_list, b) /\ k.nr_free = m.nr_free + n
        /\ k.PG_property = (m.PG_property \ PagesOf(b)) \cup {b.base}
        /\ k.PG_reserved = m.PG_reserved \ PagesOf(b)
        /\ k.ref = [p \in Pages |-> IF p \in PagesOf(b) THEN 0 ELSE m.ref[p]]
        /\ k.panic = (m.panic \/ ~ (n > 0 /\ PagesOf(b) \subseteq m.PG_reserved))
    <3>1. Run(f, n) = PagesOf(b) /\ b = [base |-> f, property |-> n] /\ b.base = f
      BY <2>1, <2>4 DEF EntryBlock
    <3> HIDE DEF b, f, n
    <3> QED  BY <1>1, <3>1 DEF default_init_memmap, Manager
  <2> HIDE DEF k, b, n, f
  <2>9. Disjoint(S \cup {b}) /\ b \notin S
    BY <1>1, <2>1, <2>6, DisjointAdd DEF Sound
  <2>10. IsInjective(k.free_list) /\ T = S \cup {b}
    BY <1>1, <2>1, <2>8, <2>9, AppendSet DEF Sound, Manager, FreeBlocks
  <2>11. FreeSet(k) = FreeSet(m) \cup PagesOf(b)
    BY <2>10, PagesInAdd DEF FreeSet
  <2>12. k.nr_free = Cardinality(FreeSet(k))
    <3> DEFINE E == FreeSet(m)
               F == PagesOf(b)
    <3>1. IsFiniteSet(E) /\ Cardinality(E) \in Nat /\ m.nr_free = Cardinality(E)
      BY <1>1, PagesFinite DEF Sound
    <3>2. IsFiniteSet(F) /\ Cardinality(F) = n
      BY <2>4, RunFinite
    <3>3. Cardinality(E \cap F) = 0
      <4>1. E \cap F = {} /\ Cardinality({}) = 0
        BY <2>6, FS_EmptySet DEF FreeSet
      <4> QED  BY <4>1
    <3> HIDE DEF E, F
    <3>4. Cardinality(E \cup F) = Cardinality(E) + Cardinality(F) - Cardinality(E \cap F)
      BY <3>1, <3>2, FS_Union
    <3>5. Cardinality(E \cup F) = m.nr_free + n
      BY <2>4, <3>1, <3>2, <3>3, <3>4
    <3> QED  BY <2>8, <2>11, <3>5 DEF E, F
  <2>13. k.PG_property = {c.base : c \in T}
    <3>1. m.PG_property = {c.base : c \in S}
      BY <1>1 DEF Sound
    <3>2. m.PG_property \cap PagesOf(b) = {}
      <4>1. \A c \in S : c.base \in PagesOf(c)
        BY <1>1, BlockFacts
      <4> QED  BY <2>6, <3>1, <4>1 DEF PagesIn
    <3>3. k.PG_property = m.PG_property \cup {b.base}
      BY <2>8, <3>2
    <3> QED  BY <2>10, <3>1, <3>3
  <2>14. k.panic = FALSE
    BY <1>1, <2>4, <2>7, <2>8 DEF Sound
  <2>15. FreeSet(k) \subseteq Pages /\ FreeSet(k) \cap k.PG_reserved = {}
    BY <1>1, <2>1, <2>8, <2>11 DEF Sound
  <2>16. Sound(k)
    BY <2>3, <2>9, <2>10, <2>12, <2>13, <2>14, <2>15 DEF Sound
  <2>17. T = {EntryBlock(map[j]) : j \in UsedTo(map, i + 1)}
    BY <2>5, <2>10 DEF InitInv, b
  <2>18. k.PG_reserved = (0 .. maxpa(map) \div PGSIZE - 1) \ FreeSet(k)
    BY <2>8, <2>11 DEF InitInv
  <2>19. k.ref = [p \in Pages |-> 0]
    BY <2>8 DEF InitInv
  <2> QED  BY <2>2, <2>16, <2>17, <2>18, <2>19 DEF InitInv
<1> QED  BY <1>2, <1>3

\* Before the first entry, all memory is reserved.
LEMMA InitStart ==
  ASSUME NEW map \in E820Maps, NEW m, m = default_init(0 .. maxpa(map) \div PGSIZE - 1)
  PROVE  InitInv(m, map, 0)
<1>0. map \in Seq(E820Entries)
  BY Firmware
<1>1. 0 .. maxpa(map) \div PGSIZE - 1 \subseteq Pages
  <2> DEFINE d == maxpa(map) \div PGSIZE
  <2>1. maxpa(map) \in Nat /\ maxpa(map) <= KMEMSIZE /\ PGSIZE \in Nat \ {0} /\ KMEMSIZE \in Nat
    BY <1>0, MaxpaBounds, Layout
  <2>2. d \in Int /\ KMEMSIZE \div PGSIZE \in Int /\ d * PGSIZE \in Int
    BY <2>1
  <2>3. d * PGSIZE <= maxpa(map)
    <3>1. d <= maxpa(map) \div PGSIZE
      BY <2>2
    <3> HIDE DEF d
    <3> QED  BY <2>1, <2>2, <3>1, DivFloor
  <2> HIDE DEF d
  <2>4. d * PGSIZE <= KMEMSIZE
    BY <2>1, <2>2, <2>3
  <2>5. d <= KMEMSIZE \div PGSIZE
    BY <2>1, <2>2, <2>4, DivFloor
  <2>6. 0 .. d - 1 \subseteq Pages
    BY <2>2, <2>5 DEF Pages
  <2> QED  BY <2>6 DEF d
<1>2. /\ m.free_list = <<>> /\ m.nr_free = 0 /\ m.PG_property = {} /\ m.panic = FALSE
      /\ m.PG_reserved = 0 .. maxpa(map) \div PGSIZE - 1 /\ m.ref = [p \in Pages |-> 0]
  BY DEF default_init
<1>3. m \in Manager
  <2>1. <<>> \in Seq(Block) /\ [p \in Pages |-> 0] \in [Pages -> Nat]
    OBVIOUS
  <2> QED  BY <1>1, <2>1 DEF default_init, Manager
<1>4. FreeBlocks(m) = {} /\ FreeSet(m) = {} /\ IsInjective(m.free_list)
  BY <1>2 DEF FreeBlocks, FreeSet, ToSet, PagesIn, IsInjective
<1>5. Cardinality({}) = 0
  BY FS_EmptySet
<1>6. Sound(m)
  BY <1>2, <1>3, <1>4, <1>5 DEF Sound, Disjoint
<1>7. UsedTo(map, 0) = {}
  BY DEF UsedTo
<1> QED  BY <1>2, <1>4, <1>6, <1>7 DEF InitInv

\* The loop of page_init over the entries goes on to the last of them.
LEMMA PageInit ==
  ASSUME NEW map \in E820Maps
  PROVE  InitInv(page_init(map), map, Len(map))
<1> DEFINE L == Len(map)
           z == default_init(0 .. maxpa(map) \div PGSIZE - 1)
           G == [i \in 1 .. L |-> [s \in Manager |-> InitEntry(s, map[i])]]
           Body(u) == [i \in 0 .. L |-> IF i = 0 THEN z ELSE InitEntry(u[i - 1], map[i])]
           c == CHOOSE u : u = Body(u)
<1>0. map \in Seq(E820Entries) /\ L \in Nat /\ DOMAIN map = 1 .. L
  <2>1. map \in Seq(E820Entries)
    BY Firmware
  <2> QED  BY <2>1
<1>1. InitInv(z, map, 0)
  BY InitStart
<1>2. z \in Manager
  <2> HIDE DEF z
  <2> QED  BY <1>1 DEF InitInv, Sound
<1>3. \A i \in 1 .. L : \A s \in Manager : InitEntry(s, map[i]) \in Manager
  BY <1>0, InitEntryType
<1>4. StepsOf(G, L, Manager)
  BY <1>3 DEF StepsOf
<1>5. PICK s : Iterates(s, z, G, L, Manager)
  <2> HIDE DEF z, G, L
  <2> QED  BY <1>0, <1>2, <1>4, IterateExists
<1>6. s \in [0 .. L -> Manager] /\ s[0] = z /\ \A i \in 1 .. L : s[i] = G[i][s[i - 1]]
  <2> HIDE DEF z, G, L
  <2> QED  BY <1>5 DEF Iterates
<1>7. page_init(map) = c[L]
  BY DEF page_init
<1> HIDE DEF z, c, L
<1>8. ASSUME NEW i \in 1 .. L  PROVE s[i] = InitEntry(s[i - 1], map[i])
  <2>1. i - 1 \in 0 .. L /\ s[i - 1] \in Manager
    BY <1>0, <1>6
  <2>2. G[i] = [u \in Manager |-> InitEntry(u, map[i])]
    OBVIOUS
  <2>3. G[i][s[i - 1]] = InitEntry(s[i - 1], map[i])
    BY <2>1, <2>2
  <2> QED  BY <1>6, <2>3
<1>9. s = Body(s)
  BY <1>0, <1>6, <1>8
<1>10. c = Body(c)
  <2> HIDE DEF Body
  <2> QED  BY <1>9 DEF c
<1>11. c[0] = z
  BY <1>0, <1>10
<1>12. ASSUME NEW i \in 0 .. L - 1  PROVE c[i + 1] = InitEntry(c[i], map[i + 1])
  <2>1. i + 1 \in 0 .. L /\ i + 1 # 0 /\ (i + 1) - 1 = i
    BY <1>0
  <2> QED  BY <1>10, <2>1
<1>13. 0 .. L \subseteq {i \in 0 .. L : InitInv(c[i], map, i)}
  <2> DEFINE S == {i \in 0 .. L : InitInv(c[i], map, i)}
  <2>1. 0 \in S
    BY <1>0, <1>1, <1>11
  <2>2. ASSUME NEW i \in 0 .. L - 1, i \in S  PROVE i + 1 \in S
    <3>1. i + 1 \in 0 .. L
      BY <1>0
    <3>2. InitInv(c[i], map, i)
      BY <2>2
    <3>3. InitInv(InitEntry(c[i], map[i + 1]), map, i + 1)
      BY <3>2, InitEntryStep DEF L
    <3> QED  BY <1>12, <3>1, <3>3
  <2> HIDE DEF S
  <2> QED  BY <1>0, <2>1, <2>2, UpToInduction DEF S
<1> QED  BY <1>0, <1>7, <1>13 DEF L

\* Page p is above the kernel, and all of it is in a usable entry of the map.
UsableIn(map, p) ==
    /\ freemem <= p * PGSIZE
    /\ \E i \in DOMAIN map : /\ map[i].arm
                             /\ map[i].addr <= p * PGSIZE
                             /\ (p + 1) * PGSIZE <= End(map[i])

\* page_init frees exactly the usable pages and leaves a sound manager.
LEMMA InitFree ==
  ASSUME NEW map \in E820Maps, NEW m, m = page_init(map)
  PROVE  /\ Sound(m)
         /\ FreeSet(m) = {p \in Pages : UsableIn(map, p)}
         /\ m.PG_reserved \cap FreeSet(m) = {}
         /\ m.ref = [p \in Pages |-> 0]
         /\ NoneTouch(map) => Apart(FreeBlocks(m))
<1> DEFINE L == Len(map)
           S == FreeBlocks(m)
<1>0. map \in Seq(E820Entries) /\ L \in Nat /\ DOMAIN map = 1 .. L
  <2>1. map \in Seq(E820Entries)
    BY Firmware
  <2> QED  BY <2>1
<1>1. InitInv(m, map, L)
  BY PageInit
<1> HIDE DEF L
<1>2. /\ Sound(m) /\ S = {EntryBlock(map[j]) : j \in UsedTo(map, L)}
      /\ m.PG_reserved = (0 .. maxpa(map) \div PGSIZE - 1) \ FreeSet(m)
      /\ m.ref = [p \in Pages |-> 0]
  BY <1>1 DEF InitInv
<1>3. ASSUME NEW j \in DOMAIN map, Used(map[j])
      PROVE  \A q : q \in PagesOf(EntryBlock(map[j]))
                      <=> q \in Int /\ FirstPage(map[j]) <= q /\ q < EndPage(map[j])
  <2> DEFINE b == EntryBlock(map[j])
  <2>1. b \in Block /\ b.base = FirstPage(map[j]) /\ b.base + b.property = EndPage(map[j])
    BY <1>0, <1>3, EntryBlockFacts
  <2> HIDE DEF b
  <2>2. \A q : q \in PagesOf(b) <=> q \in Int /\ b.base <= q /\ q < b.base + b.property
    BY <2>1, BlockFacts
  <2> QED  BY <2>1, <2>2 DEF b
<1>4. ASSUME NEW p \in FreeSet(m)  PROVE p \in Pages /\ UsableIn(map, p)
  <2>1. PICK b \in S : p \in PagesOf(b)
    BY DEF FreeSet, PagesIn
  <2>2. PICK j \in UsedTo(map, L) : b = EntryBlock(map[j])
    BY <1>2
  <2>3. j \in DOMAIN map /\ Used(map[j]) /\ map[j] \in E820Entries
    BY <1>0 DEF UsedTo
  <2>4. p \in Int /\ FirstPage(map[j]) <= p /\ p < EndPage(map[j]) /\ map[j].arm
    BY <1>3, <2>1, <2>2, <2>3 DEF Used
  <2>5. p + 1 \in Int /\ p + 1 <= EndPage(map[j])
    <3>1. EndPage(map[j]) \in Nat
      BY <2>3, EntryPages
    <3> QED  BY <2>4, <3>1
  <2>6. map[j].addr <= p * PGSIZE /\ freemem <= p * PGSIZE
    BY <2>3, <2>4, EntryPages
  <2>7. (p + 1) * PGSIZE <= End(map[j])
    BY <2>3, <2>5, EntryPages
  <2>8. p \in Pages
    BY <1>2 DEF Sound
  <2> QED  BY <2>3, <2>4, <2>6, <2>7, <2>8 DEF UsableIn
<1>5. ASSUME NEW p \in Pages, UsableIn(map, p)  PROVE p \in FreeSet(m)
  <2>1. PICK j \in DOMAIN map : /\ map[j].arm /\ map[j].addr <= p * PGSIZE
                                /\ (p + 1) * PGSIZE <= End(map[j])
    BY <1>5 DEF UsableIn
  <2>2. freemem <= p * PGSIZE /\ map[j] \in E820Entries
    BY <1>0, <1>5 DEF UsableIn
  <2>3. p \in Int /\ p + 1 \in Int /\ p + 1 <= KMEMSIZE \div PGSIZE
    BY Layout DEF Pages
  <2>4. (p + 1) * PGSIZE <= KMEMSIZE
    BY <2>3, Layout, DivFloor
  <2>5. FirstPage(map[j]) <= p
    BY <2>1, <2>2, <2>3, EntryPages
  <2>6. p + 1 <= EndPage(map[j])
    BY <2>1, <2>2, <2>3, <2>4, EntryPages
  <2>7. FirstPage(map[j]) \in Nat /\ EndPage(map[j]) \in Nat
    BY <2>2, EntryPages
  <2>8. p < EndPage(map[j]) /\ FirstPage(map[j]) < EndPage(map[j])
    BY <2>3, <2>5, <2>6, <2>7
  <2>9. Used(map[j])
    BY <2>1, <2>8 DEF Used
  <2>10. p \in PagesOf(EntryBlock(map[j]))
    BY <1>3, <2>3, <2>5, <2>8, <2>9
  <2>11. EntryBlock(map[j]) \in S
    BY <1>0, <1>2, <2>9 DEF UsedTo
  <2> QED  BY <2>10, <2>11 DEF FreeSet, PagesIn
<1>6. NoneTouch(map) => Apart(S)
  <2> SUFFICES ASSUME NoneTouch(map), NEW b \in S, NEW c \in S, b # c
               PROVE  ~ Touch(b, c)
    BY DEF Apart
  <2>1. PICK i \in UsedTo(map, L) : b = EntryBlock(map[i])
    BY <1>2
  <2>2. PICK j \in UsedTo(map, L) : c = EntryBlock(map[j])
    BY <1>2
  <2>3. i \in DOMAIN map /\ j \in DOMAIN map /\ i # j /\ Used(map[i]) /\ Used(map[j])
    BY <1>0, <2>1, <2>2 DEF UsedTo
  <2> QED  BY <2>1, <2>2, <2>3, TwoEntries
<1>7. FreeSet(m) = {p \in Pages : UsableIn(map, p)}
  BY <1>4, <1>5
<1> QED  BY <1>2, <1>6, <1>7

-----------------------------------------------------------------------------

\* The linear pages that table entries tab map to page p.
MappedTo(tab, p) == {la \in Las : tab[la].page = p}

\* The pages of the page tables that directory dir points to.
TablesOf(dir) == {dir[d] : d \in Dirs} \ {NULL}

\* The usable pages of a memory map.
GoodPages(map) == {p \in Pages : UsableIn(map, p)}

\* Every usable page is in one place, free, held by kernel code or a page table,
\* and none of them is reserved.  No two directory entries share a table.
Placed(m, dir, own, good) ==
    /\ Sound(m)
    /\ dir \in [Dirs -> Pages \cup {NULL}] /\ own \in SUBSET Pages
    /\ FreeSet(m) \cap own = {} /\ FreeSet(m) \cap TablesOf(dir) = {}
    /\ own \cap TablesOf(dir) = {}
    /\ FreeSet(m) \cup own \cup TablesOf(dir) = good
    /\ m.PG_reserved \cap good = {}
    /\ \A c, d \in Dirs : dir[c] = dir[d] /\ dir[c] # NULL => c = d

\* Entries lie in page tables that exist, and map pages that are held.
Tabled(dir, tab, own) ==
    /\ tab \in [Las -> Entries]
    /\ \A la \in Las : tab[la].page \in own \cup {NULL}
    /\ \A la \in Las : dir[PDX(la)] = NULL => tab[la] = Absent

\* ref is 1 for a page table and the number of mappings for other pages.
Counted(ref, dir, tab) ==
    \A p \in Pages :
      ref[p] = IF p \in TablesOf(dir) THEN 1 ELSE Cardinality(MappedTo(tab, p))

Consistent(m, dir, tab, own, good) ==
    Placed(m, dir, own, good) /\ Tabled(dir, tab, own) /\ Counted(m.ref, dir, tab)

\* The inductive invariant.
PTInv == /\ e820map \in E820Maps
         /\ Consistent(mem, pgdir, pte, held, GoodPages(e820map))
         /\ tlb \in [Las -> Entries]
         /\ TLBCoherent

(***************************************************************************)
(* Reference counts.                                                       *)
(***************************************************************************)
\* The manager's own state does not depend on the counts.
LEMMA SetRef ==
  ASSUME NEW m, Sound(m), NEW r \in [Pages -> Nat], NEW k, k = [m EXCEPT !.ref = r]
  PROVE  /\ Sound(k) /\ k.ref = r /\ k.PG_reserved = m.PG_reserved
         /\ FreeBlocks(k) = FreeBlocks(m) /\ FreeSet(k) = FreeSet(m)
<1>1. /\ k.free_list = m.free_list /\ k.nr_free = m.nr_free /\ k.PG_property = m.PG_property
      /\ k.PG_reserved = m.PG_reserved /\ k.ref = r /\ k.panic = m.panic /\ k \in Manager
  BY DEF Sound, Manager
<1>2. FreeBlocks(k) = FreeBlocks(m) /\ FreeSet(k) = FreeSet(m)
  BY <1>1 DEF FreeBlocks, FreeSet
<1> QED  BY <1>1, <1>2 DEF Sound

\* page_remove_pte drops one reference and frees the page with the last one.
LEMMA DropPage ==
  ASSUME NEW m, Sound(m), NEW p \in Pages, m.ref[p] >= 1,
         p \notin FreeSet(m), p \notin m.PG_reserved, NEW k, k = Drop(m, p)
  PROVE  /\ Sound(k) /\ k.PG_reserved = m.PG_reserved
         /\ k.ref = [m.ref EXCEPT ![p] = @ - 1]
         /\ FreeSet(k) = IF m.ref[p] = 1 THEN FreeSet(m) \cup {p} ELSE FreeSet(m)
         /\ Apart(FreeBlocks(m)) => Apart(FreeBlocks(k))
<1> DEFINE r == [m.ref EXCEPT ![p] = @ - 1]
           dec == [m EXCEPT !.ref = r]
<1>0. m.ref \in [Pages -> Nat]
  BY DEF Sound, Manager
<1>1. m.ref[p] \in Nat /\ r \in [Pages -> Nat] /\ r[p] = m.ref[p] - 1
  BY <1>0
<1>2. [m EXCEPT !.ref[p] = @ - 1] = dec
  OBVIOUS
<1>3. dec.ref = r
  BY DEF Sound, Manager
<1>4. k = IF r[p] = 0 THEN default_free_pages(dec, p, 1) ELSE dec
  BY <1>2, <1>3 DEF Drop
<1>5. /\ Sound(dec) /\ dec.PG_reserved = m.PG_reserved
      /\ FreeBlocks(dec) = FreeBlocks(m) /\ FreeSet(dec) = FreeSet(m)
  BY <1>1, SetRef
<1> HIDE DEF r, dec
<1>6. CASE m.ref[p] # 1
  <2>1. k = dec
    BY <1>1, <1>4, <1>6
  <2> QED  BY <1>3, <1>5, <1>6, <2>1 DEF r
<1>7. CASE m.ref[p] = 1
  <2>1. k = default_free_pages(dec, p, 1)
    BY <1>1, <1>4, <1>7
  <2>2. Run(p, 1) = {p}
    BY DEF Run, Pages
  <2>3. /\ Sound(k) /\ FreeSet(k) = FreeSet(dec) \cup Run(p, 1)
        /\ k.ref = [q \in Pages |-> IF q \in Run(p, 1) THEN 0 ELSE dec.ref[q]]
        /\ k.PG_reserved = dec.PG_reserved
        /\ Apart(FreeBlocks(dec)) => Apart(FreeBlocks(k))
    BY <1>5, <2>1, <2>2, FreePages
  <2>4. k.ref = r
    BY <1>1, <1>3, <1>7, <2>2, <2>3
  <2> QED  BY <1>5, <1>7, <2>2, <2>3, <2>4 DEF r
<1> QED  BY <1>6, <1>7

(***************************************************************************)
(* Mappings.                                                               *)
(***************************************************************************)
\* NULL is no page, and an entry without a page is the absent one.
LEMMA NullEntry ==
  /\ NULL \notin Pages /\ Absent \in Entries /\ Absent.page = NULL
  /\ \A x \in Entries : x.page \in Pages \cup {NULL} /\ (x.page = NULL <=> x = Absent)
BY DEF NULL, Pages, Absent, Entries

\* There are finitely many mappings.
LEMMA MappedFinite ==
  ASSUME NEW tab, NEW p
  PROVE  IsFiniteSet(MappedTo(tab, p)) /\ Cardinality(MappedTo(tab, p)) \in Nat
<1>1. MappedTo(tab, p) \subseteq Las /\ IsFiniteSet(Las)
  BY Linear DEF MappedTo
<1>2. IsFiniteSet(MappedTo(tab, p))
  BY <1>1, FS_Subset
<1> QED  BY <1>2, FS_CardinalityType

\* Entry la of tab becomes x, and one mapping moves from its old page to x's.
Rewritten(tab, k, la, x) ==
    /\ k \in [Las -> Entries] /\ k[la] = x /\ \A l \in Las : l # la => k[l] = tab[l]
    /\ \A p : p # tab[la].page /\ p # x.page => MappedTo(k, p) = MappedTo(tab, p)
    /\ tab[la].page = x.page => \A p : MappedTo(k, p) = MappedTo(tab, p)
    /\ tab[la].page # x.page =>
         /\ Cardinality(MappedTo(k, x.page)) = Cardinality(MappedTo(tab, x.page)) + 1
         /\ Cardinality(MappedTo(k, tab[la].page))
              = Cardinality(MappedTo(tab, tab[la].page)) - 1

\* Writing an entry does that.
LEMMA WriteEntry ==
  ASSUME NEW tab \in [Las -> Entries], NEW la \in Las, NEW x \in Entries
  PROVE  Rewritten(tab, [tab EXCEPT ![la] = x], la, x)
<1> DEFINE k == [tab EXCEPT ![la] = x]
           old == tab[la].page
           page == x.page
<1>1. k \in [Las -> Entries] /\ k[la] = x /\ \A l \in Las : l # la => k[l] = tab[l]
  OBVIOUS
<1> HIDE DEF k
<1>2. ASSUME NEW p, p # old, p # page  PROVE MappedTo(k, p) = MappedTo(tab, p)
  BY <1>1, <1>2 DEF MappedTo
<1>3. ASSUME old = page, NEW p  PROVE MappedTo(k, p) = MappedTo(tab, p)
  BY <1>1, <1>3 DEF MappedTo
<1>4. ASSUME old # page
      PROVE  /\ Cardinality(MappedTo(k, page)) = Cardinality(MappedTo(tab, page)) + 1
             /\ Cardinality(MappedTo(k, old)) = Cardinality(MappedTo(tab, old)) - 1
  <2>1. MappedTo(k, page) = MappedTo(tab, page) \cup {la} /\ la \notin MappedTo(tab, page)
    BY <1>1, <1>4 DEF MappedTo
  <2>2. MappedTo(k, old) = MappedTo(tab, old) \ {la} /\ la \in MappedTo(tab, old)
    BY <1>1, <1>4 DEF MappedTo
  <2>3. IsFiniteSet(MappedTo(tab, page)) /\ IsFiniteSet(MappedTo(tab, old))
    BY MappedFinite
  <2>4. Cardinality(MappedTo(tab, page) \cup {la}) = Cardinality(MappedTo(tab, page)) + 1
    BY <2>1, <2>3, FS_AddElement
  <2>5. Cardinality(MappedTo(tab, old) \ {la}) = Cardinality(MappedTo(tab, old)) - 1
    BY <2>2, <2>3, FS_RemoveElement
  <2> QED  BY <2>1, <2>2, <2>4, <2>5
<1>5. Rewritten(tab, k, la, x)
  BY <1>1, <1>2, <1>3, <1>4 DEF Rewritten
<1> QED  BY <1>5 DEF k

\* A page that no entry maps has no mappings, and the other way round.
LEMMA NoMapping ==
  ASSUME NEW tab, NEW p
  PROVE  Cardinality(MappedTo(tab, p)) = 0 <=> \A la \in Las : tab[la].page # p
<1>1. Cardinality(MappedTo(tab, p)) = 0 <=> MappedTo(tab, p) = {}
  BY MappedFinite, FS_EmptySet
<1> QED  BY <1>1 DEF MappedTo

(***************************************************************************)
(* The parts of page_insert and page_remove.                               *)
(***************************************************************************)
\* A page whose count changes stays where it is.
LEMMA RefPlaced ==
  ASSUME NEW m, NEW dir, NEW own, NEW good, Placed(m, dir, own, good),
         NEW r \in [Pages -> Nat], NEW k, k = [m EXCEPT !.ref = r]
  PROVE  /\ Placed(k, dir, own, good) /\ k.ref = r
         /\ Apart(FreeBlocks(m)) => Apart(FreeBlocks(k))
<1>1. /\ Sound(k) /\ k.ref = r /\ k.PG_reserved = m.PG_reserved
      /\ FreeBlocks(k) = FreeBlocks(m) /\ FreeSet(k) = FreeSet(m)
  BY SetRef DEF Placed
<1> QED  BY <1>1 DEF Placed

\* A page that is held leaves its holder for the free list with its last
\* reference.
OneLess(ref, p) == [ref EXCEPT ![p] = @ - 1]
Remaining(m, own, p) == IF m.ref[p] = 1 THEN own \ {p} ELSE own

LEMMA DropPlaced ==
  ASSUME NEW m, NEW dir, NEW own, NEW good, Placed(m, dir, own, good),
         NEW p \in own, m.ref[p] # 0
  PROVE  /\ Placed(Drop(m, p), dir, Remaining(m, own, p), good)
         /\ Drop(m, p).ref = OneLess(m.ref, p)
         /\ Apart(FreeBlocks(m)) => Apart(FreeBlocks(Drop(m, p)))
<1> DEFINE k == Drop(m, p)
           rest == Remaining(m, own, p)
<1>0. Sound(m) /\ p \in Pages /\ p \notin FreeSet(m) /\ p \notin m.PG_reserved
      /\ m.ref[p] >= 1
  BY DEF Placed, Sound, Manager
<1>1. /\ Sound(k) /\ k.PG_reserved = m.PG_reserved
      /\ k.ref = [m.ref EXCEPT ![p] = @ - 1]
      /\ FreeSet(k) = IF m.ref[p] = 1 THEN FreeSet(m) \cup {p} ELSE FreeSet(m)
      /\ Apart(FreeBlocks(m)) => Apart(FreeBlocks(k))
  BY <1>0, DropPage
<1>2. rest = IF m.ref[p] = 1 THEN own \ {p} ELSE own
  BY DEF Remaining
<1>3. k.ref = OneLess(m.ref, p)
  BY <1>1 DEF OneLess
<1> HIDE DEF k, rest
<1>4. CASE m.ref[p] = 1
  <2>1. FreeSet(k) = FreeSet(m) \cup {p} /\ rest = own \ {p}
    BY <1>1, <1>2, <1>4
  <2>2. Placed(k, dir, rest, good)
    BY <1>1, <2>1 DEF Placed
  <2> QED  BY <1>1, <1>3, <2>2 DEF k, rest
<1>5. CASE m.ref[p] # 1
  <2>1. FreeSet(k) = FreeSet(m) /\ rest = own
    BY <1>1, <1>2, <1>5
  <2>2. Placed(k, dir, rest, good)
    BY <1>1, <2>1 DEF Placed
  <2> QED  BY <1>1, <1>3, <2>2 DEF k, rest
<1> QED  BY <1>4, <1>5

\* get_pte finds the page table or makes one, and changes no entry.
LEMMA GetPte ==
  ASSUME NEW good, Consistent(mem, pgdir, pte, held, good),
         NEW la \in Las, NEW g, g = get_pte(la), g.found
  PROVE  /\ Consistent(g.mem, g.pgdir, g.pte, held, good)
         /\ g.pte = pte /\ g.pgdir[PDX(la)] # NULL
         /\ Apart(FreeBlocks(mem)) => Apart(FreeBlocks(g.mem))
<1> DEFINE d == PDX(la)
           new == default_alloc_pages(mem, 1)
           q == new.page
           r == [mem.ref EXCEPT ![q] = 1]
<1>0. d \in Dirs /\ Sound(mem)
  BY DEF Dirs, Consistent, Placed
<1>1. CASE pgdir[d] # NULL
  <2>1. g = [found |-> TRUE, mem |-> mem, pgdir |-> pgdir, pte |-> pte]
    BY <1>1 DEF get_pte
  <2> QED  BY <1>1, <2>1
<1>2. CASE pgdir[d] = NULL
  <2>1. q # NULL
    BY <1>2 DEF get_pte
  <2>2. /\ g.mem = [new.mem EXCEPT !.ref[q] = 1] /\ g.pgdir = [pgdir EXCEPT ![d] = q]
        /\ g.pte = [l \in Las |-> IF PDX(l) = d THEN Absent ELSE pte[l]]
    BY <1>2, <2>1 DEF get_pte
  <2> HIDE DEF new
  <2>3. /\ q \in Pages /\ Run(q, 1) \subseteq FreeSet(mem) /\ Sound(new.mem)
        /\ FreeSet(new.mem) = FreeSet(mem) \ Run(q, 1)
        /\ new.mem.ref = mem.ref /\ new.mem.PG_reserved = mem.PG_reserved
        /\ Apart(FreeBlocks(mem)) => Apart(FreeBlocks(new.mem))
    <3>1. 1 \in Nat \ {0} /\ new = default_alloc_pages(mem, 1)
      BY DEF new
    <3> QED  BY <1>0, <2>1, <3>1, AllocPages
  <2> HIDE DEF q
  <2>4. Run(q, 1) = {q}
    BY <2>3 DEF Run, Pages
  <2>5. r \in [Pages -> Nat] /\ g.mem = [new.mem EXCEPT !.ref = r]
    <3>1. mem.ref \in [Pages -> Nat] /\ new.mem \in Manager
      BY <1>0, <2>3 DEF Sound, Manager
    <3>2. r \in [Pages -> Nat]
      BY <2>3, <3>1
    <3> QED  BY <2>2, <2>3, <3>1, <3>2 DEF Manager
  <2> HIDE DEF r
  <2>6. /\ Sound(g.mem) /\ g.mem.ref = r /\ g.mem.PG_reserved = mem.PG_reserved
        /\ FreeBlocks(g.mem) = FreeBlocks(new.mem) /\ FreeSet(g.mem) = FreeSet(mem) \ {q}
    <3> DEFINE b == new.mem
               k == g.mem
    <3>1. Sound(b) /\ k = [b EXCEPT !.ref = r]
      BY <2>3, <2>5
    <3> HIDE DEF b, k
    <3>2. /\ Sound(k) /\ k.ref = r /\ k.PG_reserved = b.PG_reserved
          /\ FreeBlocks(k) = FreeBlocks(b) /\ FreeSet(k) = FreeSet(b)
      BY <2>5, <3>1, SetRef
    <3> QED  BY <2>3, <2>4, <3>2 DEF b, k
  <2>7. pgdir \in [Dirs -> Pages \cup {NULL}] /\ q \in FreeSet(mem)
    BY <2>3, <2>4 DEF Consistent, Placed
  <2>8. /\ g.pgdir \in [Dirs -> Pages \cup {NULL}] /\ g.pgdir[d] = q
        /\ \A c \in Dirs : c # d => g.pgdir[c] = pgdir[c]
    BY <1>0, <2>2, <2>3, <2>7
  <2>9. TablesOf(g.pgdir) = TablesOf(pgdir) \cup {q}
    <3>1. \A c \in Dirs : pgdir[c] # NULL => c # d
      BY <1>2
    <3> HIDE DEF d
    <3> QED  BY <1>0, <2>1, <2>8, <3>1 DEF TablesOf
  <2>10. Placed(g.mem, g.pgdir, held, good)
    <3>1. /\ FreeSet(g.mem) \cap held = {} /\ FreeSet(g.mem) \cap TablesOf(g.pgdir) = {}
          /\ held \cap TablesOf(g.pgdir) = {}
          /\ FreeSet(g.mem) \cup held \cup TablesOf(g.pgdir) = good
          /\ g.mem.PG_reserved \cap good = {} /\ held \in SUBSET Pages
      BY <2>6, <2>7, <2>9 DEF Consistent, Placed
    <3>2. ASSUME NEW b \in Dirs, NEW c \in Dirs, g.pgdir[b] = g.pgdir[c], g.pgdir[b] # NULL
          PROVE  b = c
      <4>1. \A e \in Dirs : pgdir[e] # q
        BY <2>1, <2>7 DEF Consistent, Placed, TablesOf
      <4>2. pgdir[b] = pgdir[c] /\ pgdir[b] # NULL => b = c
        BY DEF Consistent, Placed
      <4> QED  BY <2>8, <3>2, <4>1, <4>2
    <3> QED  BY <2>6, <2>8, <3>1, <3>2 DEF Placed
  <2>11. g.pte = pte
    <3>1. \A l \in Las : PDX(l) = d => pte[l] = Absent
      BY <1>2 DEF Consistent, Tabled
    <3>2. pte \in [Las -> Entries]
      BY DEF Consistent, Tabled
    <3> QED  BY <2>2, <3>1, <3>2
  <2>12. Tabled(g.pgdir, g.pte, held)
    <3>1. \A l \in Las : PDX(l) \in Dirs
      BY DEF Dirs
    <3>2. \A l \in Las : g.pgdir[PDX(l)] = NULL => pgdir[PDX(l)] = NULL
      BY <1>2, <2>8, <3>1
    <3> QED  BY <2>11, <3>2 DEF Consistent, Tabled
  <2>13. Counted(g.mem.ref, g.pgdir, g.pte)
    <3> SUFFICES ASSUME NEW p \in Pages
                 PROVE  r[p] = IF p \in TablesOf(g.pgdir) THEN 1
                               ELSE Cardinality(MappedTo(pte, p))
      BY <2>6, <2>11 DEF Counted
    <3>1. mem.ref[p] = IF p \in TablesOf(pgdir) THEN 1 ELSE Cardinality(MappedTo(pte, p))
      BY DEF Consistent, Counted
    <3>2. mem.ref \in [Pages -> Nat]
      BY <1>0 DEF Sound, Manager
    <3>3. CASE p = q
      BY <2>9, <3>2, <3>3 DEF r
    <3>4. CASE p # q
      BY <2>9, <3>1, <3>2, <3>4 DEF r
    <3> QED  BY <3>3, <3>4
  <2> QED  BY <2>1, <2>3, <2>6, <2>8, <2>10, <2>11, <2>12, <2>13 DEF Consistent
<1> QED  BY <1>1, <1>2

\* The end of page_insert: the count, the old mapping and the entry.
OneMore(m, page) == [m EXCEPT !.ref[page] = @ + 1]

LEMMA InsertEntry ==
  ASSUME NEW m, NEW dir, NEW tab, NEW own, NEW good, Consistent(m, dir, tab, own, good),
         NEW page \in own, NEW la \in Las, NEW perm \in Perms, dir[PDX(la)] # NULL,
         NEW old, old = tab[la].page,
         NEW inc, inc = OneMore(m, page),
         NEW k, k = IF old = NULL THEN inc ELSE IF old = page THEN m ELSE Drop(inc, old),
         NEW rest, rest = IF old \in {NULL, page} THEN own ELSE Remaining(inc, own, old),
         NEW t, t = [tab EXCEPT ![la] = [page |-> page, perm |-> perm]]
  PROVE  /\ Consistent(k, dir, t, rest, good)
         /\ Apart(FreeBlocks(m)) => Apart(FreeBlocks(k))
<1> DEFINE x == [page |-> page, perm |-> perm]
           r == [m.ref EXCEPT ![page] = @ + 1]
<1>0. /\ Placed(m, dir, own, good) /\ Tabled(dir, tab, own) /\ Counted(m.ref, dir, tab)
      /\ Sound(m) /\ m \in Manager /\ m.ref \in [Pages -> Nat]
      /\ own \in SUBSET Pages /\ page \in Pages /\ own \cap TablesOf(dir) = {}
      /\ tab \in [Las -> Entries]
  BY DEF Consistent, Placed, Tabled, Sound, Manager
<1>1. x \in Entries /\ x.page = page /\ page # NULL /\ x # Absent
  BY <1>0, NullEntry DEF Entries
<1> HIDE DEF x
<1>2. /\ t \in [Las -> Entries] /\ t[la] = x /\ \A l \in Las : l # la => t[l] = tab[l]
      /\ \A p : p # old /\ p # page => MappedTo(t, p) = MappedTo(tab, p)
      /\ old = page => \A p : MappedTo(t, p) = MappedTo(tab, p)
      /\ old # page =>
           /\ Cardinality(MappedTo(t, page)) = Cardinality(MappedTo(tab, page)) + 1
           /\ Cardinality(MappedTo(t, old)) = Cardinality(MappedTo(tab, old)) - 1
  <2>1. t = [tab EXCEPT ![la] = x]
    BY DEF x
  <2>2. Rewritten(tab, t, la, x)
    <3>1. Rewritten(tab, [tab EXCEPT ![la] = x], la, x)
      BY <1>0, <1>1, WriteEntry
    <3> QED  BY <2>1, <3>1
  <2> QED  BY <1>1, <2>2 DEF Rewritten
<1>3. \A l \in Las : dir[PDX(l)] = NULL => t[l] = Absent
  BY <1>0, <1>2 DEF Tabled
<1>4. old \in own \cup {NULL} /\ \A l \in Las : tab[l].page \in own \cup {NULL}
  BY <1>0 DEF Tabled
<1>5. CASE old = page
  <2>1. k = m /\ rest = own
    BY <1>1, <1>5
  <2>2. Tabled(dir, t, own)
    BY <1>1, <1>2, <1>3, <1>4 DEF Tabled
  <2>3. Counted(m.ref, dir, t)
    BY <1>0, <1>2, <1>5 DEF Counted
  <2> QED  BY <1>0, <2>1, <2>2, <2>3 DEF Consistent
<1>6. r \in [Pages -> Nat] /\ inc = [m EXCEPT !.ref = r]
  BY <1>0 DEF Manager, OneMore
<1>7. r[page] = m.ref[page] + 1 /\ \A p \in Pages : p # page => r[p] = m.ref[p]
  BY <1>0
<1> HIDE DEF r
<1>8. /\ Placed(inc, dir, own, good) /\ inc.ref = r
      /\ Apart(FreeBlocks(m)) => Apart(FreeBlocks(inc))
  BY <1>0, <1>6, RefPlaced
<1>9. \A p \in own : p \in Pages /\ m.ref[p] = Cardinality(MappedTo(tab, p))
  BY <1>0 DEF Counted
<1>10. CASE old = NULL
  <2>1. k = inc /\ rest = own
    BY <1>10
  <2>2. Tabled(dir, t, own)
    BY <1>1, <1>2, <1>3, <1>4 DEF Tabled
  <2>3. Counted(r, dir, t)
    <3> SUFFICES ASSUME NEW p \in Pages
                 PROVE  r[p] = IF p \in TablesOf(dir) THEN 1
                               ELSE Cardinality(MappedTo(t, p))
      BY DEF Counted
    <3>1. CASE p = page
      BY <1>0, <1>1, <1>2, <1>7, <1>9, <1>10, <3>1
    <3>2. CASE p # page
      <4>1. MappedTo(t, p) = MappedTo(tab, p)
        BY <1>2, <1>10, <3>2, NullEntry
      <4> QED  BY <1>0, <1>7, <3>2, <4>1 DEF Counted
    <3> QED  BY <3>1, <3>2
  <2> QED  BY <1>8, <2>1, <2>2, <2>3 DEF Consistent
<1>11. CASE old # NULL /\ old # page
  <2>1. k = Drop(inc, old) /\ rest = Remaining(inc, own, old)
    BY <1>11
  <2>2. old \in own /\ old \in Pages /\ inc.ref[old] = m.ref[old]
        /\ m.ref[old] = Cardinality(MappedTo(tab, old))
    BY <1>4, <1>7, <1>8, <1>9, <1>11
  <2>3. Cardinality(MappedTo(t, old)) = m.ref[old] - 1 /\ Cardinality(MappedTo(t, old)) \in Nat
    BY <1>2, <1>11, <2>2, MappedFinite
  <2>4. inc.ref[old] # 0
    BY <1>0, <2>2, <2>3
  <2>5. /\ Placed(k, dir, rest, good) /\ k.ref = OneLess(inc.ref, old)
        /\ Apart(FreeBlocks(inc)) => Apart(FreeBlocks(k))
    <3>1. /\ Placed(Drop(inc, old), dir, Remaining(inc, own, old), good)
          /\ Drop(inc, old).ref = OneLess(inc.ref, old)
          /\ Apart(FreeBlocks(inc)) => Apart(FreeBlocks(Drop(inc, old)))
      BY <1>8, <2>2, <2>4, DropPlaced
    <3> QED  BY <2>1, <3>1
  <2>6. Tabled(dir, t, rest)
    <3>1. ASSUME NEW l \in Las  PROVE t[l].page \in rest \cup {NULL}
      <4>1. t[l].page \in own \cup {NULL}
        BY <1>1, <1>2, <1>4
      <4>2. CASE inc.ref[old] = 1
        <5>1. Cardinality(MappedTo(t, old)) = 0
          BY <2>2, <2>3, <4>2
        <5>2. t[l].page # old
          BY <5>1, NoMapping
        <5> QED  BY <2>1, <4>1, <4>2, <5>2 DEF Remaining
      <4>3. CASE inc.ref[old] # 1
        BY <2>1, <4>1, <4>3 DEF Remaining
      <4> QED  BY <4>2, <4>3
    <3> QED  BY <1>2, <1>3, <3>1 DEF Tabled
  <2>7. Counted(k.ref, dir, t)
    <3> SUFFICES ASSUME NEW p \in Pages
                 PROVE  k.ref[p] = IF p \in TablesOf(dir) THEN 1
                                   ELSE Cardinality(MappedTo(t, p))
      BY DEF Counted
    <3>1. k.ref[p] = IF p = old THEN r[old] - 1 ELSE r[p]
      BY <1>6, <1>8, <2>2, <2>5 DEF OneLess
    <3>2. CASE p = page
      BY <1>0, <1>2, <1>7, <1>9, <1>11, <3>1, <3>2
    <3>3. CASE p = old
      <4>1. p \notin TablesOf(dir) /\ r[old] = m.ref[old]
        BY <1>0, <1>7, <1>11, <2>2, <3>3
      <4> QED  BY <2>3, <3>1, <3>3, <4>1
    <3>4. CASE p # page /\ p # old
      <4>1. MappedTo(t, p) = MappedTo(tab, p)
        BY <1>2, <3>4
      <4> QED  BY <1>0, <1>7, <3>1, <3>4, <4>1 DEF Counted
    <3> QED  BY <3>2, <3>3, <3>4
  <2> QED  BY <1>8, <2>5, <2>6, <2>7 DEF Consistent
<1> QED  BY <1>5, <1>10, <1>11

\* page_remove_pte: the mapping goes, and the page with its last one.
LEMMA RemoveEntry ==
  ASSUME NEW m, NEW dir, NEW tab, NEW own, NEW good, Consistent(m, dir, tab, own, good),
         NEW la \in Las, tab[la] # Absent, NEW old, old = tab[la].page,
         NEW t, t = Invalidate(la, tab)
  PROVE  /\ Consistent(Drop(m, old), dir, t, Remaining(m, own, old), good)
         /\ Apart(FreeBlocks(m)) => Apart(FreeBlocks(Drop(m, old)))
<1> DEFINE k == Drop(m, old)
           rest == Remaining(m, own, old)
<1>0. /\ Placed(m, dir, own, good) /\ Tabled(dir, tab, own) /\ Counted(m.ref, dir, tab)
      /\ m.ref \in [Pages -> Nat] /\ own \in SUBSET Pages /\ own \cap TablesOf(dir) = {}
      /\ tab \in [Las -> Entries]
  BY DEF Consistent, Placed, Tabled, Sound, Manager
<1>1. tab[la].page # NULL /\ Absent.page = NULL /\ Absent \in Entries /\ NULL \notin Pages
  BY <1>0, NullEntry
<1>2. /\ t \in [Las -> Entries] /\ t[la] = Absent /\ \A l \in Las : l # la => t[l] = tab[l]
      /\ \A p : p # old /\ p # NULL => MappedTo(t, p) = MappedTo(tab, p)
      /\ Cardinality(MappedTo(t, old)) = Cardinality(MappedTo(tab, old)) - 1
  <2>1. Rewritten(tab, t, la, Absent)
    <3>1. Rewritten(tab, [tab EXCEPT ![la] = Absent], la, Absent)
      BY <1>0, <1>1, WriteEntry
    <3> QED  BY <3>1 DEF Invalidate
  <2> QED  BY <1>1, <2>1 DEF Rewritten
<1>3. old \in own /\ old \in Pages /\ old # NULL /\ old \notin TablesOf(dir)
  BY <1>0, <1>1 DEF Tabled
<1>4. m.ref[old] = Cardinality(MappedTo(tab, old))
  BY <1>0, <1>3 DEF Counted
<1>5. Cardinality(MappedTo(t, old)) = m.ref[old] - 1 /\ Cardinality(MappedTo(t, old)) \in Nat
  BY <1>2, <1>4, MappedFinite
<1>6. m.ref[old] # 0
  BY <1>0, <1>3, <1>5
<1>7. /\ Placed(k, dir, rest, good) /\ k.ref = OneLess(m.ref, old)
      /\ Apart(FreeBlocks(m)) => Apart(FreeBlocks(k))
  BY <1>0, <1>3, <1>6, DropPlaced
<1>8. rest = IF m.ref[old] = 1 THEN own \ {old} ELSE own
  BY DEF Remaining
<1> HIDE DEF k, rest
<1>9. Tabled(dir, t, rest)
  <2>1. ASSUME NEW l \in Las  PROVE t[l].page \in rest \cup {NULL}
    <3>1. t[l].page \in own \cup {NULL}
      BY <1>0, <1>1, <1>2 DEF Tabled
    <3>2. CASE m.ref[old] = 1
      <4>1. Cardinality(MappedTo(t, old)) = 0
        BY <1>5, <3>2
      <4>2. t[l].page # old
        BY <4>1, NoMapping
      <4> QED  BY <1>8, <3>1, <3>2, <4>2
    <3>3. CASE m.ref[old] # 1
      BY <1>8, <3>1, <3>3
    <3> QED  BY <3>2, <3>3
  <2>2. \A l \in Las : dir[PDX(l)] = NULL => t[l] = Absent
    BY <1>0, <1>2 DEF Tabled
  <2> QED  BY <1>2, <2>1, <2>2 DEF Tabled
<1>10. Counted(k.ref, dir, t)
  <2> SUFFICES ASSUME NEW p \in Pages
               PROVE  k.ref[p] = IF p \in TablesOf(dir) THEN 1
                                 ELSE Cardinality(MappedTo(t, p))
    BY DEF Counted
  <2>1. k.ref[p] = IF p = old THEN m.ref[old] - 1 ELSE m.ref[p]
    BY <1>0, <1>3, <1>7 DEF OneLess
  <2>2. CASE p = old
    BY <1>3, <1>5, <2>1, <2>2
  <2>3. CASE p # old
    <3>1. MappedTo(t, p) = MappedTo(tab, p)
      BY <1>1, <1>2, <2>3
    <3> QED  BY <1>0, <2>1, <2>3, <3>1 DEF Counted
  <2> QED  BY <2>2, <2>3
<1> QED  BY <1>7, <1>9, <1>10 DEF Consistent, k, rest

(***************************************************************************)
(* The invariant.                                                          *)
(***************************************************************************)
\* Initially nothing is mapped or held, and the free pages are the usable ones.
LEMMA InitOK ==
  ASSUME Init
  PROVE  PTInv /\ (NoneTouch(e820map) => Apart(FreeBlocks(mem)))
<1> DEFINE good == GoodPages(e820map)
<1>0. e820map \in E820Maps /\ mem = page_init(e820map)
  BY DEF Init
<1>1. /\ Sound(mem) /\ FreeSet(mem) = good /\ mem.PG_reserved \cap FreeSet(mem) = {}
      /\ mem.ref = [p \in Pages |-> 0]
      /\ NoneTouch(e820map) => Apart(FreeBlocks(mem))
  BY <1>0, InitFree DEF GoodPages
<1>2. /\ pgdir = [d \in Dirs |-> NULL] /\ pte = [la \in Las |-> Absent]
      /\ tlb = [la \in Las |-> Absent] /\ held = {}
  BY DEF Init
<1>3. TablesOf(pgdir) = {}
  BY <1>2 DEF TablesOf
<1> HIDE DEF good
<1>4. Placed(mem, pgdir, held, good)
  BY <1>1, <1>2, <1>3 DEF Placed
<1>5. Tabled(pgdir, pte, held)
  BY <1>2, NullEntry DEF Tabled
<1>6. Counted(mem.ref, pgdir, pte)
  <2> SUFFICES ASSUME NEW p \in Pages  PROVE 0 = Cardinality(MappedTo(pte, p))
    BY <1>1, <1>3 DEF Counted
  <2>1. \A la \in Las : pte[la].page # p
    BY <1>2, NullEntry
  <2> QED  BY <2>1, NoMapping
<1>7. tlb \in [Las -> Entries] /\ TLBCoherent
  BY <1>2, NullEntry DEF TLBCoherent
<1> QED  BY <1>0, <1>1, <1>4, <1>5, <1>6, <1>7 DEF PTInv, Consistent, good

\* What every step keeps.
Kept == PTInv' /\ e820map' = e820map
        /\ (Apart(FreeBlocks(mem)) => Apart(FreeBlocks(mem)'))

\* alloc_pages hands pages of the free list to its caller.
LEMMA AllocStep ==
  ASSUME PTInv, NEW n \in 1 .. MaxAlloc, alloc_pages(n)
  PROVE  Kept
<1> DEFINE good == GoodPages(e820map)
           new == default_alloc_pages(mem, n)
           q == new.page
<1>0. /\ Consistent(mem, pgdir, pte, held, good) /\ Placed(mem, pgdir, held, good)
      /\ Sound(mem) /\ n \in Nat \ {0}
  BY DEF PTInv, Consistent, Placed
<1>1. /\ mem' = new.mem /\ held' = IF q = NULL THEN held ELSE held \cup Run(q, n)
      /\ UNCHANGED <<e820map, pgdir, pte, tlb>>
  BY DEF alloc_pages
<1>2. /\ q = NULL => new.mem = mem
      /\ q # NULL =>
           /\ q \in Pages /\ Run(q, n) \subseteq FreeSet(mem)
           /\ Sound(new.mem)
           /\ FreeSet(new.mem) = FreeSet(mem) \ Run(q, n)
           /\ new.mem.ref = mem.ref /\ new.mem.PG_reserved = mem.PG_reserved
           /\ Apart(FreeBlocks(mem)) => Apart(FreeBlocks(new.mem))
  <2> HIDE DEF new
  <2>1. new = default_alloc_pages(mem, n)
    BY DEF new
  <2> QED  BY <1>0, <2>1, AllocPages
<1> HIDE DEF new, q, good
<1>3. Consistent(mem', pgdir, pte, held', good)
      /\ (Apart(FreeBlocks(mem)) => Apart(FreeBlocks(mem')))
  <2>1. CASE q = NULL
    BY <1>0, <1>1, <1>2, <2>1
  <2>2. CASE q # NULL
    <3> DEFINE F == Run(q, n)
               k == new.mem
    <3>1. /\ F \subseteq FreeSet(mem) /\ Sound(k) /\ FreeSet(k) = FreeSet(mem) \ F
          /\ k.ref = mem.ref /\ k.PG_reserved = mem.PG_reserved
          /\ mem' = k /\ held' = held \cup F
          /\ Apart(FreeBlocks(mem)) => Apart(FreeBlocks(mem'))
      BY <1>1, <1>2, <2>2
    <3> HIDE DEF F, k
    <3>2. F \subseteq Pages
      BY <1>0, <3>1 DEF Sound
    <3>3. Placed(k, pgdir, held \cup F, good)
      BY <1>0, <3>1, <3>2 DEF Placed
    <3>4. Tabled(pgdir, pte, held \cup F) /\ Counted(k.ref, pgdir, pte)
      BY <1>0, <3>1 DEF Consistent, Tabled
    <3> QED  BY <3>1, <3>3, <3>4 DEF Consistent
  <2> QED  BY <2>1, <2>2
<1>4. GoodPages(e820map)' = good
  BY <1>1 DEF good
<1>5. tlb' \in [Las -> Entries] /\ TLBCoherent' /\ e820map' \in E820Maps
  BY <1>1 DEF PTInv, TLBCoherent
<1> QED  BY <1>1, <1>3, <1>4, <1>5 DEF PTInv, Kept

\* free_pages takes pages that are held and not mapped.
LEMMA FreeStep ==
  ASSUME PTInv, NEW base \in held, NEW n \in 1 .. MaxAlloc, free_pages(base, n)
  PROVE  Kept
<1> DEFINE good == GoodPages(e820map)
           F == Run(base, n)
           k == default_free_pages(mem, base, n)
<1>0. /\ Consistent(mem, pgdir, pte, held, good) /\ Placed(mem, pgdir, held, good)
      /\ Sound(mem) /\ n \in Nat \ {0} /\ base \in Pages /\ held \in SUBSET Pages
  BY DEF PTInv, Consistent, Placed
<1>1. /\ mem' = k /\ held' = held \ F /\ F \subseteq held /\ \A p \in F : mem.ref[p] = 0
      /\ UNCHANGED <<e820map, pgdir, pte, tlb>>
  BY DEF free_pages
<1>2. F \subseteq Pages /\ F \cap FreeSet(mem) = {} /\ F \cap mem.PG_reserved = {}
      /\ F \cap TablesOf(pgdir) = {}
  BY <1>0, <1>1 DEF Placed
<1>3. /\ Sound(k) /\ FreeSet(k) = FreeSet(mem) \cup F
      /\ k.ref = [p \in Pages |-> IF p \in F THEN 0 ELSE mem.ref[p]]
      /\ k.PG_reserved = mem.PG_reserved
      /\ Apart(FreeBlocks(mem)) => Apart(FreeBlocks(k))
  <2> HIDE DEF k
  <2>1. k = default_free_pages(mem, base, n)
    BY DEF k
  <2> QED  BY <1>0, <1>2, <2>1, FreePages
<1> HIDE DEF k, F, good
<1>4. k.ref = mem.ref
  <2>1. mem.ref \in [Pages -> Nat]
    BY <1>0 DEF Sound, Manager
  <2> QED  BY <1>1, <1>3, <2>1
<1>5. Placed(k, pgdir, held \ F, good)
  BY <1>0, <1>1, <1>2, <1>3 DEF Placed
<1>6. Tabled(pgdir, pte, held \ F)
  <2>1. ASSUME NEW la \in Las  PROVE pte[la].page \notin F
    <3> SUFFICES ASSUME NEW p \in F, pte[la].page = p  PROVE FALSE
      OBVIOUS
    <3>1. mem.ref[p] = 0 /\ p \in Pages /\ p \notin TablesOf(pgdir)
      BY <1>1, <1>2
    <3>2. Cardinality(MappedTo(pte, p)) = 0
      BY <1>0, <3>1 DEF Consistent, Counted
    <3> QED  BY <3>2, NoMapping
  <2> QED  BY <1>0, <2>1 DEF Consistent, Tabled
<1>7. Consistent(mem', pgdir', pte', held', good)
  BY <1>0, <1>1, <1>4, <1>5, <1>6 DEF Consistent
<1>8. GoodPages(e820map)' = good
  BY <1>1 DEF good
<1>9. tlb' \in [Las -> Entries] /\ TLBCoherent' /\ e820map' \in E820Maps
  BY <1>1 DEF PTInv, TLBCoherent
<1> QED  BY <1>1, <1>3, <1>7, <1>8, <1>9 DEF PTInv, Kept

\* page_insert: the page table, the count, the old mapping and the new entry.
LEMMA InsertStep ==
  ASSUME PTInv, NEW page \in held, NEW la \in Las, NEW perm \in Perms,
         page_insert(page, la, perm)
  PROVE  Kept
<1> DEFINE good == GoodPages(e820map)
           g == get_pte(la)
           a == g.mem
           old == g.pte[la].page
           inc == OneMore(a, page)
<1>0. Consistent(mem, pgdir, pte, held, good) /\ g.found
  BY DEF PTInv, page_insert
<1>1. /\ mem' = IF old = NULL THEN inc ELSE IF old = page THEN a ELSE Drop(inc, old)
      /\ held' = IF old \in {NULL, page} THEN held ELSE Remaining(inc, held, old)
      /\ pgdir' = g.pgdir
      /\ pte' = [g.pte EXCEPT ![la] = [page |-> page, perm |-> perm]]
      /\ tlb' = Invalidate(la, tlb) /\ e820map' = e820map
  BY DEF page_insert, OneMore, Left, Remaining
<1>2. /\ Consistent(a, g.pgdir, g.pte, held, good) /\ g.pte = pte
      /\ g.pgdir[PDX(la)] # NULL
      /\ Apart(FreeBlocks(mem)) => Apart(FreeBlocks(a))
  <2> HIDE DEF g
  <2>1. g = get_pte(la)
    BY DEF g
  <2> QED  BY <1>0, <2>1, GetPte
<1> HIDE DEF g, good
<1>3. Consistent(mem', pgdir', pte', held', good)
      /\ (Apart(FreeBlocks(mem)) => Apart(FreeBlocks(mem')))
  <2> DEFINE dir == g.pgdir
             tab == g.pte
  <2>1. /\ Consistent(a, dir, tab, held, good) /\ dir[PDX(la)] # NULL /\ old = tab[la].page
        /\ pgdir' = dir /\ pte' = [tab EXCEPT ![la] = [page |-> page, perm |-> perm]]
    BY <1>1, <1>2
  <2> HIDE DEF dir, tab, a, inc, old
  <2>2. inc = OneMore(a, page)
    BY DEF inc
  <2>3. Consistent(mem', dir, pte', held', good)
        /\ (Apart(FreeBlocks(a)) => Apart(FreeBlocks(mem')))
    BY <1>1, <2>1, <2>2, InsertEntry
  <2> QED  BY <1>2, <2>1, <2>3
<1>4. GoodPages(e820map)' = good
  BY <1>1 DEF good
<1>5. tlb' \in [Las -> Entries] /\ e820map' \in E820Maps
  BY <1>1, NullEntry DEF PTInv, Invalidate
<1>6. TLBCoherent'
  <2>1. ASSUME NEW l \in Las  PROVE tlb'[l] \in {Absent, pte'[l]}
    <3>1. pte \in [Las -> Entries]
      BY <1>0 DEF Consistent, Tabled
    <3>2. tlb \in [Las -> Entries] /\ tlb[l] \in {Absent, pte[l]}
      BY DEF PTInv, TLBCoherent
    <3>3. CASE l = la
      BY <1>1, <3>2, <3>3 DEF Invalidate
    <3>4. CASE l # la
      BY <1>1, <1>2, <3>1, <3>2, <3>4 DEF Invalidate
    <3> QED  BY <3>3, <3>4
  <2> QED  BY <2>1 DEF TLBCoherent
<1> QED  BY <1>1, <1>3, <1>4, <1>5, <1>6 DEF PTInv, Kept

\* page_remove: the mapping and its translation go together.
LEMMA RemoveStep ==
  ASSUME PTInv, NEW la \in Las, page_remove(la)
  PROVE  Kept
<1> DEFINE good == GoodPages(e820map)
           old == pte[la].page
<1>0. Consistent(mem, pgdir, pte, held, good)
  BY DEF PTInv
<1>1. /\ pte[la] # Absent /\ mem' = Drop(mem, old) /\ held' = Remaining(mem, held, old)
      /\ pte' = Invalidate(la, pte) /\ tlb' = Invalidate(la, tlb)
      /\ UNCHANGED <<e820map, pgdir>>
  BY DEF page_remove, Left, Remaining, Invalidate
<1> HIDE DEF good
<1>2. Consistent(mem', pgdir', pte', held', good)
      /\ (Apart(FreeBlocks(mem)) => Apart(FreeBlocks(mem')))
  BY <1>0, <1>1, RemoveEntry
<1>3. GoodPages(e820map)' = good
  BY <1>1 DEF good
<1>4. tlb' \in [Las -> Entries] /\ e820map' \in E820Maps
  BY <1>1, NullEntry DEF PTInv, Invalidate
<1>5. TLBCoherent'
  <2>1. ASSUME NEW l \in Las  PROVE tlb'[l] \in {Absent, pte'[l]}
    <3>1. pte \in [Las -> Entries]
      BY <1>0 DEF Consistent, Tabled
    <3>2. tlb \in [Las -> Entries] /\ tlb[l] \in {Absent, pte[l]}
      BY DEF PTInv, TLBCoherent
    <3>3. CASE l = la
      BY <1>1, <3>2, <3>3 DEF Invalidate
    <3>4. CASE l # la
      BY <1>1, <3>1, <3>2, <3>4 DEF Invalidate
    <3> QED  BY <3>3, <3>4
  <2> QED  BY <2>1 DEF TLBCoherent
<1> QED  BY <1>1, <1>2, <1>3, <1>4, <1>5 DEF PTInv, Kept

\* The processor caches what the tables say.
LEMMA WalkStep ==
  ASSUME PTInv, NEW la \in Las, Walk(la)
  PROVE  Kept
<1>1. tlb' = [tlb EXCEPT ![la] = pte[la]] /\ UNCHANGED <<e820map, mem, pgdir, pte, held>>
  BY DEF Walk
<1>2. pte \in [Las -> Entries] /\ tlb \in [Las -> Entries] /\ TLBCoherent
  BY DEF PTInv, Consistent, Tabled
<1>3. tlb' \in [Las -> Entries] /\ TLBCoherent'
  BY <1>1, <1>2 DEF TLBCoherent
<1>4. Consistent(mem, pgdir, pte, held, GoodPages(e820map))' /\ e820map' \in E820Maps
  BY <1>1 DEF PTInv
<1>5. Apart(FreeBlocks(mem)) => Apart(FreeBlocks(mem)')
  BY <1>1
<1> QED  BY <1>1, <1>3, <1>4, <1>5 DEF PTInv, Kept

\* Every step keeps the invariant.
LEMMA NextKeeps ==
  ASSUME PTInv, [Next]_vars
  PROVE  Kept
<1>1. CASE \E n \in 1 .. MaxAlloc : alloc_pages(n)
  BY <1>1, AllocStep
<1>2. CASE \E base \in held, n \in 1 .. MaxAlloc : free_pages(base, n)
  BY <1>2, FreeStep
<1>3. CASE \E page \in held, la \in Las, perm \in Perms : page_insert(page, la, perm)
  BY <1>3, InsertStep
<1>4. CASE \E la \in Las : page_remove(la)
  BY <1>4, RemoveStep
<1>5. CASE \E la \in Las : Walk(la)
  BY <1>5, WalkStep
<1>6. CASE UNCHANGED vars
  <2>1. UNCHANGED <<e820map, mem, pgdir, pte, tlb, held>>
    BY <1>6 DEF vars
  <2>2. TLBCoherent'
    BY <2>1 DEF PTInv, TLBCoherent
  <2> QED  BY <2>1, <2>2 DEF PTInv, Kept
<1>7. CASE \E page \in held, la \in Las : page_insert_nomem(page, la)
  BY <1>6, <1>7 DEF page_insert_nomem
<1> QED  BY <1>1, <1>2, <1>3, <1>4, <1>5, <1>6, <1>7 DEF Next

\* The invariant holds throughout.
THEOREM Inductive == Spec => []PTInv
<1>1. Init => PTInv
  BY InitOK
<1>2. PTInv /\ [Next]_vars => PTInv'
  BY NextKeeps DEF Kept
<1> QED  BY <1>1, <1>2, PTL DEF Spec

\* TLBCoherent: neither page_remove nor page_insert leaves a stale translation,
\* whatever the processor has cached and however often a page is remapped.
THEOREM NoStaleTranslation == Spec => []TLBCoherent
<1>1. PTInv => TLBCoherent
  BY DEF PTInv
<1> QED  BY <1>1, Inductive, PTL

\* The names of the properties and those of the proofs.
LEMMA SameNames ==
  /\ Blocks = FreeBlocks(mem) /\ Free = FreeSet(mem) /\ Tables = TablesOf(pgdir)
  /\ {p \in Pages : Usable(p)} = GoodPages(e820map)
<1>1. Blocks = FreeBlocks(mem) /\ Tables = TablesOf(pgdir)
  BY DEF Blocks, FreeBlocks, Tables, TablesOf
<1>2. Free = FreeSet(mem)
  BY <1>1 DEF Free, FreeSet, PagesIn, BlockPages, PagesOf
<1>3. \A p \in Pages : Usable(p) <=> UsableIn(e820map, p)
  BY DEF Usable, UsableIn
<1> QED  BY <1>1, <1>2, <1>3 DEF GoodPages

\* RefCounted: the count of a page is the number of its mappings, and a page
\* that is mapped or a page table is not free.
THEOREM CountsMappings == Spec => []RefCounted
<1>1. ASSUME PTInv  PROVE RefCounted
  <2>0. /\ Placed(mem, pgdir, held, GoodPages(e820map)) /\ Tabled(pgdir, pte, held)
        /\ Counted(mem.ref, pgdir, pte)
    BY <1>1 DEF PTInv, Consistent
  <2> SUFFICES ASSUME NEW p \in Pages
               PROVE  /\ mem.ref[p] = IF p \in TablesOf(pgdir) THEN 1
                                      ELSE Cardinality(MappedTo(pte, p))
                      /\ mem.ref[p] > 0 => p \notin FreeSet(mem)
    BY SameNames DEF RefCounted, MappedTo
  <2>1. mem.ref[p] = IF p \in TablesOf(pgdir) THEN 1 ELSE Cardinality(MappedTo(pte, p))
    BY <2>0 DEF Counted
  <2>2. ASSUME p \in FreeSet(mem)  PROVE mem.ref[p] = 0
    <3>1. p \notin TablesOf(pgdir) /\ p \notin held
      BY <2>0, <2>2 DEF Placed
    <3>2. \A la \in Las : pte[la].page # p
      BY <2>0, <3>1, NullEntry DEF Tabled
    <3>3. Cardinality(MappedTo(pte, p)) = 0
      BY <3>2, NoMapping
    <3> QED  BY <2>1, <3>1, <3>3
  <2>3. mem.ref[p] > 0 => p \notin FreeSet(mem)
    BY <2>2
  <2> QED  BY <2>1, <2>3
<1> QED  BY <1>1, Inductive, PTL

\* NoPanic: no assertion of the memory manager fails, and PG_property marks the
\* heads of the free blocks and no other page.
THEOREM AssertionsHold == Spec => []NoPanic
<1>1. ASSUME PTInv  PROVE NoPanic
  <2>1. Sound(mem)
    BY <1>1 DEF PTInv, Consistent, Placed
  <2>2. ~ mem.panic
    BY <2>1 DEF Sound
  <2>3. mem.PG_property = {b.base : b \in FreeBlocks(mem)}
    BY <2>1 DEF Sound
  <2> QED  BY <2>2, <2>3, SameNames DEF NoPanic
<1> QED  BY <1>1, Inductive, PTL

\* NoFitMissed: when no two usable ranges of the firmware's map touch, freed
\* blocks never lie side by side, so first fit fails only if no n free pages lie
\* in a row.
THEOREM FirstFitFinds ==
  ASSUME \A map \in E820Maps : NoneTouch(map)
  PROVE  Spec => []NoFitMissed
<1> DEFINE I == PTInv /\ Apart(FreeBlocks(mem))
<1>1. Init => I
  BY InitOK DEF Init
<1>2. I /\ [Next]_vars => I'
  BY NextKeeps DEF Kept
<1>3. ASSUME I  PROVE NoFitMissed
  <2>1. Sound(mem) /\ Apart(FreeBlocks(mem))
    BY <1>3 DEF PTInv, Consistent, Placed
  <2>2. Cardinality(Pages) \in Nat
    BY PagesFinite
  <2>3. ASSUME NEW n \in 1 .. Cardinality(Pages)
        PROVE  default_alloc_pages(mem, n).page = NULL
                 <=> ~ \E p \in Pages : Run(p, n) \subseteq FreeSet(mem)
    <3>1. n \in Nat \ {0}
      BY <2>2
    <3> QED  BY <2>1, <3>1, FirstFitExact
  <2> QED  BY <2>3, SameNames DEF NoFitMissed
<1> HIDE DEF I
<1> QED  BY <1>1, <1>2, <1>3, PTL DEF Spec

(***************************************************************************)
(* The sum of the sizes on the free list.                                  *)
(***************************************************************************)
IsSum(u, list) == /\ u \in [0 .. Len(list) -> Nat] /\ u[0] = 0
                  /\ \A i \in 1 .. Len(list) : u[i] = u[i - 1] + list[i].property

\* The recursive definition of Total describes a function.
LEMMA TotalDef ==
  ASSUME NEW list \in Seq(Block)
  PROVE  \E u : IsSum(u, list) /\ Total(list) = u[Len(list)]
<1> DEFINE L == Len(list)
           G == [i \in 1 .. L |-> [s \in Nat |-> s + list[i].property]]
           Body(u) == [i \in 0 .. L |-> IF i = 0 THEN 0 ELSE u[i - 1] + list[i].property]
           c == CHOOSE u : u = Body(u)
<1>0. L \in Nat /\ \A i \in 1 .. L : list[i].property \in Nat
  <2>1. L \in Nat /\ \A i \in 1 .. L : list[i] \in Block
    BY ListOfBlocks
  <2> QED  BY <2>1 DEF Block
<1>1. StepsOf(G, L, Nat)
  BY <1>0 DEF StepsOf
<1>2. PICK s : Iterates(s, 0, G, L, Nat)
  <2>1. 0 \in Nat
    OBVIOUS
  <2> HIDE DEF G, L
  <2> QED  BY <1>0, <1>1, <2>1, IterateExists
<1>3. s \in [0 .. L -> Nat] /\ s[0] = 0 /\ \A i \in 1 .. L : s[i] = G[i][s[i - 1]]
  <2> HIDE DEF G, L
  <2> QED  BY <1>2 DEF Iterates
<1>4. Total(list) = c[L]
  BY DEF Total
<1> HIDE DEF c, L
<1>5. ASSUME NEW i \in 1 .. L  PROVE s[i] = s[i - 1] + list[i].property
  <2>1. i - 1 \in 0 .. L /\ s[i - 1] \in Nat
    BY <1>0, <1>3
  <2>2. G[i] = [u \in Nat |-> u + list[i].property]
    OBVIOUS
  <2>3. G[i][s[i - 1]] = s[i - 1] + list[i].property
    BY <2>1, <2>2
  <2> QED  BY <1>3, <2>3
<1>6. s = Body(s)
  BY <1>0, <1>3, <1>5
<1>7. c = Body(c)
  <2> HIDE DEF Body
  <2> QED  BY <1>6 DEF c
<1>8. c[0] = 0
  BY <1>0, <1>7
<1>9. ASSUME NEW i \in 1 .. L  PROVE c[i] = c[i - 1] + list[i].property
  <2>1. i \in 0 .. L /\ i # 0
    BY <1>0
  <2> QED  BY <1>7, <2>1
<1>10. 0 .. L \subseteq {i \in 0 .. L : c[i] \in Nat}
  <2> DEFINE S == {i \in 0 .. L : c[i] \in Nat}
  <2>1. 0 \in S
    BY <1>0, <1>8
  <2>2. ASSUME NEW i \in 0 .. L - 1, i \in S  PROVE i + 1 \in S
    <3>1. i + 1 \in 1 .. L /\ i + 1 \in 0 .. L /\ (i + 1) - 1 = i
      BY <1>0
    <3>2. c[i + 1] = c[i] + list[i + 1].property
      BY <1>9, <3>1
    <3> QED  BY <1>0, <2>2, <3>1, <3>2
  <2> HIDE DEF S
  <2> QED  BY <1>0, <2>1, <2>2, UpToInduction DEF S
<1>11. c \in [0 .. L -> Nat]
  BY <1>7, <1>10
<1>12. IsSum(c, list)
  BY <1>8, <1>9, <1>11 DEF IsSum, L
<1> QED  BY <1>4, <1>12 DEF L

\* The sizes on the free list add up to the number of free pages.
LEMMA TotalCounts ==
  ASSUME NEW m, Sound(m)
  PROVE  Total(m.free_list) = Cardinality(FreeSet(m))
<1> DEFINE l == m.free_list
           L == Len(l)
           Seen(i) == {l[j] : j \in 1 .. i}
<1>0. /\ l \in Seq(Block) /\ L \in Nat /\ DOMAIN l = 1 .. L
      /\ \A i \in 1 .. L : l[i] \in Block /\ l[i] \in ToSet(l)
      /\ \A b \in ToSet(l) : \E i \in 1 .. L : b = l[i]
      /\ \A i, j \in 1 .. L : i # j => l[i] # l[j]
      /\ Disjoint(ToSet(l)) /\ PagesIn(ToSet(l)) \subseteq Pages
  <2>1. l \in Seq(Block) /\ IsInjective(l)
    BY DEF Sound, Manager
  <2>2. /\ L \in Nat /\ DOMAIN l = 1 .. L
        /\ \A i \in 1 .. L : l[i] \in Block /\ l[i] \in ToSet(l)
        /\ \A b \in ToSet(l) : \E i \in 1 .. L : b = l[i]
    BY <2>1, ListOfBlocks
  <2>3. \A i, j \in 1 .. L : i # j => l[i] # l[j]
    BY <2>1, <2>2 DEF IsInjective
  <2> QED  BY <2>1, <2>2, <2>3 DEF Sound, FreeSet, FreeBlocks
<1>1. PICK u : IsSum(u, l) /\ Total(l) = u[L]
  BY <1>0, TotalDef
<1>2. u[0] = 0 /\ \A i \in 1 .. L : u[i] = u[i - 1] + l[i].property
  BY <1>1 DEF IsSum
<1> HIDE DEF l, L
<1>3. 0 .. L \subseteq {i \in 0 .. L : u[i] = Cardinality(PagesIn(Seen(i)))}
  <2> DEFINE S == {i \in 0 .. L : u[i] = Cardinality(PagesIn(Seen(i)))}
  <2>1. 0 \in S
    <3>1. PagesIn(Seen(0)) = {}
      BY DEF PagesIn
    <3> HIDE DEF Seen
    <3>2. Cardinality({}) = 0 /\ u[0] = 0 /\ 0 \in 0 .. L
      BY <1>0, <1>2, FS_EmptySet
    <3>3. Cardinality(PagesIn(Seen(0))) = Cardinality({})
      BY <3>1
    <3> QED  BY <3>2, <3>3
  <2>2. ASSUME NEW i \in 0 .. L - 1, i \in S  PROVE i + 1 \in S
    <3> DEFINE b == l[i + 1]
               E == PagesIn(Seen(i))
               F == PagesOf(b)
    <3>1. /\ i + 1 \in 1 .. L /\ i + 1 \in 0 .. L /\ (i + 1) - 1 = i
          /\ \A j : j \in 1 .. i + 1 <=> (j \in 1 .. i \/ j = i + 1)
          /\ \A j \in 1 .. i : j \in 1 .. L /\ j # i + 1
      BY <1>0
    <3>2. u[i + 1] = u[i] + b.property
      BY <1>2, <3>1
    <3>3. Seen(i + 1) = Seen(i) \cup {b}
      BY <3>1
    <3>4. PagesIn(Seen(i + 1)) = E \cup F
      BY <3>3, PagesInAdd
    <3>5. b \in Block /\ b \in ToSet(l) /\ \A c \in Seen(i) : c \in ToSet(l) /\ c # b
      BY <1>0, <3>1
    <3>6. E \cap F = {} /\ E \subseteq Pages
      <4>1. \A c \in Seen(i) : PagesOf(c) \cap F = {}
        BY <1>0, <3>5 DEF Disjoint
      <4>2. \A c \in Seen(i) : PagesOf(c) \subseteq Pages
        BY <1>0, <3>5 DEF PagesIn
      <4> QED  BY <4>1, <4>2 DEF PagesIn
    <3>7. IsFiniteSet(E) /\ Cardinality(E) \in Nat
      BY <3>6, PagesFinite
    <3>8. IsFiniteSet(F) /\ Cardinality(F) = b.property
      <4>1. b.base \in Int /\ b.property \in Nat
        BY <3>5 DEF Block, Pages
      <4> QED  BY <4>1, RunFinite DEF PagesOf
    <3>9. u[i] = Cardinality(E)
      BY <2>2
    <3> HIDE DEF E, F, b, Seen
    <3>10. Cardinality(E \cup F) = Cardinality(E) + Cardinality(F) - Cardinality(E \cap F)
      BY <3>7, <3>8, FS_Union
    <3>11. Cardinality(E \cap F) = 0
      BY <3>6, FS_EmptySet
    <3>12. b.property \in Nat
      BY <3>5 DEF Block
    <3>13. Cardinality(E \cup F) = Cardinality(E) + b.property
      BY <3>7, <3>8, <3>10, <3>11, <3>12
    <3>14. u[i + 1] = Cardinality(E \cup F)
      BY <3>2, <3>9, <3>13
    <3>15. Cardinality(PagesIn(Seen(i + 1))) = Cardinality(E \cup F)
      BY <3>4
    <3> QED  BY <3>1, <3>14, <3>15
  <2> HIDE DEF S
  <2> QED  BY <1>0, <2>1, <2>2, UpToInduction DEF S
<1>4. Seen(L) = ToSet(l)
  BY <1>0
<1>5. u[L] = Cardinality(PagesIn(ToSet(l)))
  BY <1>0, <1>3, <1>4
<1> QED  BY <1>1, <1>5 DEF FreeSet, FreeBlocks, l

\* There are as many page tables as directory entries that point to one.
LEMMA TableCount ==
  ASSUME NEW m, NEW dir, NEW own, NEW good, Placed(m, dir, own, good)
  PROVE  Cardinality(TablesOf(dir)) = Cardinality({d \in Dirs : dir[d] # NULL})
<1> DEFINE S == {d \in Dirs : dir[d] # NULL}
           T == TablesOf(dir)
           f == [d \in S |-> dir[d]]
<1>1. dir \in [Dirs -> Pages \cup {NULL}]
      /\ \A c, d \in Dirs : dir[c] = dir[d] /\ dir[c] # NULL => c = d
  BY DEF Placed
<1>2. T \subseteq Pages
  BY <1>1 DEF TablesOf
<1>3. IsFiniteSet(T)
  BY <1>2, PagesFinite
<1>4. f \in [S -> T] /\ (\A c, d \in S : f[c] = f[d] => c = d) /\ \A p \in T : \E d \in S : f[d] = p
  BY <1>1 DEF TablesOf
<1> HIDE DEF S, T, f
<1>5. f \in Injection(S, T)
  BY <1>4 DEF Injection, IsInjective
<1>6. f \in Surjection(S, T)
  BY <1>4 DEF Surjection
<1>7. Cardinality(S) = Cardinality(T)
  BY <1>3, <1>5, <1>6, FS_Injection
<1> QED  BY <1>7 DEF S, T

\* PagesAccounted: every page the firmware gave is free, held or a page table,
\* nr_free counts the free ones, and so do the sizes along the free list.
THEOREM NoPageLost == Spec => []PagesAccounted
<1>1. ASSUME PTInv  PROVE PagesAccounted
  <2>0. /\ Placed(mem, pgdir, held, GoodPages(e820map)) /\ Tabled(pgdir, pte, held)
        /\ tlb \in [Las -> Entries] /\ Sound(mem)
    BY <1>1 DEF PTInv, Consistent, Placed
  <2>1. TypeOK
    BY <2>0 DEF TypeOK, Placed, Tabled, Sound, Manager, Block
  <2>2. mem.nr_free = Cardinality(FreeSet(mem))
    BY <2>0 DEF Sound
  <2>3. Total(mem.free_list) = Cardinality(FreeSet(mem))
    BY <2>0, TotalCounts
  <2>4. Cardinality(TablesOf(pgdir)) = Cardinality({d \in Dirs : pgdir[d] # NULL})
    BY <2>0, TableCount
  <2>5. /\ FreeSet(mem) \cap held = {} /\ FreeSet(mem) \cap TablesOf(pgdir) = {}
        /\ held \cap TablesOf(pgdir) = {}
        /\ FreeSet(mem) \cup held \cup TablesOf(pgdir) = GoodPages(e820map)
    BY <2>0 DEF Placed
  <2> QED  BY <2>1, <2>2, <2>3, <2>4, <2>5, SameNames DEF PagesAccounted
<1> QED  BY <1>1, Inductive, PTL
=============================================================================
