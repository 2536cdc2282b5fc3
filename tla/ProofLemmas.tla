---------------------------- MODULE ProofLemmas ----------------------------
(***************************************************************************)
(* Facts that the proofs about several programs rest on: the arithmetic of *)
(* circular buffers, and induction.  The induction theorems of the library *)
(* range over operators; here they range over sets, so a proof by          *)
(* induction names the set of the numbers its claim holds for.             *)
(***************************************************************************)
EXTENDS Integers, Sequences, FiniteSets, FiniteSetTheorems, WellFoundedInduction, TLAPS

(***************************************************************************)
(* Arithmetic of circular positions.                                       *)
(***************************************************************************)
\* A position taken modulo the buffer size is inside the buffer.
LEMMA ModRange ==
  ASSUME NEW B \in Nat \ {0}, NEW a \in Nat
  PROVE  a % B \in 0 .. B - 1
OBVIOUS

\* A remainder below the buffer size is the one that % computes.
LEMMA ModUnique ==
  ASSUME NEW B \in Nat \ {0}, NEW a \in Nat, NEW q \in Int, NEW u \in 0 .. B - 1,
         a = B * q + u
  PROVE  a % B = u
<1> DEFINE d == (a \div B) - q
           r == a % B
<1>1. /\ d \in Int /\ r \in 0 .. B - 1 /\ a = B * (a \div B) + r
  OBVIOUS
<1>2. B * d = u - r
  BY <1>1
<1>3. ~ (d >= 1)
  <2>1. d >= 1 => B * d >= B
    BY <1>1
  <2> QED  BY <1>1, <1>2, <2>1
<1>4. ~ (d <= -1)
  <2>1. d <= -1 => B * d <= -B
    BY <1>1
  <2> QED  BY <1>1, <1>2, <2>1
<1>5. d = 0
  BY <1>1, <1>3, <1>4
<1> QED  BY <1>1, <1>2, <1>5

\* Adding to a reduced position or to the position itself is the same.
LEMMA ModPlus ==
  ASSUME NEW B \in Nat \ {0}, NEW a \in Nat, NEW i \in Nat
  PROVE  ((a % B) + i) % B = (a + i) % B
<1> DEFINE q == a \div B
           r == a % B
           s == (r + i) \div B
           u == (r + i) % B
<1>1. /\ q \in Int /\ r \in 0 .. B - 1 /\ a = B * q + r
  OBVIOUS
<1>2. /\ s \in Int /\ u \in 0 .. B - 1 /\ r + i = B * s + u
  BY <1>1
<1>3. a + i = B * (q + s) + u
  BY <1>1, <1>2
<1>4. a + i \in Nat /\ q + s \in Int
  BY <1>1, <1>2
<1>5. (a + i) % B = u
  <2> HIDE DEF q, s, u
  <2> QED  BY <1>2, <1>3, <1>4, ModUnique
<1> QED  BY <1>5

\* Going once around the buffer leads back to the same slot.
LEMMA ModPeriod ==
  ASSUME NEW B \in Nat \ {0}, NEW a \in Nat
  PROVE  (a + B) % B = a % B
<1> DEFINE q == a \div B
           r == a % B
<1>1. /\ q \in Int /\ r \in 0 .. B - 1 /\ a = B * q + r
  OBVIOUS
<1>2. q + 1 \in Int /\ B * (q + 1) = B * q + B
  BY <1>1
<1> HIDE DEF q, r
<1>3. a + B \in Nat /\ a + B = B * (q + 1) + r
  BY <1>1, <1>2
<1>4. (a + B) % B = r
  BY <1>1, <1>2, <1>3, ModUnique
<1> QED  BY <1>4 DEF r

\* Two positions less than a buffer apart are different units.
LEMMA ModDistinct ==
  ASSUME NEW B \in Nat \ {0}, NEW a \in Nat, NEW b \in Nat, a < b, b - a < B
  PROVE  a % B # b % B
<1> SUFFICES ASSUME a % B = b % B  PROVE FALSE
  OBVIOUS
<1> DEFINE q == a \div B
           s == b \div B
<1>1. /\ q \in Int /\ s \in Int /\ a = B * q + (a % B) /\ b = B * s + (b % B)
  OBVIOUS
<1>2. b - a = B * (s - q)
  BY <1>1
<1>3. s - q >= 1
  <2>1. SUFFICES ASSUME s - q <= 0  PROVE FALSE
    BY <1>1
  <2>2. B * (s - q) <= 0
    BY <1>1, <2>1
  <2> QED  BY <1>2, <2>2
<1>4. B * (s - q) >= B
  BY <1>1, <1>3
<1> QED  BY <1>2, <1>4

\* Division rounds down.
LEMMA DivFloor ==
  ASSUME NEW B \in Nat \ {0}, NEW a \in Nat, NEW q \in Int
  PROVE  q <= a \div B <=> q * B <= a
<1> DEFINE d == a \div B
           r == a % B
<1>1. d \in Int /\ r \in 0 .. B - 1 /\ a = B * d + r
  OBVIOUS
<1> HIDE DEF d, r
<1>2. q <= d => q * B <= d * B
  BY <1>1
<1>3. q >= d + 1 => q * B >= (d + 1) * B
  BY <1>1
<1>4. (d + 1) * B = B * d + B /\ d * B = B * d /\ q * B \in Int /\ B * d \in Int
  BY <1>1
<1>5. q <= d => q * B <= a
  BY <1>1, <1>2, <1>4
<1>6. q >= d + 1 => ~ (q * B <= a)
  BY <1>1, <1>3, <1>4
<1>7. q <= d \/ q >= d + 1
  BY <1>1
<1> QED  BY <1>1, <1>5, <1>6, <1>7 DEF d

\* Division of the number below the next multiple rounds up.
LEMMA DivCeil ==
  ASSUME NEW B \in Nat \ {0}, NEW a \in Nat, NEW q \in Int
  PROVE  (a + B - 1) \div B <= q <=> a <= q * B
<1> DEFINE e == a + B - 1
<1>1. e \in Nat /\ q + 1 \in Int
  OBVIOUS
<1> HIDE DEF e
<1>2. q + 1 <= e \div B <=> (q + 1) * B <= e
  BY <1>1, DivFloor
<1>3. e \div B \in Int
  BY <1>1
<1>4. (q + 1) * B = q * B + B /\ q * B \in Int
  OBVIOUS
<1>5. (q + 1) * B <= e <=> ~ (a <= q * B)
  BY <1>4 DEF e
<1> QED  BY <1>2, <1>3, <1>5 DEF e

(***************************************************************************)
(* Induction.                                                              *)
(***************************************************************************)
\* A set of natural numbers that is not empty has a smallest one.
LEMMA SmallestInSet ==
  ASSUME NEW T \in SUBSET Nat, T # {}
  PROVE  \E m \in T : \A n \in T : m <= n
<1> DEFINE R == {ss \in Nat \X Nat : ss[1] < ss[2]}
<1>1. IsWellFoundedOn(R, Nat)
  BY NatLessThanWellFounded DEF OpToRel
<1>2. PICK m \in T : \A n \in T : ~ (<<n, m>> \in R)
  <2> HIDE DEF R
  <2> QED  BY <1>1, WFMin
<1>3. ASSUME NEW n \in T  PROVE m <= n
  <2>1. <<n, m>> \notin R
    BY <1>2
  <2>2. m \in Nat /\ n \in Nat
    OBVIOUS
  <2> QED  BY <2>1, <2>2
<1> QED  BY <1>3

\* A set of natural numbers with a bound that is not empty has a largest one.
LEMMA LargestInSet ==
  ASSUME NEW T \in SUBSET Nat, T # {}, NEW u \in Nat, \A n \in T : n <= u
  PROVE  \E m \in T : \A n \in T : n <= m
<1> DEFINE D == {x \in Nat : x <= u /\ u - x \in T}
<1>1. D \in SUBSET Nat
  OBVIOUS
<1>2. \A n \in T : u - n \in D /\ u - (u - n) = n
  OBVIOUS
<1>3. D # {}
  BY <1>2
<1>4. PICK x \in D : \A y \in D : x <= y
  <2> HIDE DEF D
  <2> QED  BY <1>1, <1>3, SmallestInSet
<1>5. u - x \in T /\ \A n \in T : n <= u - x
  BY <1>2, <1>4
<1> QED  BY <1>5

\* Induction up to a bound: what holds of 0 and is passed on to the next number
\* holds of all numbers up to the bound.
LEMMA UpToInduction ==
  ASSUME NEW b \in Nat, NEW S, 0 \in S,
         \A n \in 0 .. b - 1 : n \in S => n + 1 \in S
  PROVE  0 .. b \subseteq S
<1> DEFINE T == (0 .. b) \ S
<1> SUFFICES ASSUME T # {}  PROVE FALSE
  OBVIOUS
<1>0. T \in SUBSET Nat
  OBVIOUS
<1>1. PICK m \in T : \A n \in T : m <= n
  <2> HIDE DEF T
  <2> QED  BY <1>0, SmallestInSet
<1>2. m \in 1 .. b /\ m - 1 \in 0 .. b - 1
  BY <1>1
<1>3. m - 1 \in S
  BY <1>1, <1>2
<1> QED  BY <1>1, <1>2, <1>3

\* G has a step from A to A for every index from 1 to b.
StepsOf(G, b, A) == G \in [1 .. b -> [A -> A]]

\* f starts at c and takes the steps of G.
Iterates(f, c, G, b, A) ==
    f \in [0 .. b -> A] /\ f[0] = c /\ \A i \in 1 .. b : f[i] = G[i][f[i - 1]]

\* A step function for every index can be iterated: the function that a
\* recursive definition over 0 .. b describes exists.
LEMMA IterateExists ==
  ASSUME NEW b \in Nat, NEW A, NEW c \in A, NEW G, StepsOf(G, b, A)
  PROVE  \E f : Iterates(f, c, G, b, A)
<1> DEFINE Upto(n) == \E f \in [0 .. n -> A] :
                        f[0] = c /\ \A i \in 1 .. n : f[i] = G[i][f[i - 1]]
           S == {n \in 0 .. b : Upto(n)}
<1>0. G \in [1 .. b -> [A -> A]]
  BY DEF StepsOf
<1>1. Upto(0)
  <2> DEFINE f == [i \in 0 .. 0 |-> c]
  <2>1. f \in [0 .. 0 -> A] /\ f[0] = c /\ \A i \in 1 .. 0 : f[i] = G[i][f[i - 1]]
    OBVIOUS
  <2> HIDE DEF f
  <2> QED  BY <2>1
<1>2. ASSUME NEW n \in 0 .. b - 1, Upto(n)  PROVE Upto(n + 1)
  <2>1. PICK f \in [0 .. n -> A] : f[0] = c /\ \A i \in 1 .. n : f[i] = G[i][f[i - 1]]
    BY <1>2
  <2> DEFINE g == [i \in 0 .. n + 1 |-> IF i <= n THEN f[i] ELSE G[n + 1][f[n]]]
  <2>2. n \in 0 .. n /\ n + 1 \in 1 .. b /\ 0 \in 0 .. n
    OBVIOUS
  <2>3. G[n + 1][f[n]] \in A
    BY <1>0, <2>2
  <2>4. g \in [0 .. n + 1 -> A]
    BY <2>3
  <2>5. g[0] = c
    BY <2>1, <2>2
  <2>6. ASSUME NEW i \in 1 .. n + 1  PROVE g[i] = G[i][g[i - 1]]
    <3>1. CASE i <= n
      <4>1. i \in 1 .. n /\ i - 1 \in 0 .. n
        BY <3>1
      <4> QED  BY <2>1, <3>1, <4>1
    <3>2. CASE i = n + 1
      <4>1. g[i] = G[n + 1][f[n]] /\ g[n] = f[n] /\ i - 1 = n
        BY <2>2, <3>2
      <4> QED  BY <3>2, <4>1
    <3> QED  BY <3>1, <3>2
  <2> HIDE DEF g
  <2> QED  BY <2>4, <2>5, <2>6
<1> HIDE DEF Upto
<1>3. 0 .. b \subseteq S
  <2>1. 0 \in S /\ \A n \in 0 .. b - 1 : n \in S => n + 1 \in S
    BY <1>1, <1>2
  <2> HIDE DEF S
  <2> QED  BY <2>1, UpToInduction
<1>4. Upto(b)
  BY <1>3
<1> QED  BY <1>4 DEF Upto, Iterates

(***************************************************************************)
(* Sequences.                                                              *)
(***************************************************************************)
\* What stands at a place behind the first of two sequences put together.
LEMMA ConcatAt ==
  ASSUME NEW S, NEW u \in Seq(S), NEW v \in Seq(S), NEW i \in Len(u) + 1 .. Len(u) + Len(v)
  PROVE  (u \o v)[i] = v[i - Len(u)]
OBVIOUS
=============================================================================
