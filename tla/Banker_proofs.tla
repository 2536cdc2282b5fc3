--------------------------- MODULE Banker_proofs ---------------------------
(***************************************************************************)
(* What the banker of Labweek15/alg.17-1-bankers-5.c guarantees, for every *)
(* number of processes and resource types and all claims: no unit is made  *)
(* or lost, every state that requests lead to is safe, and safecheck,      *)
(* which never takes back a selection, refuses no request it could grant.  *)
(***************************************************************************)
EXTENDS Banker, ProofLemmas

-----------------------------------------------------------------------------
(***************************************************************************)
(* Partial sums of a vector over the processes.                            *)
(***************************************************************************)
\* The recursive definition of the partial sums describes a function.
LEMMA SumsDef ==
  ASSUME NEW f \in [Procs -> Int]
  PROVE  /\ PartialSums(f) \in [0 .. N -> Int]
         /\ PartialSums(f)[0] = 0
         /\ \A i \in Procs : PartialSums(f)[i + 1] = PartialSums(f)[i] + f[i]
<1> DEFINE Body(s) == [i \in 0 .. N |-> IF i = 0 THEN 0 ELSE s[i - 1] + f[i - 1]]
           G == [i \in 1 .. N |-> [x \in Int |-> x + f[i - 1]]]
           c == PartialSums(f)
<1>0. N \in Nat
  BY Claims
<1>1. G \in [1 .. N -> [Int -> Int]] /\ 0 \in Int
  BY <1>0 DEF Procs
<1>2. PICK s \in [0 .. N -> Int] : s[0] = 0 /\ \A i \in 1 .. N : s[i] = G[i][s[i - 1]]
  <2> DEFINE A == Int
             z == 0
  <2>1. z \in A /\ StepsOf(G, N, A)
    BY <1>1 DEF StepsOf
  <2> HIDE DEF G, A, z
  <2>2. PICK s : Iterates(s, z, G, N, A)
    BY <1>0, <2>1, IterateExists
  <2> QED  BY <2>2 DEF Iterates, A, z
<1>3. ASSUME NEW i \in 1 .. N  PROVE s[i] = s[i - 1] + f[i - 1]
  <2>1. i - 1 \in 0 .. N /\ s[i - 1] \in Int
    BY <1>0
  <2>2. G[i] = [x \in Int |-> x + f[i - 1]]
    OBVIOUS
  <2>3. G[i][s[i - 1]] = s[i - 1] + f[i - 1]
    BY <2>1, <2>2
  <2> QED  BY <1>2, <2>3
<1>4. s = Body(s)
  BY <1>2, <1>3, <1>0
<1>5. c = CHOOSE u : u = Body(u)
  BY DEF PartialSums
<1>6. c = Body(c)
  <2> HIDE DEF Body, c
  <2> QED  BY <1>4, <1>5
<1>7. c[0] = 0 /\ \A i \in Procs : c[i + 1] = c[i] + f[i]
  <2> HIDE DEF c
  <2>1. c[0] = 0
    BY <1>0, <1>6
  <2>2. ASSUME NEW i \in Procs  PROVE c[i + 1] = c[i] + f[i]
    <3>1. i + 1 \in 0 .. N /\ i + 1 # 0 /\ (i + 1) - 1 = i
      BY <1>0 DEF Procs
    <3> QED  BY <1>6, <3>1
  <2> QED  BY <2>1, <2>2
<1> HIDE DEF c
<1>8. 0 .. N \subseteq {i \in 0 .. N : c[i] \in Int}
  <2> DEFINE S == {i \in 0 .. N : c[i] \in Int}
  <2>1. 0 \in S
    BY <1>0, <1>7
  <2>2. \A i \in 0 .. N - 1 : i \in S => i + 1 \in S
    BY <1>0, <1>7 DEF Procs
  <2> HIDE DEF S
  <2> QED  BY <1>0, <2>1, <2>2, UpToInduction DEF S
<1>9. c \in [0 .. N -> Int]
  BY <1>6, <1>8
<1> QED  BY <1>7, <1>9 DEF c

\* Changing one entry of a vector changes the later sums by the difference.
LEMMA SumsChange ==
  ASSUME NEW f \in [Procs -> Int], NEW g \in [Procs -> Int], NEW p \in Procs, NEW d \in Int,
         g[p] = f[p] + d, \A q \in Procs : q # p => g[q] = f[q]
  PROVE  \A i \in 0 .. N :
           PartialSums(g)[i] = PartialSums(f)[i] + (IF p < i THEN d ELSE 0)
<1> DEFINE F == PartialSums(f)
           H == PartialSums(g)
           S == {i \in 0 .. N : H[i] = F[i] + (IF p < i THEN d ELSE 0)}
<1>0. N \in Nat /\ p \in Nat
  BY Claims DEF Procs
<1>1. /\ F \in [0 .. N -> Int] /\ H \in [0 .. N -> Int] /\ F[0] = 0 /\ H[0] = 0
      /\ \A i \in Procs : F[i + 1] = F[i] + f[i] /\ H[i + 1] = H[i] + g[i]
  BY SumsDef
<1> HIDE DEF F, H
<1>2. 0 \in S
  BY <1>0, <1>1
<1>3. ASSUME NEW i \in 0 .. N - 1, i \in S  PROVE i + 1 \in S
  <2>0. i \in Procs /\ i \in 0 .. N /\ i + 1 \in 0 .. N
    BY <1>0 DEF Procs
  <2>1. /\ i \in Procs /\ i \in 0 .. N /\ i + 1 \in 0 .. N
        /\ F[i] \in Int /\ H[i] \in Int /\ f[i] \in Int /\ g[i] \in Int
    BY <1>1, <2>0
  <2>2. H[i + 1] = F[i] + (IF p < i THEN d ELSE 0) + g[i] /\ F[i + 1] = F[i] + f[i]
    BY <1>1, <1>3, <2>1
  <2>3. CASE i = p
    BY <1>0, <2>1, <2>2, <2>3
  <2>4. CASE i # p
    <3>1. g[i] = f[i]
      BY <2>1, <2>4
    <3>2. (p < i) <=> (p < i + 1)
      BY <1>0, <2>1, <2>4
    <3> QED  BY <2>1, <2>2, <3>1, <3>2
  <2> QED  BY <2>3, <2>4
<1> HIDE DEF S
<1>4. 0 .. N \subseteq S
  BY <1>0, <1>2, <1>3, UpToInduction
<1> QED  BY <1>4 DEF S, F, H

\* A vector that is larger everywhere has larger sums.
LEMMA SumsMonotone ==
  ASSUME NEW f \in [Procs -> Int], NEW g \in [Procs -> Int], \A q \in Procs : f[q] <= g[q]
  PROVE  \A i \in 0 .. N : PartialSums(f)[i] <= PartialSums(g)[i]
<1> DEFINE F == PartialSums(f)
           H == PartialSums(g)
           S == {i \in 0 .. N : F[i] <= H[i]}
<1>0. N \in Nat
  BY Claims
<1>1. /\ F \in [0 .. N -> Int] /\ H \in [0 .. N -> Int] /\ F[0] = 0 /\ H[0] = 0
      /\ \A i \in Procs : F[i + 1] = F[i] + f[i] /\ H[i + 1] = H[i] + g[i]
  BY SumsDef
<1> HIDE DEF F, H
<1>2. 0 \in S
  BY <1>0, <1>1
<1>3. ASSUME NEW i \in 0 .. N - 1, i \in S  PROVE i + 1 \in S
  <2>0. i \in Procs /\ i \in 0 .. N /\ i + 1 \in 0 .. N
    BY <1>0 DEF Procs
  <2>1. /\ i \in Procs /\ i \in 0 .. N /\ i + 1 \in 0 .. N
        /\ F[i] \in Int /\ H[i] \in Int /\ f[i] \in Int /\ g[i] \in Int
    BY <1>1, <2>0
  <2>2. F[i] <= H[i] /\ f[i] <= g[i]
    BY <1>3, <2>1
  <2>3. F[i + 1] <= H[i + 1]
    BY <1>1, <2>1, <2>2
  <2> QED  BY <2>1, <2>3
<1> HIDE DEF S
<1>4. 0 .. N \subseteq S
  BY <1>0, <1>2, <1>3, UpToInduction
<1> QED  BY <1>4 DEF S, F, H

\* Sums of zeros are zero.
LEMMA SumsOfZeros ==
  ASSUME NEW f \in [Procs -> Int], \A q \in Procs : f[q] = 0
  PROVE  \A i \in 0 .. N : PartialSums(f)[i] = 0
<1> DEFINE F == PartialSums(f)
           S == {i \in 0 .. N : F[i] = 0}
<1>0. N \in Nat
  BY Claims
<1>1. /\ F[0] = 0 /\ \A i \in Procs : F[i + 1] = F[i] + f[i]
  BY SumsDef
<1> HIDE DEF F
<1>2. 0 \in S /\ \A i \in 0 .. N - 1 : i \in S => i + 1 \in S
  BY <1>0, <1>1 DEF Procs
<1> HIDE DEF S
<1>3. 0 .. N \subseteq S
  BY <1>0, <1>2, UpToInduction
<1> QED  BY <1>3 DEF S, F

-----------------------------------------------------------------------------
(***************************************************************************)
(* The search of safecheck.                                                *)
(***************************************************************************)
SearchState == [finish : SUBSET Procs, work : [Types -> Int]]

\* A request of a process, with the tables it is made against.
Asked(p, r) == TypeOK /\ p \in Procs /\ r \in Requests(p)

\* The pretended tables are tables.
LEMMA PretendedTables ==
  ASSUME NEW p, NEW r, Asked(p, r)
  PROVE  /\ \A j \in Procs : Held(j, p, r) \in [Types -> Int]
         /\ \A j \in Procs : Needs(j, p, r) \in [Types -> Int]
         /\ Minus(available, r) \in [Types -> Int]
         /\ r \in [Types -> Int]
<1>1. r \in [Types -> Int]
  BY Claims DEF Asked, Requests
<1>2. ASSUME NEW j \in Procs  PROVE Held(j, p, r) \in [Types -> Int]
  BY <1>1 DEF Held, Plus, TypeOK, Asked
<1>3. ASSUME NEW j \in Procs  PROVE Needs(j, p, r) \in [Types -> Int]
  BY <1>1 DEF Needs, Minus, TypeOK, Asked
<1>4. Minus(available, r) \in [Types -> Int]
  BY <1>1 DEF Minus, TypeOK, Asked
<1> QED  BY <1>1, <1>2, <1>3, <1>4

\* A pass of the search selects an unfinished process that can end, when there
\* is one, and leaves the search as it is otherwise.
LEMMA SelectEffect ==
  ASSUME NEW p, NEW r, Asked(p, r), NEW s \in SearchState
  PROVE  /\ Select(s, p, r) \in SearchState
         /\ \/ /\ Select(s, p, r) = s
               /\ \A j \in Procs \ s.finish : ~ Leq(Needs(j, p, r), s.work)
            \/ \E j \in Procs \ s.finish :
                 /\ Leq(Needs(j, p, r), s.work)
                 /\ Select(s, p, r).finish = s.finish \cup {j}
                 /\ Select(s, p, r).work = Plus(s.work, Held(j, p, r))
<1> DEFINE can == {j \in Procs \ s.finish : Leq(Needs(j, p, r), s.work)}
<1>1. CASE can = {}
  <2>1. Select(s, p, r) = s
    BY <1>1 DEF Select
  <2>2. \A j \in Procs \ s.finish : ~ Leq(Needs(j, p, r), s.work)
    BY <1>1
  <2> QED  BY <2>1, <2>2
<1>2. CASE can # {}
  <2>1. can \in SUBSET Nat
    BY DEF Procs
  <2>2. Min(can) \in can
    <3> HIDE DEF can
    <3>1. \E m \in can : \A n \in can : m <= n
      BY <1>2, <2>1, SmallestInSet
    <3> QED  BY <3>1 DEF Min
  <2> DEFINE j == Min(can)
  <2>3. Select(s, p, r) = [finish |-> s.finish \cup {j}, work |-> Plus(s.work, Held(j, p, r))]
    BY <1>2 DEF Select
  <2>4. j \in Procs \ s.finish /\ Leq(Needs(j, p, r), s.work)
    BY <2>2
  <2> HIDE DEF j
  <2>5. Held(j, p, r) \in [Types -> Int]
    BY <2>4, PretendedTables
  <2>6. Plus(s.work, Held(j, p, r)) \in [Types -> Int]
    BY <2>5 DEF Plus, SearchState
  <2>7. s.finish \cup {j} \in SUBSET Procs
    BY <2>4 DEF SearchState
  <2>8. Select(s, p, r) \in SearchState
    BY <2>3, <2>6, <2>7 DEF SearchState
  <2> QED  BY <2>3, <2>4, <2>8
<1> QED  BY <1>1, <1>2

\* The recursive definition of the search describes a function.
LEMMA SearchDef ==
  ASSUME NEW p, NEW r, Asked(p, r)
  PROVE  /\ \A i \in 0 .. N : Search(p, r)[i] \in SearchState
         /\ Search(p, r)[0] = [finish |-> {}, work |-> Minus(available, r)]
         /\ \A i \in Procs : Search(p, r)[i + 1] = Select(Search(p, r)[i], p, r)
<1> DEFINE z == [finish |-> {}, work |-> Minus(available, r)]
           G == [i \in 1 .. N |-> [s \in SearchState |-> Select(s, p, r)]]
           Body(u) == [i \in 0 .. N |-> IF i = 0 THEN z ELSE Select(u[i - 1], p, r)]
           c == Search(p, r)
<1>0. N \in Nat
  BY Claims
<1>1. z \in SearchState
  BY PretendedTables DEF SearchState
<1>2. \A s \in SearchState : Select(s, p, r) \in SearchState
  BY SelectEffect
<1>3. StepsOf(G, N, SearchState)
  BY <1>2 DEF StepsOf
<1>4. PICK s : Iterates(s, z, G, N, SearchState)
  <2> HIDE DEF z, G
  <2> QED  BY <1>0, <1>1, <1>3, IterateExists
<1>5. s \in [0 .. N -> SearchState] /\ s[0] = z /\ \A i \in 1 .. N : s[i] = G[i][s[i - 1]]
  <2> HIDE DEF z, G
  <2> QED  BY <1>4 DEF Iterates
<1>6. c = CHOOSE u : u = Body(u)
  BY DEF Search
<1> HIDE DEF z, c
<1>7. ASSUME NEW i \in 1 .. N  PROVE s[i] = Select(s[i - 1], p, r)
  <2>1. i - 1 \in 0 .. N /\ s[i - 1] \in SearchState
    BY <1>0, <1>5
  <2>2. G[i] = [u \in SearchState |-> Select(u, p, r)]
    OBVIOUS
  <2>3. G[i][s[i - 1]] = Select(s[i - 1], p, r)
    BY <2>1, <2>2
  <2> QED  BY <1>5, <2>3
<1>8. s = Body(s)
  BY <1>5, <1>7, <1>0
<1>9. c = Body(c)
  <2> HIDE DEF Body
  <2> QED  BY <1>6, <1>8
<1>10. c[0] = z
  BY <1>0, <1>9
<1>11. ASSUME NEW i \in Procs  PROVE c[i + 1] = Select(c[i], p, r)
  <2>1. i + 1 \in 0 .. N /\ i + 1 # 0 /\ (i + 1) - 1 = i
    BY <1>0 DEF Procs
  <2> QED  BY <1>9, <2>1
<1>12. 0 .. N \subseteq {i \in 0 .. N : c[i] \in SearchState}
  <2> DEFINE S == {i \in 0 .. N : c[i] \in SearchState}
  <2>1. 0 \in S
    BY <1>0, <1>1, <1>10
  <2>2. ASSUME NEW i \in 0 .. N - 1, i \in S  PROVE i + 1 \in S
    <3>1. i \in Procs /\ i + 1 \in 0 .. N
      BY <1>0 DEF Procs
    <3> QED  BY <1>2, <1>11, <2>2, <3>1
  <2> HIDE DEF S
  <2> QED  BY <1>0, <2>1, <2>2, UpToInduction DEF S
<1> QED  BY <1>10, <1>11, <1>12 DEF c, z

-----------------------------------------------------------------------------
(***************************************************************************)
(* Sums over a set of processes, as sums of a vector that is zero outside  *)
(* the set.                                                                *)
(***************************************************************************)
Mask(F, h) == [j \in Procs |-> IF j \in F THEN h[j] ELSE 0]

SumOver(F, h) == PartialSums(Mask(F, h))[N]

\* One more process adds its entry to the sum.
LEMMA SumOverAdd ==
  ASSUME NEW h \in [Procs -> Int], NEW F, NEW j \in Procs, j \notin F
  PROVE  SumOver(F \cup {j}, h) = SumOver(F, h) + h[j]
<1> DEFINE f == Mask(F, h)
           g == Mask(F \cup {j}, h)
           d == h[j]
<1>1. f \in [Procs -> Int] /\ g \in [Procs -> Int] /\ d \in Int
  BY DEF Mask
<1>2. g[j] = f[j] + d /\ \A q \in Procs : q # j => g[q] = f[q]
  BY DEF Mask
<1> HIDE DEF f, g, d
<1>3. \A i \in 0 .. N : PartialSums(g)[i] = PartialSums(f)[i] + (IF j < i THEN d ELSE 0)
  BY <1>1, <1>2, SumsChange
<1>4. N \in 0 .. N /\ j < N
  BY Claims DEF Procs
<1>5. PartialSums(g)[N] = PartialSums(f)[N] + d
  BY <1>3, <1>4
<1> QED  BY <1>5 DEF SumOver, f, g, d

\* A larger set has a larger sum.
LEMMA SumOverMonotone ==
  ASSUME NEW h \in [Procs -> Nat], NEW F, NEW E, F \subseteq E
  PROVE  SumOver(F, h) <= SumOver(E, h)
<1> DEFINE f == Mask(F, h)
           g == Mask(E, h)
<1>1. f \in [Procs -> Int] /\ g \in [Procs -> Int] /\ \A q \in Procs : f[q] <= g[q]
  BY DEF Mask
<1> HIDE DEF f, g
<1>2. N \in 0 .. N
  BY Claims
<1>3. PartialSums(f)[N] <= PartialSums(g)[N]
  BY <1>1, <1>2, SumsMonotone
<1> QED  BY <1>3 DEF SumOver, f, g

\* A sum over a set is an integer, and zero over the empty set.
LEMMA SumOverType ==
  ASSUME NEW h \in [Procs -> Int], NEW F
  PROVE  SumOver(F, h) \in Int /\ SumOver({}, h) = 0
<1>0. N \in 0 .. N
  BY Claims
<1>1. Mask(F, h) \in [Procs -> Int] /\ Mask({}, h) \in [Procs -> Int]
      /\ \A q \in Procs : Mask({}, h)[q] = 0
  BY DEF Mask
<1>2. PartialSums(Mask(F, h)) \in [0 .. N -> Int]
  BY <1>1, SumsDef
<1>3. \A i \in 0 .. N : PartialSums(Mask({}, h))[i] = 0
  BY <1>1, SumsOfZeros
<1> QED  BY <1>0, <1>2, <1>3 DEF SumOver

\* The first i sums along an order are the sum over the first i processes.
LEMMA SumAlongOrder ==
  ASSUME NEW h \in [Procs -> Int], NEW order \in Orders
  PROVE  \A i \in 0 .. N : PartialSums([k \in Procs |-> h[order[k]]])[i]
                            = SumOver({order[k] : k \in 0 .. i - 1}, h)
<1> DEFINE f == [k \in Procs |-> h[order[k]]]
           P == PartialSums(f)
           First(i) == {order[k] : k \in 0 .. i - 1}
           S == {i \in 0 .. N : P[i] = SumOver(First(i), h)}
<1>0. N \in Nat
  BY Claims
<1>1. order \in [Procs -> Procs] /\ \A i, j \in Procs : order[i] = order[j] => i = j
  BY DEF Orders, Bijection, Injection, IsInjective
<1>2. f \in [Procs -> Int]
  BY <1>1
<1>3. P[0] = 0 /\ \A i \in Procs : P[i + 1] = P[i] + f[i]
  <2> HIDE DEF f
  <2> QED  BY <1>2, SumsDef
<1> HIDE DEF P
<1>4. 0 \in S
  <2>1. First(0) = {}
    OBVIOUS
  <2> HIDE DEF First
  <2> QED  BY <1>0, <1>3, <2>1, SumOverType
<1>5. ASSUME NEW i \in 0 .. N - 1, i \in S  PROVE i + 1 \in S
  <2>1. i \in Procs /\ i + 1 \in 0 .. N /\ order[i] \in Procs
    BY <1>0, <1>1 DEF Procs
  <2>2. First(i + 1) = First(i) \cup {order[i]}
    <3>1. \A k : k \in 0 .. (i + 1) - 1 <=> (k \in 0 .. i - 1 \/ k = i)
      BY <2>1
    <3> QED  BY <3>1
  <2>3. order[i] \notin First(i)
    <3>1. \A k \in 0 .. i - 1 : k \in Procs /\ k # i
      BY <1>0 DEF Procs
    <3> QED  BY <1>1, <2>1, <3>1
  <2> HIDE DEF First
  <2>4. SumOver(First(i + 1), h) = SumOver(First(i), h) + h[order[i]]
    BY <2>1, <2>2, <2>3, SumOverAdd
  <2>5. P[i] = SumOver(First(i), h)
    BY <1>5
  <2>6. P[i + 1] = P[i] + h[order[i]]
    BY <1>3, <2>1
  <2> QED  BY <2>1, <2>4, <2>5, <2>6
<1>6. 0 .. N \subseteq S
  <2> HIDE DEF S
  <2> QED  BY <1>0, <1>4, <1>5, UpToInduction
<1> QED  BY <1>6 DEF P

-----------------------------------------------------------------------------
(***************************************************************************)
(* safecheck decides safety: it is sound, and it is complete although it   *)
(* never takes back a selection.                                           *)
(***************************************************************************)
\* The tables after request r of p is granted.
GrantedNeed(p, r) == [need EXCEPT ![p] = Minus(@, r)]
GrantedAllocation(p, r) == [allocation EXCEPT ![p] = Plus(@, r)]

\* The tables that safecheck pretends are the tables after the grant.
LEMMA PretendedIsGranted ==
  ASSUME NEW p, NEW r, Asked(p, r), NEW j \in Procs
  PROVE  /\ GrantedNeed(p, r)[j] = Needs(j, p, r)
         /\ GrantedAllocation(p, r)[j] = Held(j, p, r)
BY DEF GrantedNeed, GrantedAllocation, Needs, Held, Asked, TypeOK

\* The search finishes at most one process in every pass.
LEMMA OnePerPass ==
  ASSUME NEW p, NEW r, Asked(p, r), NEW i \in Procs
  PROVE  LET s == Search(p, r)
         IN  /\ s[i] \in SearchState /\ s[i + 1] \in SearchState
             /\ \/ /\ s[i + 1] = s[i]
                   /\ \A j \in Procs \ s[i].finish : ~ Leq(Needs(j, p, r), s[i].work)
                \/ \E j \in Procs \ s[i].finish :
                     /\ Leq(Needs(j, p, r), s[i].work)
                     /\ s[i + 1].finish = s[i].finish \cup {j}
                     /\ s[i + 1].work = Plus(s[i].work, Held(j, p, r))
<1>1. i \in 0 .. N
  BY Claims DEF Procs
<1>2. Search(p, r)[i] \in SearchState /\ Search(p, r)[i + 1] = Select(Search(p, r)[i], p, r)
  BY <1>1, SearchDef
<1> QED  BY <1>2, SelectEffect

\* The set of processes is finite and has N elements; so has every set of
\* processes at most, and only the set of all of them has N.
LEMMA ProcsFinite ==
  /\ IsFiniteSet(Procs) /\ Cardinality(Procs) = N
  /\ \A F \in SUBSET Procs : /\ IsFiniteSet(F) /\ Cardinality(F) \in Nat
                             /\ Cardinality(F) = N => F = Procs
<1>1. N \in Nat /\ 0 \in Int /\ N - 1 \in Int /\ ~ (0 > N - 1) /\ (N - 1) - 0 + 1 = N
  BY Claims
<1>2. IsFiniteSet(Procs) /\ Cardinality(Procs) = N
  BY <1>1, FS_Interval DEF Procs
<1>3. ASSUME NEW F \in SUBSET Procs
      PROVE  IsFiniteSet(F) /\ Cardinality(F) \in Nat /\ (Cardinality(F) = N => F = Procs)
  BY <1>2, FS_Subset, FS_CardinalityType
<1> QED  BY <1>2, <1>3

\* How many processes are finished, after a pass.
LEMMA FinishedAfterPass ==
  ASSUME NEW p, NEW r, Asked(p, r), NEW i \in Procs
  PROVE  LET s == Search(p, r)
             n == Cardinality(s[i].finish)
         IN  /\ n \in Nat
             /\ \/ s[i + 1] = s[i]
                \/ Cardinality(s[i + 1].finish) = n + 1
<1> DEFINE s == Search(p, r)
<1>1. s[i] \in SearchState /\ (s[i + 1] = s[i] \/ \E j \in Procs \ s[i].finish : s[i + 1].finish = s[i].finish \cup {j})
  BY OnePerPass
<1>2. s[i].finish \in SUBSET Procs
  BY <1>1 DEF SearchState
<1>3. IsFiniteSet(s[i].finish) /\ Cardinality(s[i].finish) \in Nat
  BY <1>2, ProcsFinite
<1>4. ASSUME NEW j \in Procs \ s[i].finish, s[i + 1].finish = s[i].finish \cup {j}
      PROVE  Cardinality(s[i + 1].finish) = Cardinality(s[i].finish) + 1
  <2> DEFINE F == s[i].finish
  <2> HIDE DEF s
  <2>1. j \notin F /\ IsFiniteSet(F)
    BY <1>3
  <2> HIDE DEF F
  <2>2. Cardinality(F \cup {j}) = Cardinality(F) + 1
    BY <2>1, FS_AddElement
  <2> QED  BY <1>4, <2>2 DEF F
<1> QED  BY <1>1, <1>3, <1>4

\* When all processes end up finished, no pass was without a selection.
LEMMA EveryPassSelects ==
  ASSUME NEW p, NEW r, Asked(p, r), safecheck(p, r), NEW i \in Procs
  PROVE  \E j \in Procs \ Search(p, r)[i].finish :
           /\ Leq(Needs(j, p, r), Search(p, r)[i].work)
           /\ Search(p, r)[i + 1].finish = Search(p, r)[i].finish \cup {j}
           /\ Search(p, r)[i + 1].work = Plus(Search(p, r)[i].work, Held(j, p, r))
<1> DEFINE s == Search(p, r)
           n(k) == Cardinality(s[k].finish)
           S == {k \in 0 .. N : n(k) <= k /\ (k > i => n(k) < k)}
<1> SUFFICES ASSUME s[i + 1] = s[i]  PROVE FALSE
  BY OnePerPass
<1>0. N \in Nat /\ i \in 0 .. N - 1
  BY Claims DEF Procs
<1>1. \A k \in 0 .. N : n(k) \in Nat
  <2>1. \A k \in 0 .. N : s[k].finish \in SUBSET Procs
    BY SearchDef DEF SearchState
  <2> QED  BY <2>1, ProcsFinite
<1>2. ASSUME NEW k \in Procs  PROVE s[k + 1] = s[k] \/ n(k + 1) = n(k) + 1
  BY FinishedAfterPass
<1>3. n(0) = 0
  <2>1. s[0] = [finish |-> {}, work |-> Minus(available, r)]
    BY SearchDef
  <2>2. s[0].finish = {}
    BY <2>1
  <2> QED  BY <2>2, FS_EmptySet
<1>4. n(N) = N
  BY ProcsFinite DEF safecheck
<1>5. \A k : s[k + 1] = s[k] => n(k + 1) = n(k)
  OBVIOUS
<1> HIDE DEF n, s
<1>6. 0 \in S
  BY <1>0, <1>3
<1>7. ASSUME NEW k \in 0 .. N - 1, k \in S  PROVE k + 1 \in S
  <2>1. k \in Procs /\ k \in 0 .. N /\ k + 1 \in 0 .. N
    BY <1>0 DEF Procs
  <2>2. n(k) \in Nat /\ n(k) <= k /\ (k > i => n(k) < k)
    BY <1>1, <1>7, <2>1
  <2>3. CASE k = i
    <3>1. n(k + 1) = n(k)
      BY <1>5, <2>3
    <3> QED  BY <1>0, <2>1, <2>2, <2>3, <3>1
  <2>4. CASE k # i
    <3>1. n(k + 1) = n(k) \/ n(k + 1) = n(k) + 1
      BY <1>2, <1>5, <2>1
    <3> QED  BY <1>0, <2>1, <2>2, <2>4, <3>1
  <2> QED  BY <2>3, <2>4
<1>8. 0 .. N \subseteq S
  <2> HIDE DEF S
  <2> QED  BY <1>0, <1>6, <1>7, UpToInduction
<1>9. N \in S
  BY <1>0, <1>8
<1> QED  BY <1>0, <1>4, <1>9

\* When safecheck succeeds, the state after the grant is safe: the order in
\* which it selects the processes is one in which all can end.
LEMMA SafecheckSound ==
  ASSUME NEW p, NEW r, Asked(p, r), safecheck(p, r)
  PROVE  IsSafe(Minus(available, r), GrantedNeed(p, r), GrantedAllocation(p, r))
<1> DEFINE s == Search(p, r)
           Selects(i, j) == /\ j \in Procs \ s[i].finish
                            /\ Leq(Needs(j, p, r), s[i].work)
                            /\ s[i + 1].finish = s[i].finish \cup {j}
                            /\ s[i + 1].work = Plus(s[i].work, Held(j, p, r))
           order == [i \in Procs |-> CHOOSE j \in Procs : Selects(i, j)]
           free == Minus(available, r)
<1>0. N \in Nat
  BY Claims
<1>1. ASSUME NEW i \in Procs  PROVE order[i] \in Procs /\ Selects(i, order[i])
  <2>1. \E j \in Procs : Selects(i, j)
    BY EveryPassSelects
  <2> HIDE DEF Selects
  <2> QED  BY <2>1
<1>2. order \in [Procs -> Procs]
  <2> HIDE DEF Selects
  <2> QED  BY <1>1
<1>3. \A k \in 0 .. N : s[k] \in SearchState
  BY SearchDef
<1>4. s[0].work = free
  <2>1. s[0] = [finish |-> {}, work |-> Minus(available, r)]
    BY SearchDef
  <2> QED  BY <2>1
<1>5. free \in [Types -> Int] /\ \A j \in Procs : Held(j, p, r) \in [Types -> Int]
  BY PretendedTables
<1> HIDE DEF s, order, free
<1>6. \A k \in 0 .. N : \A i \in Procs : i < k => order[i] \in s[k].finish
  <2> DEFINE S == {k \in 0 .. N : \A i \in Procs : i < k => order[i] \in s[k].finish}
  <2>1. 0 \in S
    BY <1>0 DEF Procs
  <2>2. ASSUME NEW k \in 0 .. N - 1, k \in S  PROVE k + 1 \in S
    <3>1. k \in Procs /\ k + 1 \in 0 .. N
      BY <1>0 DEF Procs
    <3>2. s[k + 1].finish = s[k].finish \cup {order[k]}
      BY <1>1, <3>1
    <3>3. ASSUME NEW i \in Procs, i < k + 1  PROVE order[i] \in s[k + 1].finish
      <4>1. i < k \/ i = k
        BY <3>1, <3>3 DEF Procs
      <4> QED  BY <2>2, <3>2, <4>1
    <3> QED  BY <3>1, <3>3
  <2>3. 0 .. N \subseteq S
    <3> HIDE DEF S
    <3> QED  BY <1>0, <2>1, <2>2, UpToInduction
  <2> QED  BY <2>3
<1>7. ASSUME NEW i \in Procs, NEW k \in Procs, order[i] = order[k]  PROVE i = k
  <2>1. ASSUME NEW a \in Procs, NEW b \in Procs, a < b  PROVE order[a] # order[b]
    <3>1. b \in 0 .. N
      BY <1>0 DEF Procs
    <3>2. order[a] \in s[b].finish
      BY <1>6, <2>1, <3>1
    <3>3. order[b] \notin s[b].finish
      BY <1>1
    <3> QED  BY <3>2, <3>3
  <2>2. i < k \/ k < i \/ i = k
    BY DEF Procs
  <2> QED  BY <1>7, <2>1, <2>2
<1>8. order \in Orders
  <2>1. order \in Injection(Procs, Procs)
    BY <1>2, <1>7 DEF Injection, IsInjective
  <2>2. order \in Surjection(Procs, Procs)
    BY <2>1, ProcsFinite, FS_Injection
  <2> QED  BY <2>1, <2>2 DEF Orders, Bijection
<1>9. ASSUME NEW t \in Types
      PROVE  \A i \in 0 .. N :
               s[i].work[t] = free[t] + PartialSums([h \in Procs |-> Held(order[h], p, r)[t]])[i]
  <2> DEFINE f == [h \in Procs |-> Held(order[h], p, r)[t]]
             P == PartialSums(f)
             S == {i \in 0 .. N : s[i].work[t] = free[t] + P[i]}
  <2>1. f \in [Procs -> Int]
    BY <1>2, <1>5
  <2>2. P \in [0 .. N -> Int] /\ P[0] = 0 /\ \A i \in Procs : P[i + 1] = P[i] + f[i]
    <3> HIDE DEF f
    <3> QED  BY <2>1, SumsDef
  <2> HIDE DEF P
  <2>3. 0 \in S
    BY <1>0, <1>4, <1>5, <2>2
  <2>4. ASSUME NEW i \in 0 .. N - 1, i \in S  PROVE i + 1 \in S
    <3>1. i \in Procs /\ i + 1 \in 0 .. N /\ i \in 0 .. N
      BY <1>0 DEF Procs
    <3>2. s[i + 1].work = Plus(s[i].work, Held(order[i], p, r))
      BY <1>1, <3>1
    <3>3. s[i + 1].work[t] = s[i].work[t] + f[i]
      BY <3>1, <3>2 DEF Plus
    <3>4. free[t] \in Int /\ P[i] \in Int /\ f[i] \in Int
      BY <1>5, <2>1, <2>2, <3>1
    <3>5. s[i].work[t] = free[t] + P[i] /\ P[i + 1] = P[i] + f[i]
      BY <2>2, <2>4, <3>1
    <3> HIDE DEF f
    <3>6. s[i + 1].work[t] = free[t] + P[i + 1]
      BY <3>3, <3>4, <3>5
    <3> QED  BY <3>1, <3>6
  <2>5. 0 .. N \subseteq S
    <3> HIDE DEF S
    <3> QED  BY <1>0, <2>3, <2>4, UpToInduction
  <2> QED  BY <2>5 DEF P
<1>10. ASSUME NEW i \in Procs, NEW t \in Types
       PROVE  GrantedNeed(p, r)[order[i]][t]
                <= free[t] + PartialSums([h \in Procs |-> GrantedAllocation(p, r)[order[h]][t]])[i]
  <2>1. i \in 0 .. N /\ order[i] \in Procs
    BY <1>0, <1>1 DEF Procs
  <2>2. Needs(order[i], p, r)[t] <= s[i].work[t]
    BY <1>1 DEF Leq
  <2>3. [h \in Procs |-> GrantedAllocation(p, r)[order[h]][t]]
          = [h \in Procs |-> Held(order[h], p, r)[t]]
    BY <1>1, PretendedIsGranted
  <2>4. GrantedNeed(p, r)[order[i]] = Needs(order[i], p, r)
    BY <2>1, PretendedIsGranted
  <2> QED  BY <1>9, <2>1, <2>2, <2>3, <2>4
<1> QED  BY <1>8, <1>10 DEF IsSafe, free

\* When the state after the grant is safe and nobody holds less than nothing in
\* it, safecheck succeeds: as long as a process is not finished, the first such
\* process of any order in which all can end is one that the next pass may select.
LEMMA SafecheckComplete ==
  ASSUME NEW p, NEW r, Asked(p, r), \A j \in Procs, t \in Types : Held(j, p, r)[t] >= 0,
         IsSafe(Minus(available, r), GrantedNeed(p, r), GrantedAllocation(p, r))
  PROVE  safecheck(p, r)
<1> DEFINE s == Search(p, r)
           free == Minus(available, r)
           row(t) == [j \in Procs |-> Held(j, p, r)[t]]
<1>0. N \in Nat
  BY Claims
<1>1. \A k \in 0 .. N : s[k] \in SearchState /\ s[k].finish \in SUBSET Procs
  BY SearchDef DEF SearchState
<1>2. s[0].finish = {} /\ s[0].work = free
  <2>1. s[0] = [finish |-> {}, work |-> Minus(available, r)]
    BY SearchDef
  <2> QED  BY <2>1
<1>3. free \in [Types -> Int] /\ \A j \in Procs : Held(j, p, r) \in [Types -> Nat]
  <2>1. free \in [Types -> Int] /\ \A j \in Procs : Held(j, p, r) \in [Types -> Int]
    BY PretendedTables
  <2>2. ASSUME NEW j \in Procs  PROVE Held(j, p, r) \in [Types -> Nat]
    <3> DEFINE h == Held(j, p, r)
    <3>1. h \in [Types -> Int] /\ \A t \in Types : h[t] >= 0
      BY <2>1
    <3> HIDE DEF h
    <3>2. h \in [Types -> Nat]
      BY <3>1
    <3> QED  BY <3>2 DEF h
  <2> QED  BY <2>1, <2>2
<1>4. \A t \in Types : row(t) \in [Procs -> Nat]
  BY <1>3
<1>5. PICK order \in Orders : \A i \in Procs : \A t \in Types :
        GrantedNeed(p, r)[order[i]][t]
          <= free[t] + PartialSums([h \in Procs |-> GrantedAllocation(p, r)[order[h]][t]])[i]
  BY DEF IsSafe
<1>6. order \in [Procs -> Procs] /\ \A j \in Procs : \E k \in Procs : order[k] = j
  BY DEF Orders, Bijection, Surjection
<1>7. ASSUME NEW i \in Procs, NEW t \in Types
      PROVE  Needs(order[i], p, r)[t]
               <= free[t] + SumOver({order[k] : k \in 0 .. i - 1}, row(t))
  <2>1. i \in 0 .. N /\ order[i] \in Procs
    BY <1>0, <1>6 DEF Procs
  <2>2. GrantedNeed(p, r)[order[i]] = Needs(order[i], p, r)
    BY <2>1, PretendedIsGranted
  <2>3. [h \in Procs |-> GrantedAllocation(p, r)[order[h]][t]] = [h \in Procs |-> row(t)[order[h]]]
    BY <1>6, PretendedIsGranted
  <2>4. row(t) \in [Procs -> Nat] /\ row(t) \in [Procs -> Int]
    BY <1>4
  <2> HIDE DEF row
  <2>5. PartialSums([h \in Procs |-> row(t)[order[h]]])[i]
          = SumOver({order[k] : k \in 0 .. i - 1}, row(t))
    BY <2>1, <2>4, SumAlongOrder
  <2> QED  BY <1>5, <2>2, <2>3, <2>5
<1> HIDE DEF s, free
<1>8. ASSUME NEW t \in Types
      PROVE  \A k \in 0 .. N : s[k].work[t] = free[t] + SumOver(s[k].finish, row(t))
  <2> DEFINE S == {k \in 0 .. N : s[k].work[t] = free[t] + SumOver(s[k].finish, row(t))}
  <2>1. row(t) \in [Procs -> Int] /\ \A j \in Procs : row(t)[j] = Held(j, p, r)[t]
    BY <1>4
  <2> HIDE DEF row
  <2>2. 0 \in S
    <3>1. SumOver(s[0].finish, row(t)) = 0
      BY <1>2, <2>1, SumOverType
    <3>2. s[0].work[t] = free[t] /\ free[t] \in Int /\ 0 \in 0 .. N
      BY <1>0, <1>2, <1>3
    <3> QED  BY <3>1, <3>2
  <2>3. ASSUME NEW k \in 0 .. N - 1, k \in S  PROVE k + 1 \in S
    <3>1. k \in Procs /\ k + 1 \in 0 .. N /\ k \in 0 .. N
      BY <1>0 DEF Procs
    <3>2. s[k].work[t] = free[t] + SumOver(s[k].finish, row(t))
      BY <2>3
    <3>3. CASE s[k + 1] = s[k]
      BY <3>1, <3>2, <3>3
    <3>4. CASE s[k + 1] # s[k]
      <4>1. PICK j \in Procs \ s[k].finish :
              /\ s[k + 1].finish = s[k].finish \cup {j}
              /\ s[k + 1].work = Plus(s[k].work, Held(j, p, r))
        BY <3>1, <3>4, OnePerPass DEF s
      <4>2. SumOver(s[k + 1].finish, row(t)) = SumOver(s[k].finish, row(t)) + row(t)[j]
        BY <2>1, <4>1, SumOverAdd
      <4>3. s[k + 1].work[t] = s[k].work[t] + row(t)[j]
        BY <2>1, <4>1 DEF Plus
      <4>4. free[t] \in Int /\ SumOver(s[k].finish, row(t)) \in Int /\ row(t)[j] \in Int
        BY <1>3, <2>1, SumOverType
      <4>5. s[k + 1].work[t] = free[t] + SumOver(s[k + 1].finish, row(t))
        BY <3>2, <4>2, <4>3, <4>4
      <4> QED  BY <3>1, <4>5
    <3> QED  BY <3>3, <3>4
  <2>4. 0 .. N \subseteq S
    <3> HIDE DEF S
    <3> QED  BY <1>0, <2>2, <2>3, UpToInduction
  <2> QED  BY <2>4
<1>9. ASSUME NEW i \in Procs, s[i].finish # Procs
      PROVE  \E j \in Procs \ s[i].finish : Leq(Needs(j, p, r), s[i].work)
  <2> DEFINE T == {k \in Procs : order[k] \notin s[i].finish}
  <2>0. i \in 0 .. N
    BY <1>0 DEF Procs
  <2>1. T \in SUBSET Nat
    BY DEF Procs
  <2>2. T # {}
    <3>1. PICK j \in Procs : j \notin s[i].finish
      BY <1>1, <1>9, <2>0
    <3> QED  BY <1>6, <3>1
  <2>3. PICK m \in T : \A k \in T : m <= k
    <3> HIDE DEF T
    <3> QED  BY <2>1, <2>2, SmallestInSet
  <2> DEFINE First == {order[k] : k \in 0 .. m - 1}
  <2>4. First \subseteq s[i].finish
    <3>1. ASSUME NEW k \in 0 .. m - 1  PROVE order[k] \in s[i].finish
      <4>1. k \in Procs /\ ~ (m <= k)
        BY <1>0, <2>3 DEF Procs
      <4> QED  BY <2>3, <4>1
    <3> QED  BY <3>1
  <2> HIDE DEF First
  <2>5. ASSUME NEW t \in Types  PROVE Needs(order[m], p, r)[t] <= s[i].work[t]
    <3>1. row(t) \in [Procs -> Nat] /\ row(t) \in [Procs -> Int] /\ m \in Procs /\ order[m] \in Procs
      BY <1>4, <1>6, <2>3
    <3>2. Needs(order[m], p, r)[t] <= free[t] + SumOver(First, row(t))
      BY <1>7, <3>1 DEF First
    <3>3. s[i].work[t] = free[t] + SumOver(s[i].finish, row(t))
      BY <1>8, <2>0
    <3> HIDE DEF row
    <3>4. SumOver(First, row(t)) <= SumOver(s[i].finish, row(t))
      BY <2>4, <3>1, SumOverMonotone
    <3>5. /\ free[t] \in Int /\ Needs(order[m], p, r)[t] \in Int
          /\ SumOver(First, row(t)) \in Int /\ SumOver(s[i].finish, row(t)) \in Int
      BY <1>3, <3>1, PretendedTables, SumOverType
    <3> QED  BY <3>2, <3>3, <3>4, <3>5
  <2> QED  BY <1>6, <2>3, <2>5 DEF Leq
<1>10. \A k \in 0 .. N : Cardinality(s[k].finish) = k
  <2> DEFINE S == {k \in 0 .. N : Cardinality(s[k].finish) = k}
  <2>1. 0 \in S
    BY <1>0, <1>2, FS_EmptySet
  <2>2. ASSUME NEW k \in 0 .. N - 1, k \in S  PROVE k + 1 \in S
    <3>1. k \in Procs /\ k + 1 \in 0 .. N /\ k # N /\ Cardinality(s[k].finish) = k
      BY <1>0, <2>2 DEF Procs
    <3>2. s[k].finish # Procs
      BY <3>1, ProcsFinite
    <3>3. \E j \in Procs \ s[k].finish : Leq(Needs(j, p, r), s[k].work)
      BY <1>9, <3>1, <3>2
    <3>4. PICK j \in Procs \ s[k].finish : s[k + 1].finish = s[k].finish \cup {j}
      BY <3>1, <3>3, OnePerPass DEF s
    <3>5. s[k + 1] # s[k]
      BY <3>4
    <3>6. Cardinality(s[k + 1].finish) = Cardinality(s[k].finish) + 1
      BY <3>1, <3>5, FinishedAfterPass DEF s
    <3> QED  BY <3>1, <3>6
  <2>3. 0 .. N \subseteq S
    <3> HIDE DEF S
    <3> QED  BY <1>0, <2>1, <2>2, UpToInduction
  <2> QED  BY <2>3
<1>11. s[N].finish = Procs
  BY <1>0, <1>1, <1>10, ProcsFinite
<1> QED  BY <1>11 DEF safecheck, s

-----------------------------------------------------------------------------
(***************************************************************************)
(* The theorems.                                                           *)
(***************************************************************************)
\* Initially nothing is allocated and every unit is available.
LEMMA ConservedInit ==
  ASSUME Init  PROVE Conserved
<1>0. N \in Nat /\ N \in 0 .. N
  BY Claims
<1>1. /\ available = resource /\ need = max /\ running = TRUE
      /\ allocation = [p \in Procs |-> [t \in Types |-> 0]]
  BY DEF Init
<1>2. TypeOK
  BY <1>1, Claims DEF TypeOK
<1>3. ASSUME NEW t \in Types
      PROVE  available[t] + PartialSums([p \in Procs |-> allocation[p][t]])[N] = resource[t]
  <2> DEFINE f == [p \in Procs |-> allocation[p][t]]
  <2>1. f \in [Procs -> Int] /\ \A q \in Procs : f[q] = 0
    BY <1>1
  <2> HIDE DEF f
  <2>2. PartialSums(f)[N] = 0
    BY <1>0, <2>1, SumsOfZeros
  <2>3. available[t] = resource[t] /\ resource[t] \in Int
    BY <1>1, Claims
  <2> QED  BY <2>2, <2>3 DEF f
<1>4. ASSUME NEW p \in Procs  PROVE Plus(need[p], allocation[p]) = max[p]
  <2>1. max[p] \in [Types -> Nat]
    BY Claims
  <2>2. Plus(need[p], allocation[p]) = [t \in Types |-> max[p][t] + 0]
    BY <1>1 DEF Plus
  <2>3. \A t \in Types : max[p][t] + 0 = max[p][t]
    BY <2>1
  <2> QED  BY <2>1, <2>2, <2>3
<1> QED  BY <1>2, <1>3, <1>4 DEF Conserved

\* A grant moves the requested units from available to the process, whatever
\* the signs of the request's entries.
LEMMA ConservedGrant ==
  ASSUME Conserved, NEW p \in Procs, NEW r \in Requests(p), Grant(p, r)
  PROVE  Conserved'
<1> USE DEF Conserved
<1>0. N \in Nat /\ N \in 0 .. N
  BY Claims
<1>1. /\ available \in [Types -> Nat] /\ need \in [Procs -> [Types -> Nat]]
      /\ allocation \in [Procs -> [Types -> Int]] /\ running \in BOOLEAN
  BY DEF TypeOK
<1>2. r \in [Types -> Int]
  BY Claims DEF Requests
<1>3. \A t \in Types : r[t] <= need[p][t] /\ r[t] <= available[t]
  BY DEF Grant, Admissible, Leq
<1>4. /\ available' = [t \in Types |-> available[t] - r[t]]
      /\ need' = [need EXCEPT ![p] = [t \in Types |-> need[p][t] - r[t]]]
      /\ allocation' = [allocation EXCEPT ![p] = [t \in Types |-> allocation[p][t] + r[t]]]
      /\ running' = running
  BY DEF Grant, Plus, Minus
<1>5. available' \in [Types -> Nat]
  BY <1>1, <1>2, <1>3, <1>4
<1>6. need' \in [Procs -> [Types -> Nat]]
  <2>1. [t \in Types |-> need[p][t] - r[t]] \in [Types -> Nat]
    BY <1>1, <1>2, <1>3
  <2> QED  BY <1>1, <1>4, <2>1
<1>7. allocation' \in [Procs -> [Types -> Int]]
  <2>1. [t \in Types |-> allocation[p][t] + r[t]] \in [Types -> Int]
    BY <1>1, <1>2
  <2> QED  BY <1>1, <1>4, <2>1
<1>8. ASSUME NEW t \in Types
      PROVE  available'[t] + PartialSums([q \in Procs |-> allocation'[q][t]])[N] = resource[t]
  <2> DEFINE f == [q \in Procs |-> allocation[q][t]]
             g == [q \in Procs |-> allocation'[q][t]]
             d == r[t]
  <2>1. f \in [Procs -> Int] /\ g \in [Procs -> Int] /\ d \in Int
    BY <1>1, <1>2, <1>7
  <2>2. g[p] = f[p] + d /\ \A q \in Procs : q # p => g[q] = f[q]
    BY <1>1, <1>4
  <2>3. available[t] + PartialSums(f)[N] = resource[t]
    OBVIOUS
  <2> HIDE DEF f, g, d
  <2>4. PartialSums(g)[N] = PartialSums(f)[N] + d
    <3>1. \A i \in 0 .. N : PartialSums(g)[i] = PartialSums(f)[i] + (IF p < i THEN d ELSE 0)
      BY <2>1, <2>2, SumsChange
    <3>2. p < N
      BY Claims DEF Procs
    <3> QED  BY <1>0, <3>1, <3>2
  <2>5. PartialSums(f) \in [0 .. N -> Int]
    BY <1>0, <2>1, SumsDef
  <2>6. /\ available[t] \in Int /\ PartialSums(f)[N] \in Int /\ resource[t] \in Int
        /\ available'[t] = available[t] - d
    BY <1>0, <1>1, <1>4, <2>5, Claims DEF d
  <2>7. available'[t] + PartialSums(g)[N] = resource[t]
    BY <2>1, <2>3, <2>4, <2>6
  <2> QED  BY <2>7 DEF g
<1>9. ASSUME NEW q \in Procs  PROVE Plus(need'[q], allocation'[q]) = max[q]
  <2>1. Plus(need[q], allocation[q]) = max[q]
    OBVIOUS
  <2>2. CASE q # p
    <3>1. need'[q] = need[q] /\ allocation'[q] = allocation[q]
      BY <1>1, <1>4, <2>2
    <3> QED  BY <2>1, <3>1
  <2>3. CASE q = p
    <3>1. need'[q] = [t \in Types |-> need[q][t] - r[t]]
          /\ allocation'[q] = [t \in Types |-> allocation[q][t] + r[t]]
      BY <1>1, <1>4, <2>3
    <3>2. \A t \in Types : need'[q][t] + allocation'[q][t] = need[q][t] + allocation[q][t]
      BY <1>1, <1>2, <3>1
    <3>3. Plus(need'[q], allocation'[q]) = Plus(need[q], allocation[q])
      BY <3>2 DEF Plus
    <3> QED  BY <2>1, <3>3
  <2> QED  BY <2>2, <2>3
<1>10. TypeOK'
  BY <1>1, <1>4, <1>5, <1>6, <1>7 DEF TypeOK
<1> QED  BY <1>8, <1>9, <1>10

\* A step that leaves the three tables alone keeps what is said of them.
LEMMA TablesUnchanged ==
  ASSUME UNCHANGED <<available, need, allocation>>
  PROVE  /\ Conserved /\ running' \in BOOLEAN => Conserved'
         /\ AlwaysSafe => AlwaysSafe'
BY DEF Conserved, TypeOK, AlwaysSafe, IsSafe, Plus

\* The steps of the program are grants and steps that leave the tables alone.
LEMMA GrantOrUnchanged ==
  ASSUME [Next]_vars
  PROVE  \/ \E p \in Procs : \E r \in Requests(p) : Grant(p, r)
         \/ /\ UNCHANGED <<available, need, allocation>>
            /\ running' = running \/ running' = FALSE
BY DEF Next, resource_request, Refuse, Quit, vars

\* For every number of processes and types, all claims within the resources and
\* every sequence of requests, also of ones that give back more than the process
\* holds: the program makes and loses no unit, hands out no more than is free,
\* and keeps need equal to claim minus allocation (resource_request,
\* alg.17-1-bankers-5.c:117-150).
THEOREM UnitsConserved == Spec => []Conserved
<1>1. Init => Conserved
  BY ConservedInit
<1>2. ASSUME Conserved, [Next]_vars  PROVE Conserved'
  <2>1. CASE \E p \in Procs : \E r \in Requests(p) : Grant(p, r)
    BY <1>2, <2>1, ConservedGrant
  <2>2. CASE UNCHANGED <<available, need, allocation>> /\ (running' = running \/ running' = FALSE)
    <3>1. running' \in BOOLEAN
      BY <1>2, <2>2 DEF Conserved, TypeOK
    <3> QED  BY <1>2, <2>2, <3>1, TablesUnchanged
  <2> QED  BY <1>2, <2>1, <2>2, GrantOrUnchanged
<1> QED  BY <1>1, <1>2, PTL DEF Spec

\* Initially every order is a safe one: each claim is within the resources.
LEMMA InitSafe ==
  ASSUME Init  PROVE AlwaysSafe
<1> DEFINE order == [i \in Procs |-> i]
<1>1. order \in Orders
  <2>1. order \in Injection(Procs, Procs)
    BY DEF Injection, IsInjective
  <2>2. order \in Surjection(Procs, Procs)
    BY DEF Surjection
  <2> QED  BY <2>1, <2>2 DEF Orders, Bijection
<1>2. ASSUME NEW i \in Procs, NEW t \in Types
      PROVE  need[order[i]][t]
               <= available[t] + PartialSums([h \in Procs |-> allocation[order[h]][t]])[i]
  <2> DEFINE f == [h \in Procs |-> allocation[order[h]][t]]
  <2>1. f \in [Procs -> Int] /\ \A q \in Procs : f[q] = 0
    BY DEF Init
  <2> HIDE DEF f
  <2>2. PartialSums(f)[i] = 0
    <3>1. i \in 0 .. N
      BY Claims DEF Procs
    <3> QED  BY <2>1, <3>1, SumsOfZeros
  <2>3. need[order[i]][t] = max[i][t] /\ available[t] = resource[t]
    BY DEF Init
  <2>4. max[i][t] <= resource[t] /\ max[i][t] \in Int /\ resource[t] \in Int
    BY Claims
  <2> QED  BY <2>2, <2>3, <2>4 DEF f
<1> HIDE DEF order
<1> QED  BY <1>1, <1>2 DEF AlwaysSafe, IsSafe

\* Every state that the program reaches is safe: after any sequence of requests
\* an order exists in which all processes can obtain their whole claim and end
\* (safecheck and its use, alg.17-1-bankers-5.c:49-150).
THEOREM NeverUnsafe == Spec => []AlwaysSafe
<1>1. Init => AlwaysSafe
  BY InitSafe
<1>2. ASSUME Conserved, AlwaysSafe, [Next]_vars  PROVE AlwaysSafe'
  <2>1. ASSUME NEW p \in Procs, NEW r \in Requests(p), Grant(p, r)  PROVE AlwaysSafe'
    <3>1. Asked(p, r)
      BY <1>2 DEF Asked, Conserved
    <3>2. IsSafe(Minus(available, r), GrantedNeed(p, r), GrantedAllocation(p, r))
      BY <2>1, <3>1, SafecheckSound DEF Grant
    <3>3. /\ available' = Minus(available, r) /\ need' = GrantedNeed(p, r)
          /\ allocation' = GrantedAllocation(p, r)
      BY <2>1 DEF Grant, GrantedNeed, GrantedAllocation
    <3> QED  BY <3>2, <3>3 DEF AlwaysSafe, IsSafe
  <2>2. CASE UNCHANGED <<available, need, allocation>>
    BY <1>2, <2>2, TablesUnchanged
  <2> QED  BY <1>2, <2>1, <2>2, GrantOrUnchanged
<1> QED  BY <1>1, <1>2, UnitsConserved, PTL DEF Spec

\* safecheck refuses no admissible request whose grant would be safe, as long as
\* no holding is negative: taking always the first process that can end never
\* closes the way for the others (alg.17-1-bankers-5.c:57-96).
THEOREM GreedySearchExact == Spec => []NeverTooStrict
<1>1. ASSUME Conserved  PROVE NeverTooStrict
  <2> SUFFICES ASSUME NEW p \in Procs, NEW r \in Requests(p),
                      \A j \in Procs, t \in Types : Held(j, p, r)[t] >= 0,
                      IsSafe(Minus(available, r), GrantedNeed(p, r), GrantedAllocation(p, r))
               PROVE  safecheck(p, r)
    BY DEF NeverTooStrict, GrantedNeed, GrantedAllocation
  <2>1. Asked(p, r)
    BY <1>1 DEF Asked, Conserved
  <2> QED  BY <2>1, SafecheckComplete
<1> QED  BY <1>1, UnitsConserved, PTL
=============================================================================
