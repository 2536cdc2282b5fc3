------------------------- MODULE Simulators_proofs -------------------------
(***************************************************************************)
(* Proofs about the programs of Simulators, for every number of processes, *)
(* clients, frames and pages.  A behaviour runs one program and leaves the *)
(* variables of the others alone, so each program has an inductive         *)
(* invariant over its own variables.                                       *)
(***************************************************************************)
EXTENDS Simulators, ProofLemmas, SequenceTheorems

-----------------------------------------------------------------------------
(***************************************************************************)
(* The processes that share a heap.                                        *)
(***************************************************************************)
\* The instance's cardinality is the one the library's theorems are about.
LEMMA SharedCardinality ==
  ASSUME NEW S  PROVE Shared!Cardinality(S) = Cardinality(S)
BY DEF Shared!Cardinality, Cardinality

Places == {"start", "failed", "initial", "unlock", "clear", "test", "wait", "claim", "inside",
           "counting", "working", "worked", "leave", "leaving", "left", "detach", "exit"}
Gone == {p \in Procs : proc[p] \in {"left", "detach", "exit"}}

\* lock, and what a leaving process has read of it, is at most 1 above the number
\* of processes that have left.
SharedInv ==
  /\ proc \in [Procs -> Places] /\ saw \in [Procs -> Nat]
  /\ lock \in Nat /\ operation_time \in Nat /\ size \in Nat
  /\ lock <= Cardinality(Gone) + 1
  /\ \A p \in Procs : proc[p] \in {"leaving", "detach"} => saw[p] <= Cardinality(Gone) + 1
  /\ removed => Cardinality(Gone) + 1 >= Removers

LEMMA SharedInit == Shared!Init => SharedInv
<1> SUFFICES ASSUME Shared!Init  PROVE SharedInv
  OBVIOUS
<1>1. Gone = {}
  BY DEF Shared!Init, Gone
<1>2. Cardinality(Gone) = 0
  BY <1>1, FS_EmptySet
<1> QED  BY <1>2 DEF Shared!Init, SharedInv, Places

LEMMA GoneFinite ==
  /\ IsFiniteSet(Gone) /\ Cardinality(Gone) \in Nat
  /\ \A p \in Procs : p \notin Gone => Cardinality(Gone \cup {p}) = Cardinality(Gone) + 1
<1>1. Gone \subseteq Procs
  BY DEF Gone
<1>2. IsFiniteSet(Gone)
  BY <1>1, Inputs, FS_Subset
<1> QED  BY <1>2, FS_CardinalityType, FS_AddElement

\* A process that goes to another place without leaving, or having left, keeps
\* SharedInv if what it writes and reads does.
LEMMA SharedMoves ==
  ASSUME SharedInv, NEW p \in Procs, NEW to \in Places, proc' = [proc EXCEPT ![p] = to],
         proc[p] \in {"left", "detach", "exit"} <=> to \in {"left", "detach", "exit"},
         saw' \in [Procs -> Nat], \A q \in Procs : q # p => saw'[q] = saw[q],
         to \in {"leaving", "detach"} => saw'[p] <= Cardinality(Gone) + 1,
         lock' \in Nat, lock' <= Cardinality(Gone) + 1, operation_time' \in Nat, size' \in Nat,
         removed' => Cardinality(Gone) + 1 >= Removers
  PROVE  SharedInv'
<1>1. proc' \in [Procs -> Places] /\ proc'[p] = to /\ \A q \in Procs : q # p => proc'[q] = proc[q]
  BY DEF SharedInv
<1>2. Gone' = Gone
  BY <1>1 DEF Gone
<1>3. ASSUME NEW q \in Procs, proc'[q] \in {"leaving", "detach"}
      PROVE  saw'[q] <= Cardinality(Gone) + 1
  <2>1. CASE q = p
    BY <1>1, <1>3, <2>1
  <2>2. CASE q # p
    BY <1>1, <1>3, <2>2 DEF SharedInv
  <2> QED  BY <2>1, <2>2
<1> QED  BY <1>1, <1>2, <1>3 DEF SharedInv

\* A step keeps SharedInv.
LEMMA SharedNext == SharedInv /\ [Shared!Next]_kvars => SharedInv'
<1> SUFFICES ASSUME SharedInv, [Shared!Next]_kvars  PROVE SharedInv'
  OBVIOUS
<1>1. CASE UNCHANGED kvars
  BY <1>1 DEF kvars, SharedInv, Gone
<1> SUFFICES ASSUME NEW p \in Procs,
                    \/ Shared!Attach(p) \/ Shared!initialStaticLinkList(p)
                    \/ Shared!ClearLock(p) \/ Shared!ClearTimes(p)
                    \/ Shared!TestSize(p) \/ Shared!FindFree(p) \/ Shared!Claim(p)
                    \/ Shared!Begin(p) \/ Shared!Count(p) \/ Shared!Operate(p) \/ Shared!Release(p)
                    \/ Shared!Leave(p) \/ Shared!CountLeaver(p) \/ Shared!ReadCount(p)
                    \/ Shared!Detach(p)
             PROVE  SharedInv'
  BY <1>1 DEF Shared!Next, kvars
<1> DEFINE n == Cardinality(Gone)
<1>g. n \in Nat
  BY GoneFinite
<1>pl. \A to : to \in {"failed", "initial", "unlock", "clear", "test", "wait", "claim", "inside",
                       "counting", "working", "worked", "leave", "leaving", "left", "detach", "exit"}
               => to \in Places
  BY DEF Places
<1>ty. /\ proc \in [Procs -> Places] /\ saw \in [Procs -> Nat] /\ lock \in Nat
       /\ operation_time \in Nat /\ size \in Nat /\ saw[p] \in Nat
       /\ lock <= n + 1 /\ (removed => n + 1 >= Removers)
       /\ 0 <= n + 1 /\ 1 <= n + 1
  BY <1>g DEF SharedInv
<1> HIDE DEF n
<1> USE DEF Shared!Move, Shared!Sees
<1>2. CASE Shared!Attach(p)
  <2>1. PICK to \in {"failed", "initial"} : proc' = [proc EXCEPT ![p] = to]
    BY <1>2 DEF Shared!Attach
  <2>2. /\ proc[p] = "start" /\ UNCHANGED <<size, lock, operation_time, removed, saw>>
    BY <1>2 DEF Shared!Attach
  <2> QED  BY <2>1, <2>2, <1>pl, <1>ty, SharedMoves DEF n
<1>3. CASE Shared!initialStaticLinkList(p)
  BY <1>3, <1>pl, <1>ty, SharedMoves DEF Shared!initialStaticLinkList, n
<1>4. CASE Shared!ClearLock(p)
  BY <1>4, <1>pl, <1>ty, SharedMoves DEF Shared!ClearLock, n
<1>5. CASE Shared!ClearTimes(p)
  BY <1>5, <1>pl, <1>ty, SharedMoves DEF Shared!ClearTimes, n
<1>6. CASE Shared!TestSize(p)
  <2>1. PICK to \in {"wait", "leave"} : proc' = [proc EXCEPT ![p] = to]
    BY <1>6 DEF Shared!TestSize
  <2>2. /\ proc[p] = "test" /\ UNCHANGED <<size, lock, operation_time, removed, saw>>
    BY <1>6 DEF Shared!TestSize
  <2> QED  BY <2>1, <2>2, <1>pl, <1>ty, SharedMoves DEF n
<1>7. CASE Shared!FindFree(p)
  BY <1>7, <1>pl, <1>ty, SharedMoves DEF Shared!FindFree, n
<1>8. CASE Shared!Claim(p)
  BY <1>8, <1>pl, <1>ty, SharedMoves DEF Shared!Claim, n
<1>9. CASE Shared!Begin(p)
  BY <1>9, <1>pl, <1>ty, SharedMoves DEF Shared!Begin, n
<1>10. CASE Shared!Count(p)
  <2>1. /\ proc[p] = "counting" /\ proc' = [proc EXCEPT ![p] = "working"] /\ saw' \in [Procs -> Nat]
        /\ \A q \in Procs : q # p => saw'[q] = saw[q]
        /\ operation_time' \in Nat /\ UNCHANGED <<size, lock, removed>>
    BY <1>10, <1>ty DEF Shared!Count
  <2> QED  BY <2>1, <1>pl, <1>ty, SharedMoves DEF n
<1>11. CASE Shared!Operate(p)
  <2>1. size' \in Nat
    BY <1>11, <1>ty DEF Shared!Operate, Shared!operation
  <2> QED  BY <1>11, <2>1, <1>pl, <1>ty, SharedMoves DEF Shared!Operate, n
<1>12. CASE Shared!Release(p)
  BY <1>12, <1>pl, <1>ty, SharedMoves DEF Shared!Release, n
<1>13. CASE Shared!Leave(p)
  BY <1>13, <1>pl, <1>ty, SharedMoves DEF Shared!Leave, n
<1>14. CASE Shared!CountLeaver(p)
  <2>1. /\ proc[p] = "leaving" /\ proc' = [proc EXCEPT ![p] = "left"] /\ lock' = saw[p] + 1
        /\ saw' = [saw EXCEPT ![p] = 0] /\ UNCHANGED <<size, operation_time, removed>>
    BY <1>14 DEF Shared!CountLeaver
  <2>2. Gone' = Gone \cup {p} /\ p \notin Gone
    BY <2>1, <1>ty DEF Gone
  <2>3. Cardinality(Gone') = n + 1
    BY <2>2, GoneFinite DEF n
  <2>4. saw[p] <= n + 1
    BY <2>1 DEF SharedInv, n
  <2>5. proc' \in [Procs -> Places] /\ saw' \in [Procs -> Nat] /\ lock' \in Nat
    BY <2>1, <1>ty, <1>pl
  <2>6. ASSUME NEW q \in Procs, proc'[q] \in {"leaving", "detach"}
        PROVE  saw'[q] <= Cardinality(Gone') + 1
    <3>1. q # p
      BY <2>1, <2>6, <1>ty
    <3>2. proc[q] = proc'[q] /\ saw'[q] = saw[q] /\ saw[q] \in Nat
      BY <2>1, <3>1, <1>ty
    <3>3. saw[q] <= n + 1
      BY <2>6, <3>2 DEF SharedInv, n
    <3> QED  BY <2>3, <3>2, <3>3, <1>g
  <2>7. removed' => Cardinality(Gone') + 1 >= Removers
    BY <2>1, <2>3, <1>g, <1>ty, Sizes
  <2>8. lock' <= Cardinality(Gone') + 1
    BY <2>1, <2>3, <2>4, <1>g, <1>ty
  <2> QED  BY <2>1, <2>5, <2>6, <2>7, <2>8, <1>ty DEF SharedInv
<1>15. CASE Shared!ReadCount(p)
  BY <1>15, <1>pl, <1>ty, SharedMoves DEF Shared!ReadCount, n
<1>16. CASE Shared!Detach(p)
  <2>1. saw[p] >= Removers => n + 1 >= Removers
    BY <1>16, <1>g, <1>ty, Sizes DEF Shared!Detach, SharedInv, n
  <2>2. /\ proc[p] = "detach" /\ proc' = [proc EXCEPT ![p] = "exit"] /\ saw' \in [Procs -> Nat]
        /\ \A q \in Procs : q # p => saw'[q] = saw[q]
        /\ UNCHANGED <<size, lock, operation_time>>
    BY <1>16, <1>ty DEF Shared!Detach
  <2>3. removed' => n + 1 >= Removers
    BY <1>16, <2>1, <1>ty DEF Shared!Detach
  <2> QED  BY <2>2, <2>3, <1>pl, <1>ty, SharedMoves DEF n
<1> QED  BY <1>2, <1>3, <1>4, <1>5, <1>6, <1>7, <1>8, <1>9, <1>10, <1>11, <1>12, <1>13,
            <1>14, <1>15, <1>16

\* Every step of the composition is a step of the shared heap's processes or
\* none of theirs.
LEMMA SharedStep == Next => [Shared!Next]_kvars
BY DEF Next, RunHeap, RunPaging, RunDisk, RunChat, RunShared, RunInput, RunTools, kvars

\* ipc-shmcon.c: lock, which the processes also take, clear and add to without any
\* protection, never counts more than one process too many, so that the memory is
\* never removed before all but one of Removers processes have left; for every
\* number of processes and every interleaving of their reads and writes.
THEOREM RemovalWaits == Spec => []RemovedLate
<1>1. Init => SharedInv
  BY SharedInit DEF Init
<1>2. SharedInv /\ [Next]_<<prog, hvars, pvars, dvars, tvars, kvars, ivars, lvars>> => SharedInv'
  BY SharedNext, SharedStep
<1>3. SharedInv => RemovedLate
  <2> SUFFICES ASSUME SharedInv  PROVE Shared!RemovedLate
    BY DEF RemovedLate
  <2>1. Shared!Left = Gone
    BY DEF Shared!Left, Shared!At, Gone
  <2> QED  BY <2>1, SharedCardinality DEF Shared!RemovedLate, SharedInv
<1> QED  BY <1>1, <1>2, <1>3, PTL DEF Spec

-----------------------------------------------------------------------------
(***************************************************************************)
(* The page replacement algorithms.                                        *)
(***************************************************************************)
\* The instance's operators are the ones the library's theorems are about.
LEMMA PagingCardinality ==
  ASSUME NEW S  PROVE Paging!Cardinality(S) = Cardinality(S)
BY DEF Paging!Cardinality, Cardinality

Frames == 0 .. FRAME_SIZE - 1
LEMMA FramesAre == Paging!Frames = Frames /\ Paging!Empty = -1 /\ 0 \in Frames
BY Sizes DEF Paging!Frames, Frames, Paging!Empty

\* The least element of a set of numbers.
LEMMA PagingMin ==
  ASSUME NEW T \in SUBSET Nat, T # {}
  PROVE  Paging!Min(T) \in T /\ \A n \in T : Paging!Min(T) <= n
<1>1. \E m \in T : \A n \in T : m <= n
  BY SmallestInSet
<1> QED  BY <1>1 DEF Paging!Min

\* A sequence that holds x once, at position k, with x moved to its end.
LEMMA MovedPresent ==
  ASSUME NEW S, NEW s \in Seq(S), NEW k \in 1 .. Len(s),
         \A i, j \in 1 .. Len(s) : s[i] = s[j] => i = j
  PROVE  LET t == Paging!MovedLast(s, s[k])
         IN  /\ t \in Seq(S) /\ Len(t) = Len(s)
             /\ \A j \in 1 .. Len(s) :
                  t[j] = IF j < k THEN s[j] ELSE IF j < Len(s) THEN s[j + 1] ELSE s[k]
<1> DEFINE n == Len(s)
           I == {i \in 1 .. Len(s) + 1 : i = Len(s) + 1 \/ s[i] = s[k]}
           u == SubSeq(s, 1, k - 1)
           v == SubSeq(s, k + 1, n)
           w == u \o v
           t == Paging!MovedLast(s, s[k])
<1>1. Paging!Min(I) = k
  <2>1. I \in SUBSET Nat /\ I # {} /\ k \in I /\ \A i \in I : k <= i
    OBVIOUS
  <2> HIDE DEF I
  <2>2. Paging!Min(I) \in I /\ \A i \in I : Paging!Min(I) <= i
    BY <2>1, PagingMin
  <2>3. PICK a : a = Paging!Min(I)
    OBVIOUS
  <2>4. a \in Nat /\ k \in Nat /\ a <= k /\ k <= a
    BY <2>1, <2>2, <2>3
  <2>5. a = k
    BY <2>4
  <2> QED  BY <2>3, <2>5
<1>2. t = Append(w, s[k])
  BY <1>1 DEF Paging!MovedLast
<1>3. /\ n \in Nat /\ k \in 1 .. n /\ u \in Seq(S) /\ v \in Seq(S) /\ Len(u) = k - 1 /\ Len(v) = n - k
      /\ \A j \in 1 .. k - 1 : u[j] = s[j]
      /\ \A j \in 1 .. n - k : v[j] = s[j + k]
  OBVIOUS
<1> HIDE DEF u, v, n, t
<1>4. /\ w \in Seq(S) /\ Len(w) = n - 1
      /\ \A j \in 1 .. n - 1 : w[j] = IF j < k THEN s[j] ELSE s[j + 1]
  <2>1. w \in Seq(S) /\ Len(w) = n - 1
    <3>0. u \in Seq(S) /\ v \in Seq(S)
      BY <1>3
    <3>1. w \in Seq(S) /\ Len(w) = Len(u) + Len(v)
      BY <3>0, ConcatProperties
    <3> QED  BY <3>1, <1>3
  <2>2. ASSUME NEW j \in 1 .. n - 1  PROVE w[j] = IF j < k THEN s[j] ELSE s[j + 1]
    <3>1. CASE j < k
      BY <3>1, <1>3 DEF n
    <3>2. CASE j >= k
      <4>1. w[j] = v[j - (k - 1)]
        BY <3>2, <1>3, ConcatAt DEF n
      <4>2. v[j - (k - 1)] = s[(j - (k - 1)) + k]
        BY <3>2, <1>3 DEF n
      <4> QED  BY <3>2, <4>1, <4>2, <1>3 DEF n
    <3> QED  BY <3>1, <3>2, <1>3 DEF n
  <2> QED  BY <2>1, <2>2
<1> HIDE DEF w
<1>5. s[k] \in S
  OBVIOUS
<1>6. /\ t \in Seq(S) /\ Len(t) = n
      /\ \A j \in 1 .. n : t[j] = IF j < n THEN w[j] ELSE s[k]
  BY <1>2, <1>3, <1>4, <1>5
<1>7. ASSUME NEW j \in 1 .. n
      PROVE  t[j] = IF j < k THEN s[j] ELSE IF j < n THEN s[j + 1] ELSE s[k]
  BY <1>3, <1>4, <1>6 DEF n
<1> QED  BY <1>6, <1>7 DEF t, n

LEMMA MovedAbsent ==
  ASSUME NEW S, NEW s \in Seq(S), NEW x, \A i \in 1 .. Len(s) : s[i] # x
  PROVE  Paging!MovedLast(s, x) = Append(s, x)
<1> DEFINE n == Len(s)
           I == {i \in 1 .. n + 1 : i = n + 1 \/ s[i] = x}
<1>1. n \in Nat /\ I = {n + 1}
  OBVIOUS
<1>2. Paging!Min(I) = n + 1
  <2>1. I \in SUBSET Nat /\ I # {}
    BY <1>1
  <2> HIDE DEF I
  <2> QED  BY <1>1, <2>1, PagingMin
<1>3. Paging!MovedLast(s, x) = Append(SubSeq(s, 1, (n + 1) - 1) \o SubSeq(s, (n + 1) + 1, n), x)
  BY <1>2 DEF Paging!MovedLast
<1>4. SubSeq(s, 1, (n + 1) - 1) = s /\ SubSeq(s, (n + 1) + 1, n) = <<>>
  BY <1>1
<1>5. s \o <<>> = s
  OBVIOUS
<1> QED  BY <1>3, <1>4, <1>5

Distinct(s) == \A i, j \in 1 .. Len(s) : s[i] = s[j] => i = j
Elements(s) == {s[i] : i \in 1 .. Len(s)}
Seen == Elements(recent)
Filled(f) == {i \in Frames : f[i] # -1}
Values(f) == {f[i] : i \in Filled(f)}

\* Of the pages seen, each is in one frame at most, and if one is in none then no
\* frame is free.
Framed(f, seen) ==
  /\ f \in [Frames -> Pages \cup {-1}]
  /\ \A i, j \in Frames : f[i] = f[j] /\ f[i] # -1 => i = j
  /\ Values(f) \subseteq seen
  /\ Filled(f) = Frames \/ Values(f) = seen

LEMMA FramedHit ==
  ASSUME NEW f, NEW seen, Framed(f, seen), NEW page \in Pages, Paging!Hit(f, page)
  PROVE  Framed(f, seen \cup {page}) /\ page \in Values(f) /\ page \in seen
<1>1. PICK i \in Frames : f[i] = page
  BY FramesAre DEF Paging!Hit
<1>2. page # -1
  BY Inputs
<1>3. page \in Values(f)
  BY <1>1, <1>2 DEF Values, Filled
<1>4. page \in seen
  BY <1>3 DEF Framed
<1>5. seen \cup {page} = seen
  BY <1>4
<1> QED  BY <1>3, <1>4, <1>5

LEMMA FramedMiss ==
  ASSUME NEW f, NEW seen, Framed(f, seen), NEW page \in Pages, ~Paging!Hit(f, page),
         NEW i \in Frames, f[i] = -1 \/ Filled(f) = Frames
  PROVE  LET g == [f EXCEPT ![i] = page]
         IN  Framed(g, seen \cup {page}) /\ page \in Values(g) /\ Filled(g) = Filled(f) \cup {i}
<1> DEFINE g == [f EXCEPT ![i] = page]
<1>1. page # -1 /\ \A j \in Frames : f[j] # page
  BY Inputs, FramesAre DEF Paging!Hit
<1>2. /\ g \in [Frames -> Pages \cup {-1}] /\ g[i] = page
      /\ \A j \in Frames : j # i => g[j] = f[j]
  BY DEF Framed
<1> HIDE DEF g
<1>3. Filled(g) = Filled(f) \cup {i}
  BY <1>1, <1>2 DEF Filled
<1>4. \A j, k \in Frames : g[j] = g[k] /\ g[j] # -1 => j = k
  BY <1>1, <1>2 DEF Framed
<1>5. page \in Values(g) /\ Values(g) \subseteq Values(f) \cup {page}
  BY <1>1, <1>2, <1>3 DEF Values, Filled
<1>6. Filled(g) = Frames \/ Values(g) = seen \cup {page}
  <2>1. CASE Filled(f) = Frames
    BY <2>1, <1>3
  <2>2. CASE f[i] = -1 /\ Values(f) = seen
    <3>1. Values(f) \subseteq Values(g)
      BY <2>2, <1>2, <1>3 DEF Values, Filled
    <3> QED  BY <3>1, <2>2, <1>5
  <2> QED  BY <2>1, <2>2 DEF Framed
<1>7. Values(g) \subseteq seen \cup {page}
  BY <1>5 DEF Framed
<1>8. Framed(g, seen \cup {page})
  BY <1>2, <1>4, <1>6, <1>7 DEF Framed
<1> QED  BY <1>3, <1>5, <1>8 DEF g

\* The frame behind a frame is again a frame.
LEMMA NextIsFrame ==
  ASSUME NEW i \in Frames
  PROVE  Paging!NextFrame(i) = IF i = FRAME_SIZE - 1 THEN 0 ELSE i + 1
<1>1. CASE i = FRAME_SIZE - 1
  BY <1>1, Sizes, ModUnique, 0 \in 0 .. FRAME_SIZE - 1, i + 1 = FRAME_SIZE * 1 + 0 DEF Frames, Paging!NextFrame
<1>2. CASE i # FRAME_SIZE - 1
  BY <1>2, Sizes, ModUnique, i + 1 \in 0 .. FRAME_SIZE - 1, i + 1 = FRAME_SIZE * 0 + (i + 1) DEF Frames, Paging!NextFrame
<1> QED  BY <1>1, <1>2

LEMMA IntervalGrows == ASSUME NEW r \in Nat  PROVE (0 .. r - 1) \cup {r} = 0 .. r
OBVIOUS

\* FIFO fills the frames in ascending order.
FifoInv ==
  /\ fifo.replace_index \in Frames
  /\ Filled(fifo.frame) \in {Frames, 0 .. fifo.replace_index - 1}
  /\ Framed(fifo.frame, Seen)

LEMMA FifoStep ==
  ASSUME FifoInv, NEW page \in Pages, Paging!FIFO(page)
  PROVE  /\ fifo'.replace_index \in Frames
         /\ Filled(fifo'.frame) \in {Frames, 0 .. fifo'.replace_index - 1}
         /\ Framed(fifo'.frame, Seen \cup {page}) /\ page \in Values(fifo'.frame)
<1>1. CASE Paging!Hit(fifo.frame, page)
  BY <1>1, FramedHit DEF FifoInv, Paging!FIFO
<1>2. CASE ~Paging!Hit(fifo.frame, page)
  <2> DEFINE r == fifo.replace_index
             g == [fifo.frame EXCEPT ![r] = page]
  <2>1. fifo'.frame = g /\ fifo'.replace_index = Paging!NextFrame(r)
    BY <1>2 DEF Paging!FIFO
  <2>2. r \in Frames /\ r \in Nat /\ r < FRAME_SIZE
    BY Sizes DEF FifoInv, Frames
  <2>3. fifo.frame[r] = -1 \/ Filled(fifo.frame) = Frames
    <3>1. Filled(fifo.frame) = 0 .. r - 1 => r \notin Filled(fifo.frame)
      BY <2>2
    <3> QED  BY <3>1, <2>2 DEF FifoInv, Filled
  <2>4. Framed(g, Seen \cup {page}) /\ page \in Values(g) /\ Filled(g) = Filled(fifo.frame) \cup {r}
    BY <1>2, <2>2, <2>3, FramedMiss DEF FifoInv
  <2>5. Filled(g) \in {Frames, 0 .. Paging!NextFrame(r) - 1}
    <3>1. CASE Filled(fifo.frame) = Frames
      BY <3>1, <2>2, <2>4
    <3>2. CASE Filled(fifo.frame) = 0 .. r - 1 /\ r = FRAME_SIZE - 1
      <4>1. Filled(g) = 0 .. r
        BY <3>2, <2>2, <2>4, IntervalGrows
      <4> QED  BY <3>2, <4>1 DEF Frames
    <3>3. CASE Filled(fifo.frame) = 0 .. r - 1 /\ r # FRAME_SIZE - 1
      <4>1. Filled(g) = 0 .. r
        BY <3>3, <2>2, <2>4, IntervalGrows
      <4>2. Paging!NextFrame(r) - 1 = r
        BY <3>3, <2>2, NextIsFrame
      <4> QED  BY <4>1, <4>2
    <3> QED  BY <3>1, <3>2, <3>3 DEF FifoInv
  <2>6. Paging!NextFrame(r) \in Frames
    BY <2>2, NextIsFrame, Sizes DEF Frames
  <2> QED  BY <2>1, <2>4, <2>5, <2>6
<1> QED  BY <1>1, <1>2

\* The clock's position after k steps from p, and every frame is reached.
LEMMA AroundFrames ==
  ASSUME NEW p \in Frames
  PROVE  /\ \A k \in 0 .. FRAME_SIZE :
              /\ Paging!Around(p, k) = IF p + k < FRAME_SIZE THEN p + k ELSE p + k - FRAME_SIZE
              /\ Paging!Around(p, k) \in Frames
         /\ \A j \in Frames : \E k \in 0 .. FRAME_SIZE - 1 : Paging!Around(p, k) = j
<1>0. FRAME_SIZE \in Nat \ {0} /\ p \in Nat /\ p < FRAME_SIZE
  BY Sizes DEF Frames
<1>1. ASSUME NEW k \in 0 .. FRAME_SIZE
      PROVE  /\ Paging!Around(p, k) = IF p + k < FRAME_SIZE THEN p + k ELSE p + k - FRAME_SIZE
             /\ Paging!Around(p, k) \in Frames
  <2>1. CASE p + k < FRAME_SIZE
    <3>1. p + k \in 0 .. FRAME_SIZE - 1 /\ p + k = FRAME_SIZE * 0 + (p + k) /\ p + k \in Nat
      BY <1>0, <2>1
    <3>2. (p + k) % FRAME_SIZE = p + k
      BY <1>0, <3>1, ModUnique
    <3> QED  BY <2>1, <3>1, <3>2 DEF Paging!Around, Frames
  <2>2. CASE p + k >= FRAME_SIZE
    <3>1. /\ p + k - FRAME_SIZE \in 0 .. FRAME_SIZE - 1
          /\ p + k = FRAME_SIZE * 1 + (p + k - FRAME_SIZE) /\ p + k \in Nat
      BY <1>0, <2>2
    <3>2. (p + k) % FRAME_SIZE = p + k - FRAME_SIZE
      BY <1>0, <3>1, ModUnique
    <3> QED  BY <1>0, <2>2, <3>1, <3>2 DEF Paging!Around, Frames
  <2> QED  BY <1>0, <2>1, <2>2
<1>2. ASSUME NEW j \in Frames  PROVE \E k \in 0 .. FRAME_SIZE - 1 : Paging!Around(p, k) = j
  <2>0. j \in Nat /\ j < FRAME_SIZE
    BY <1>0 DEF Frames
  <2>1. CASE j >= p
    <3>1. j - p \in 0 .. FRAME_SIZE - 1 /\ j - p \in 0 .. FRAME_SIZE /\ p + (j - p) = j
      BY <1>0, <2>0, <2>1
    <3>2. Paging!Around(p, j - p) = j
      BY <1>1, <2>0, <3>1
    <3> QED  BY <3>1, <3>2
  <2>2. CASE j < p
    <3> DEFINE k == j - p + FRAME_SIZE
    <3>1. k \in 0 .. FRAME_SIZE - 1 /\ k \in 0 .. FRAME_SIZE /\ p + k = j + FRAME_SIZE
          /\ p + k - FRAME_SIZE = j /\ ~(p + k < FRAME_SIZE)
      BY <1>0, <2>0, <2>2
    <3> HIDE DEF k
    <3>2. Paging!Around(p, k) = j
      BY <1>1, <3>1
    <3> QED  BY <3>1, <3>2
  <2> QED  BY <1>0, <2>0, <2>1, <2>2
<1> QED  BY <1>1, <1>2

\* The clock stops at the first bit that is 0.
LEMMA PassedBits ==
  ASSUME NEW p \in Frames, NEW bit \in [Frames -> {0, 1}]
  PROVE  LET n == Paging!Passed(bit, p)
         IN  /\ n \in 0 .. FRAME_SIZE
             /\ n < FRAME_SIZE => bit[Paging!Around(p, n)] = 0
             /\ \A k \in 0 .. n - 1 : bit[Paging!Around(p, k)] = 1
<1> DEFINE T == {k \in 0 .. FRAME_SIZE : k = FRAME_SIZE \/ bit[Paging!Around(p, k)] = 0}
           n == Paging!Min(T)
<1>0. FRAME_SIZE \in Nat
  BY Sizes
<1>1. T \in SUBSET Nat /\ FRAME_SIZE \in T
  BY <1>0
<1>2. n \in T /\ \A k \in T : n <= k
  <2> HIDE DEF T
  <2> QED  BY <1>1, PagingMin
<1> HIDE DEF n
<1>3. n \in 0 .. FRAME_SIZE /\ (n < FRAME_SIZE => bit[Paging!Around(p, n)] = 0)
  BY <1>0, <1>2
<1>4. ASSUME NEW k \in 0 .. n - 1  PROVE bit[Paging!Around(p, k)] = 1
  <2>1. k \in 0 .. FRAME_SIZE /\ ~(n <= k)
    BY <1>0, <1>3
  <2>2. k \notin T
    BY <1>2, <2>1
  <2>3. bit[Paging!Around(p, k)] # 0
    BY <2>1, <2>2
  <2> QED  BY <2>1, <2>3, AroundFrames
<1>5. Paging!Passed(bit, p) = n
  BY DEF Paging!Passed, n
<1> QED  BY <1>3, <1>4, <1>5

\* The clock fills the frames in ascending order, and the bit of a free one is 0.
ClockFills ==
  \/ Filled(clock.frame) = Frames
  \/ /\ Filled(clock.frame) = 0 .. clock.clock_pointer - 1
     /\ \A i \in Frames \ Filled(clock.frame) : clock.bit[i] = 0

ClockInv ==
  /\ clock \in [frame : [Frames -> Pages \cup {-1}], bit : [Frames -> {0, 1}], clock_pointer : Frames]
  /\ ClockFills
  /\ Framed(clock.frame, Seen)

LEMMA ClockStep ==
  ASSUME ClockInv, NEW page \in Pages, Paging!Second_Chance(page)
  PROVE  /\ clock' \in [frame : [Frames -> Pages \cup {-1}], bit : [Frames -> {0, 1}],
                        clock_pointer : Frames]
         /\ ClockFills'
         /\ Framed(clock'.frame, Seen \cup {page}) /\ page \in Values(clock'.frame)
         /\ \A i \in Frames : clock'.frame[i] # clock.frame[i] =>
              clock.bit[i] = 0 \/ \A j \in Frames : clock.bit[j] = 1
<1> DEFINE f == clock.frame
           b == clock.bit
           p == clock.clock_pointer
           n == Paging!Passed(b, p)
           victim == Paging!Around(p, n)
           c == Paging!Cleared(b, p)
           g == [f EXCEPT ![victim] = page]
           d == [c EXCEPT ![victim] = 1]
<1>0. /\ f \in [Frames -> Pages \cup {-1}] /\ b \in [Frames -> {0, 1}] /\ p \in Frames
      /\ p \in Nat /\ p < FRAME_SIZE /\ FRAME_SIZE \in Nat
  BY Sizes DEF ClockInv, Frames
<1>1. CASE Paging!Hit(f, page)
  <2> DEFINE i == Paging!IndexOf(f, page)
  <2>1. i \in Frames /\ f[i] = page
    BY <1>1, FramesAre DEF Paging!Hit, Paging!IndexOf
  <2>2. clock' = [clock EXCEPT !.bit[i] = 1]
    BY <1>1 DEF Paging!Second_Chance
  <2>3. clock' = [frame |-> f, bit |-> [b EXCEPT ![i] = 1], clock_pointer |-> p]
    <3> HIDE DEF i
    <3> QED  BY <2>2 DEF ClockInv
  <2>4. clock'.frame = f /\ clock'.bit = [b EXCEPT ![i] = 1] /\ clock'.clock_pointer = p
    BY <2>3
  <2>5. i \in Filled(f)
    BY <2>1, Inputs DEF Filled
  <2> HIDE DEF i
  <2>6. ClockFills'
    BY <2>4, <2>5, <1>0 DEF ClockFills, ClockInv
  <2>7. [b EXCEPT ![i] = 1] \in [Frames -> {0, 1}]
    BY <1>0, <2>1
  <2>8. Framed(f, Seen \cup {page}) /\ page \in Values(f)
    BY <1>1, FramedHit DEF ClockInv
  <2> QED  BY <1>0, <2>3, <2>4, <2>6, <2>7, <2>8
<1>2. CASE ~Paging!Hit(f, page)
  <2>1. /\ clock' = [frame |-> g, bit |-> d, clock_pointer |-> Paging!NextFrame(victim)]
        /\ clock'.frame = g /\ clock'.bit = d /\ clock'.clock_pointer = Paging!NextFrame(victim)
    BY <1>2 DEF Paging!Second_Chance
  <2>2. /\ n \in 0 .. FRAME_SIZE
        /\ n < FRAME_SIZE => b[victim] = 0
        /\ \A k \in 0 .. n - 1 : b[Paging!Around(p, k)] = 1
    BY <1>0, PassedBits
  <2>3. victim \in Frames
    BY <1>0, <2>2, AroundFrames
  <2>4. c \in [Frames -> {0, 1}]
    BY <1>0, FramesAre DEF Paging!Cleared
  <2>5. Paging!NextFrame(victim) \in Frames
    BY <2>3, NextIsFrame, Sizes DEF Frames
  <2>6. Filled(f) # Frames => victim = p /\ c = b /\ Filled(f) = 0 .. p - 1
    <3> SUFFICES ASSUME Filled(f) # Frames  PROVE victim = p /\ c = b /\ Filled(f) = 0 .. p - 1
      OBVIOUS
    <3>1. Filled(f) = 0 .. p - 1 /\ \A i \in Frames \ Filled(f) : b[i] = 0
      BY DEF ClockInv, ClockFills
    <3>2. p \notin 0 .. p - 1
      BY <1>0
    <3>3. b[p] = 0
      BY <1>0, <3>1, <3>2
    <3>4. 0 \in 0 .. FRAME_SIZE /\ p + 0 = p
      BY <1>0
    <3>5. Paging!Around(p, 0) = p
      BY <1>0, <3>4, AroundFrames
    <3>6. 0 \notin 0 .. n - 1
      BY <2>2, <3>3, <3>5
    <3>7. n = 0
      BY <2>2, <3>6, <1>0
    <3>8. c = b
      <4>1. 0 .. n - 1 = {}
        BY <3>7
      <4>2. c = [j \in Frames |-> b[j]]
        BY <4>1, FramesAre DEF Paging!Cleared
      <4> QED  BY <4>2, <1>0
    <3> QED  BY <3>1, <3>5, <3>7, <3>8
  <2>7. Framed(g, Seen \cup {page}) /\ page \in Values(g) /\ Filled(g) = Filled(f) \cup {victim}
    <3>1. f[victim] = -1 \/ Filled(f) = Frames
      <4>1. p \notin 0 .. p - 1
        BY <1>0
      <4> QED  BY <1>0, <2>6, <4>1 DEF Filled
    <3>2. Framed(f, Seen)
      BY DEF ClockInv
    <3> HIDE DEF f, victim
    <3> QED  BY <1>2, <2>3, <3>1, <3>2, FramedMiss
  <2>8. g \in [Frames -> Pages \cup {-1}] /\ d \in [Frames -> {0, 1}]
    BY <1>0, <2>3, <2>4
  <2>9. ClockFills'
    <3>1. CASE Filled(f) = Frames
      <4>1. Filled(g) = Frames
        BY <2>3, <2>7, <3>1
      <4> QED  BY <4>1, <2>1 DEF ClockFills
    <3>2. CASE Filled(f) # Frames /\ p = FRAME_SIZE - 1
      <4>1. Filled(g) = 0 .. p
        BY <1>0, <2>6, <2>7, <3>2, IntervalGrows
      <4>2. Filled(g) = Frames
        BY <4>1, <3>2 DEF Frames
      <4> QED  BY <4>2, <2>1 DEF ClockFills
    <3>3. CASE Filled(f) # Frames /\ p # FRAME_SIZE - 1
      <4>1. Filled(g) = 0 .. p
        BY <1>0, <2>6, <2>7, <3>3, IntervalGrows
      <4>2. Paging!NextFrame(victim) - 1 = p
        BY <1>0, <2>6, <3>3, NextIsFrame
      <4>3. ASSUME NEW i \in Frames \ Filled(g)  PROVE d[i] = 0
        <5>1. i # victim /\ i \in Frames \ Filled(f)
          BY <2>7
        <5>2. b[i] = 0
          BY <5>1, <3>3 DEF ClockInv, ClockFills
        <5>3. d[i] = b[i]
          BY <5>1, <2>4, <2>6, <3>3
        <5> QED  BY <5>2, <5>3
      <4> QED  BY <4>1, <4>2, <4>3, <2>1 DEF ClockFills
    <3> QED  BY <3>1, <3>2, <3>3
  <2>10. ASSUME NEW i \in Frames, g[i] # f[i]
         PROVE  b[i] = 0 \/ \A j \in Frames : b[j] = 1
    <3>1. i = victim
      BY <1>0, <2>10
    <3>2. CASE n < FRAME_SIZE
      BY <2>2, <3>1, <3>2
    <3>3. CASE n = FRAME_SIZE
      <4>1. ASSUME NEW j \in Frames  PROVE b[j] = 1
        <5>1. PICK k \in 0 .. FRAME_SIZE - 1 : Paging!Around(p, k) = j
          BY <1>0, AroundFrames
        <5> QED  BY <5>1, <2>2, <3>3
      <4> QED  BY <4>1
    <3> QED  BY <2>2, <3>2, <3>3, <1>0
  <2> QED  BY <2>1, <2>5, <2>7, <2>8, <2>9, <2>10
<1> QED  BY <1>1, <1>2

\* x moved, or added, to the end of a sequence without repetitions: what stood
\* behind it comes one place nearer to the front.
MovedFrom(s, x, t, k) ==
  /\ Len(t) \in {Len(s), Len(s) + 1} /\ Len(t) > 0 /\ t[Len(t)] = x
  /\ k \in 1 .. Len(t) /\ (Len(t) = Len(s) => s[k] = x) /\ (Len(t) # Len(s) => k = Len(t))
  /\ Len(t) # Len(s) => \A i \in 1 .. Len(s) : s[i] # x
  /\ \A j \in 1 .. Len(t) - 1 : j < k => t[j] = s[j]
  /\ \A j \in 1 .. Len(t) - 1 : j >= k => t[j] = s[j + 1]

LEMMA Moved ==
  ASSUME NEW S, NEW s \in Seq(S), Distinct(s), NEW x \in S
  PROVE  LET t == Paging!MovedLast(s, x)
         IN  /\ t \in Seq(S)
             /\ \E k \in 1 .. Len(t) : MovedFrom(s, x, t, k)
             /\ x \in Elements(s) => Len(t) = Len(s)
             /\ x \notin Elements(s) => Len(t) = Len(s) + 1
<1> DEFINE t == Paging!MovedLast(s, x)
           n == Len(s)
<1>n. n \in Nat
  OBVIOUS
<1>1. CASE \E k \in 1 .. Len(s) : s[k] = x
  <2>1. PICK k \in 1 .. n : s[k] = x
    BY <1>1
  <2>2. /\ t \in Seq(S) /\ Len(t) = n
        /\ \A j \in 1 .. n : t[j] = IF j < k THEN s[j] ELSE IF j < n THEN s[j + 1] ELSE s[k]
    BY <2>1, MovedPresent DEF Distinct
  <2> HIDE DEF t
  <2>3. MovedFrom(s, x, t, k)
    BY <1>n, <2>1, <2>2 DEF MovedFrom
  <2> QED  BY <2>1, <2>2, <2>3 DEF t, Elements
<1>2. CASE \A k \in 1 .. Len(s) : s[k] # x
  <2>1. t = Append(s, x)
    BY <1>2, MovedAbsent
  <2>2. t \in Seq(S) /\ Len(t) = n + 1 /\ t[n + 1] = x /\ \A j \in 1 .. n : t[j] = s[j]
    BY <2>1
  <2> HIDE DEF t
  <2>3. MovedFrom(s, x, t, n + 1)
    BY <1>n, <1>2, <2>2 DEF MovedFrom
  <2> QED  BY <1>n, <1>2, <2>2, <2>3 DEF t, Elements
<1> QED  BY <1>1, <1>2

\* It still has no repetitions, and holds x besides what it held.
LEMMA MovedDistinct ==
  ASSUME NEW S, NEW s \in Seq(S), NEW t \in Seq(S), NEW x, Distinct(s),
         NEW k \in 1 .. Len(t), MovedFrom(s, x, t, k)
  PROVE  Distinct(t) /\ Elements(t) = Elements(s) \cup {x}
<1> DEFINE n == Len(s)
           m == Len(t)
           at(j) == IF j < k THEN j ELSE j + 1
<1>1. n \in Nat /\ m \in Nat /\ m \in {n, n + 1} /\ k \in 1 .. m /\ t[m] = x
  BY DEF MovedFrom
<1>2. \A j \in 1 .. m - 1 : at(j) \in 1 .. n /\ t[j] = s[at(j)] /\ s[at(j)] # x
  <2>1. ASSUME NEW j \in 1 .. m - 1  PROVE at(j) \in 1 .. n /\ t[j] = s[at(j)]
    BY <1>1 DEF MovedFrom
  <2>2. ASSUME NEW j \in 1 .. m - 1  PROVE s[at(j)] # x
    <3>1. CASE m = n
      <4>1. s[k] = x /\ at(j) # k /\ k \in 1 .. n
        BY <1>1, <3>1 DEF MovedFrom
      <4> HIDE DEF at
      <4> QED  BY <4>1, <2>1 DEF Distinct
    <3>2. CASE m # n
      <4> HIDE DEF at
      <4> QED  BY <3>2, <2>1 DEF MovedFrom
    <3> QED  BY <3>1, <3>2
  <2> QED  BY <2>1, <2>2
<1>3. \A i, j \in 1 .. m - 1 : at(i) = at(j) => i = j
  BY <1>1
<1>4. \A i \in 1 .. n : i = k \/ \E j \in 1 .. m - 1 : at(j) = i
  <2> SUFFICES ASSUME NEW i \in 1 .. n, i # k  PROVE \E j \in 1 .. m - 1 : at(j) = i
    OBVIOUS
  <2>1. CASE i < k
    BY <2>1, <1>1
  <2>2. CASE i > k
    <3>1. i - 1 \in 1 .. m - 1 /\ at(i - 1) = i
      BY <2>2, <1>1
    <3> HIDE DEF at
    <3> QED  BY <3>1
  <2> QED  BY <2>1, <2>2, <1>1
<1>5. \A i \in 1 .. n : i = k => s[i] = x
  BY <1>1 DEF MovedFrom
<1> HIDE DEF at
<1>6. \A i \in 1 .. m : i = m \/ i \in 1 .. m - 1
  BY <1>1
<1>7. ASSUME NEW i \in 1 .. m, NEW j \in 1 .. m, t[i] = t[j]  PROVE i = j
  <2>1. CASE i = m
    BY <1>1, <1>2, <1>6, <1>7, <2>1
  <2>2. CASE j = m
    BY <1>1, <1>2, <1>6, <1>7, <2>2
  <2>3. CASE i \in 1 .. m - 1 /\ j \in 1 .. m - 1
    BY <1>2, <1>3, <1>7, <2>3 DEF Distinct
  <2> QED  BY <1>6, <2>1, <2>2, <2>3
<1>8. ASSUME NEW j \in 1 .. m  PROVE t[j] \in {s[i] : i \in 1 .. n} \cup {x}
  BY <1>1, <1>2, <1>6
<1>m. 1 .. m - 1 \subseteq 1 .. m /\ m \in 1 .. m
  BY <1>1
<1>9. ASSUME NEW i \in 1 .. n  PROVE s[i] \in {t[j] : j \in 1 .. m}
  <2>1. CASE i = k
    BY <1>1, <1>5, <1>m, <2>1
  <2>2. CASE i # k
    <3>1. PICK j \in 1 .. m - 1 : at(j) = i
      BY <1>4, <2>2
    <3>2. t[j] = s[i] /\ j \in 1 .. m
      BY <1>2, <3>1, <1>m
    <3> QED  BY <3>2
  <2> QED  BY <2>1, <2>2
<1>10. x \in {t[j] : j \in 1 .. m}
  BY <1>1, <1>m
<1>11. {t[j] : j \in 1 .. m} = {s[j] : j \in 1 .. n} \cup {x}
  BY <1>8, <1>9, <1>10
<1> QED  BY <1>7, <1>11 DEF Distinct, Elements

\* The pages in the order of their last use, after one more use.
RecentInv == recent \in Seq(Pages) /\ Distinct(recent)

LEMMA RecentStep ==
  ASSUME RecentInv, NEW page \in Pages, recent' = Paging!MovedLast(recent, page)
  PROVE  /\ RecentInv' /\ Seen' = Seen \cup {page} /\ Len(recent') > 0 /\ recent'[Len(recent')] = page
         /\ \E k \in 1 .. Len(recent') : MovedFrom(recent, page, recent', k)
         /\ Len(recent') = Len(recent) <=> page \in Seen
<1>1. recent \in Seq(Pages) /\ Distinct(recent)
  BY DEF RecentInv
<1>2. /\ recent' \in Seq(Pages)
      /\ \E k \in 1 .. Len(recent') : MovedFrom(recent, page, recent', k)
      /\ page \in Elements(recent) => Len(recent') = Len(recent)
      /\ page \notin Elements(recent) => Len(recent') = Len(recent) + 1
  BY <1>1, Moved
<1>3. PICK k \in 1 .. Len(recent') : MovedFrom(recent, page, recent', k)
  BY <1>2
<1>5. Distinct(recent') /\ Elements(recent') = Elements(recent) \cup {page}
  BY <1>1, <1>2, <1>3, MovedDistinct
<1>6. Len(recent') > 0 /\ recent'[Len(recent')] = page
  BY <1>3 DEF MovedFrom
<1>7. Len(recent') = Len(recent) <=> page \in Seen
  BY <1>1, <1>2 DEF Seen
<1> QED  BY <1>2, <1>5, <1>6, <1>7 DEF RecentInv, Seen

\* The list l names every frame once.
Listed(l) ==
  /\ l \in Seq(Frames) /\ Len(l) = FRAME_SIZE /\ Distinct(l)
  /\ \A i \in Frames : \E k \in 1 .. FRAME_SIZE : l[k] = i

\* The pages of the frames l names are the last pages of s, in their order, the
\* first frames being free while s is shorter; the free ones come in ascending order.
InOrder(l, f, s) ==
  /\ f \in [Frames -> Pages \cup {-1}]
  /\ \A k \in 1 .. FRAME_SIZE : Len(s) - FRAME_SIZE + k >= 1 => f[l[k]] = s[Len(s) - FRAME_SIZE + k]
  /\ \A k \in 1 .. FRAME_SIZE : Len(s) - FRAME_SIZE + k < 1 => f[l[k]] = -1
  /\ \A j, k \in 1 .. FRAME_SIZE : j < k /\ f[l[k]] = -1 => l[j] < l[k]

LEMMA ListedMoved ==
  ASSUME NEW l, Listed(l), NEW i \in Frames
  PROVE  LET t == Paging!MovedLast(l, i)
         IN  Listed(t) /\ \A k \in 1 .. FRAME_SIZE : l[k] = i => MovedFrom(l, i, t, k)
<1> DEFINE t == Paging!MovedLast(l, i)
<1>1. l \in Seq(Frames) /\ Len(l) = FRAME_SIZE /\ Distinct(l)
  BY DEF Listed
<1>2. i \in Elements(l)
  BY <1>1 DEF Listed, Elements
<1>3. t \in Seq(Frames) /\ Len(t) = FRAME_SIZE /\ \E k \in 1 .. Len(t) : MovedFrom(l, i, t, k)
  BY <1>1, <1>2, Moved
<1> HIDE DEF t
<1>4. PICK k \in 1 .. Len(t) : MovedFrom(l, i, t, k)
  BY <1>3
<1>5. Distinct(t) /\ Elements(t) = Elements(l) \cup {i}
  BY <1>1, <1>3, <1>4, MovedDistinct
<1>6. ASSUME NEW a \in Frames  PROVE \E j \in 1 .. FRAME_SIZE : t[j] = a
  <2>1. a \in Elements(l)
    BY <1>1 DEF Listed, Elements
  <2> QED  BY <2>1, <1>3, <1>5 DEF Elements
<1>7. l[k] = i /\ k \in 1 .. FRAME_SIZE
  BY <1>1, <1>3, <1>4 DEF MovedFrom
<1>8. \A j \in 1 .. FRAME_SIZE : l[j] = i => j = k
  BY <1>1, <1>7 DEF Distinct
<1> QED  BY <1>3, <1>4, <1>5, <1>6, <1>8 DEF t, Listed

\* In such a list a hit leaves the frames as they are and moves their order as it
\* moves the pages'.
LEMMA HitInOrder ==
  ASSUME NEW l, NEW f, NEW s \in Seq(Pages), NEW m, NEW t \in Seq(Pages), Listed(l), Listed(m), InOrder(l, f, s),
         NEW page \in Pages, NEW k \in 1 .. FRAME_SIZE, f[l[k]] = page, MovedFrom(l, l[k], m, k),
         NEW r, Distinct(s), MovedFrom(s, page, t, r)
  PROVE  InOrder(m, f, t)
<1> DEFINE n == Len(s)
           F == FRAME_SIZE
<1>a. \A j \in 1 .. Len(s) : s[j] \in Pages
  OBVIOUS
<1>b. Len(l) = FRAME_SIZE /\ Len(m) = FRAME_SIZE /\ \A j \in 1 .. FRAME_SIZE : l[j] \in Frames
  BY DEF Listed
<1>c. n \in Nat /\ F \in Nat /\ F > 0
  BY Sizes
<1>d. page # -1 /\ \A j \in 1 .. n : s[j] # -1
  BY <1>a, Inputs
<1>0. /\ n \in Nat /\ F \in Nat /\ F > 0 /\ page # -1 /\ Len(l) = F /\ Len(m) = F
      /\ \A j \in 1 .. F : l[j] \in Frames
      /\ \A j \in 1 .. n : s[j] # -1
  BY <1>b, <1>c, <1>d
<1>1. n - F + k >= 1 /\ s[n - F + k] = page /\ n - F + k \in 1 .. n
  <2>1. n - F + k >= 1
    BY <1>0 DEF InOrder
  <2> QED  BY <2>1, <1>0 DEF InOrder
<1>2. Len(t) = n /\ r \in 1 .. n /\ s[r] = page
  <2>1. Len(t) = Len(s)
    BY <1>1 DEF MovedFrom
  <2> QED  BY <2>1 DEF MovedFrom
<1>3. r = n - F + k
  BY <1>1, <1>2 DEF Distinct
<1>4. /\ m[F] = l[k] /\ t[n] = page
      /\ \A j \in 1 .. F - 1 : j < k => m[j] = l[j]
      /\ \A j \in 1 .. F - 1 : j >= k => m[j] = l[j + 1]
      /\ \A j \in 1 .. n - 1 : j < r => t[j] = s[j]
      /\ \A j \in 1 .. n - 1 : j >= r => t[j] = s[j + 1]
  BY <1>0, <1>2 DEF MovedFrom
<1>5. \A j \in 1 .. F : j = F \/ (j \in 1 .. F - 1 /\ j < k) \/ (j \in 1 .. F - 1 /\ j >= k)
  BY <1>0
<1> HIDE DEF n, F
<1>6. ASSUME NEW j \in 1 .. F, n - F + j >= 1  PROVE f[m[j]] = t[n - F + j]
  <2>1. CASE j = F
    BY <2>1, <1>0, <1>4
  <2>2. CASE j \in 1 .. F - 1 /\ j < k
    <3>1. n - F + j \in 1 .. n - 1 /\ n - F + j < r
      BY <1>0, <1>3, <1>6, <2>2
    <3>2. f[l[j]] = s[n - F + j]
      BY <1>6 DEF InOrder, n, F
    <3> QED  BY <3>1, <3>2, <2>2, <1>4
  <2>3. CASE j \in 1 .. F - 1 /\ j >= k
    <3>0. (n - F + j) + 1 = n - F + (j + 1)
      BY <1>0
    <3>1. /\ n - F + j \in 1 .. n - 1 /\ n - F + j >= r
          /\ j + 1 \in 1 .. F /\ n - F + (j + 1) >= 1
      BY <1>0, <1>3, <1>6, <2>3
    <3>2. f[l[j + 1]] = s[n - F + (j + 1)]
      BY <3>1 DEF InOrder, n, F
    <3>3. t[n - F + j] = s[(n - F + j) + 1]
      BY <3>1, <1>4
    <3> QED  BY <3>0, <3>1, <3>2, <3>3, <2>3, <1>4
  <2> QED  BY <1>5, <2>1, <2>2, <2>3
<1>7. ASSUME NEW j \in 1 .. F, n - F + j < 1  PROVE f[m[j]] = -1
  <2>1. j \in 1 .. F - 1 /\ j < k
    BY <1>0, <1>1, <1>7
  <2>2. f[l[j]] = -1
    BY <1>7 DEF InOrder, n, F
  <2> QED  BY <2>1, <2>2, <1>4
<1>8. ASSUME NEW i \in 1 .. F, NEW j \in 1 .. F, i < j, f[m[j]] = -1  PROVE m[i] < m[j]
  <2>1. j # F
    BY <1>0, <1>4, <1>8
  <2>2. ~(j \in 1 .. F - 1 /\ j >= k)
    <3> SUFFICES ASSUME j \in 1 .. F - 1, j >= k  PROVE FALSE
      OBVIOUS
    <3>1. j + 1 \in 1 .. F /\ n - F + (j + 1) >= 1 /\ n - F + (j + 1) \in 1 .. n
      BY <1>0, <1>1
    <3>2. f[l[j + 1]] = s[n - F + (j + 1)]
      BY <3>1 DEF InOrder, n, F
    <3> QED  BY <3>1, <3>2, <1>0, <1>4, <1>8
  <2>3. j \in 1 .. F - 1 /\ j < k /\ i \in 1 .. F - 1 /\ i < k
    BY <1>0, <1>5, <1>8, <2>1, <2>2
  <2>4. m[i] = l[i] /\ m[j] = l[j]
    BY <2>3, <1>4
  <2> QED  BY <2>4, <1>8 DEF InOrder, F
<1> QED  BY <1>2, <1>6, <1>7, <1>8 DEF InOrder, n, F

\* A fault reuses the frame at the front, which is free if any is.
LEMMA MissInOrder ==
  ASSUME NEW l, NEW f, NEW s \in Seq(Pages), NEW m, NEW t \in Seq(Pages), Listed(l), Listed(m), InOrder(l, f, s),
         NEW page \in Pages, ~Paging!Hit(f, page), MovedFrom(l, l[1], m, 1),
         NEW r, MovedFrom(s, page, t, r)
  PROVE  InOrder(m, [f EXCEPT ![l[1]] = page], t)
<1> DEFINE n == Len(s)
           F == FRAME_SIZE
           g == [f EXCEPT ![l[1]] = page]
           q == Len(t)
<1>a. Len(l) = FRAME_SIZE /\ Len(m) = FRAME_SIZE /\ \A j \in 1 .. FRAME_SIZE : l[j] \in Frames
  BY DEF Listed
<1>b. n \in Nat /\ F \in Nat /\ F > 0 /\ page # -1
  BY Sizes, Inputs
<1>c. q \in {n, n + 1} /\ q \in Nat /\ r \in 1 .. q
  BY DEF MovedFrom
<1>0. /\ n \in Nat /\ F \in Nat /\ F > 0 /\ page # -1 /\ Len(l) = F /\ Len(m) = F
      /\ \A j \in 1 .. F : l[j] \in Frames
      /\ q \in {n, n + 1} /\ q \in Nat /\ r \in 1 .. q
  BY <1>a, <1>b, <1>c
<1>1. l[1] \in Frames /\ 1 \in 1 .. F
  BY <1>0
<1>2. g \in [Frames -> Pages \cup {-1}] /\ g[l[1]] = page /\ \A i \in Frames : i # l[1] => g[i] = f[i]
  BY <1>1 DEF InOrder
<1>3. \A i \in Frames : f[i] # page
  BY FramesAre DEF Paging!Hit
<1>4. /\ m[F] = l[1] /\ t[q] = page
      /\ \A j \in 1 .. F - 1 : m[j] = l[j + 1]
      /\ \A j \in 1 .. q - 1 : j < r => t[j] = s[j]
      /\ \A j \in 1 .. q - 1 : j >= r => t[j] = s[j + 1]
      /\ q = n => s[r] = page
      /\ q # n => r = q
  BY <1>0 DEF MovedFrom
<1> HIDE DEF n, F, g, q
<1>5. \A j \in 1 .. F - 1 : j + 1 \in 1 .. F /\ l[j + 1] \in Frames /\ l[j + 1] # l[1]
  <2>1. \A j \in 1 .. F - 1 : j + 1 \in 1 .. F /\ j + 1 # 1
    BY <1>0
  <2> QED  BY <2>1, <1>0, <1>1 DEF Listed, Distinct, F
<1>6. \A j \in 1 .. F - 1 : g[m[j]] = f[l[j + 1]]
  BY <1>2, <1>4, <1>5
<1>7. q = n => r <= n - F
  <2> SUFFICES ASSUME q = n, r > n - F  PROVE FALSE
    BY <1>0
  <2>1. r - (n - F) \in 1 .. F /\ n - F + (r - (n - F)) = r /\ r >= 1
    BY <1>0
  <2>2. f[l[r - (n - F)]] = s[r]
    BY <2>1 DEF InOrder, n, F
  <2> QED  BY <2>1, <2>2, <1>0, <1>3, <1>4
<1>8. ASSUME NEW j \in 1 .. F, q - F + j >= 1  PROVE g[m[j]] = t[q - F + j]
  <2>1. CASE j = F
    BY <2>1, <1>0, <1>2, <1>4
  <2>2. CASE j \in 1 .. F - 1 /\ q = n + 1
    <3>1. q - F + j \in 1 .. q - 1 /\ q - F + j < r /\ q - F + j = n - F + (j + 1)
      BY <1>0, <1>4, <1>8, <2>2
    <3>2. f[l[j + 1]] = s[n - F + (j + 1)]
      BY <3>1, <1>5, <1>8, <2>2 DEF InOrder, n, F
    <3> QED  BY <3>1, <3>2, <2>2, <1>4, <1>6
  <2>3. CASE j \in 1 .. F - 1 /\ q = n
    <3>0. (q - F + j) + 1 = n - F + (j + 1)
      BY <1>0, <2>3
    <3>1. q - F + j \in 1 .. q - 1 /\ q - F + j >= r /\ n - F + (j + 1) >= 1
      BY <1>0, <1>7, <1>8, <2>3
    <3>2. f[l[j + 1]] = s[n - F + (j + 1)]
      BY <3>1, <1>5, <2>3 DEF InOrder, n, F
    <3>3. t[q - F + j] = s[(q - F + j) + 1]
      BY <3>1, <1>4
    <3> QED  BY <3>0, <3>1, <3>2, <3>3, <2>3, <1>6
  <2>4. j = F \/ j \in 1 .. F - 1
    BY <1>0
  <2> QED  BY <1>0, <2>1, <2>2, <2>3, <2>4
<1>9. ASSUME NEW j \in 1 .. F, q - F + j < 1  PROVE g[m[j]] = -1
  <2>1. j \in 1 .. F - 1 /\ n - F + (j + 1) < 1
    BY <1>0, <1>7, <1>9
  <2>2. f[l[j + 1]] = -1
    BY <2>1, <1>5 DEF InOrder, n, F
  <2> QED  BY <2>1, <2>2, <1>6
<1>10. ASSUME NEW i \in 1 .. F, NEW j \in 1 .. F, i < j, g[m[j]] = -1  PROVE m[i] < m[j]
  <2>1. j # F
    BY <1>0, <1>2, <1>4, <1>10
  <2>2. j \in 1 .. F - 1 /\ i \in 1 .. F - 1 /\ i + 1 < j + 1
    BY <1>0, <1>10, <2>1
  <2>3. f[l[j + 1]] = -1
    BY <2>2, <1>6, <1>10
  <2>4. l[i + 1] < l[j + 1]
    BY <2>2, <2>3, <1>5 DEF InOrder, F
  <2> QED  BY <2>2, <2>4, <1>4
<1> QED  BY <1>2, <1>8, <1>9, <1>10 DEF InOrder, F, g, q

\* LRU_stack: the list orders the frames as recent orders their pages.
StackInv ==
  /\ Listed(stack.list)
  /\ InOrder(stack.list, stack.frame, recent)
  /\ Framed(stack.frame, Seen)

\* The page's node when the page is in memory, the node at the head when it is not.
Used(k, page) ==
  /\ k \in 1 .. FRAME_SIZE
  /\ Paging!Hit(stack.frame, page) => stack.frame[stack.list[k]] = page
  /\ ~Paging!Hit(stack.frame, page) => k = 1

LEMMA StackStep ==
  ASSUME StackInv, RecentInv, NEW page \in Pages, Paging!LRU_stack(page),
         recent' = Paging!MovedLast(recent, page)
  PROVE  /\ StackInv' /\ page \in Values(stack'.frame)
         /\ \E k \in 1 .. FRAME_SIZE :
              /\ Used(k, page) /\ MovedFrom(stack.list, stack.list[k], stack'.list, k)
              /\ stack'.frame = [stack.frame EXCEPT ![stack.list[k]] = page]
<1> DEFINE f == stack.frame
           l == stack.list
           i == IF Paging!Hit(f, page) THEN Paging!IndexOf(f, page) ELSE Head(l)
           m == Paging!MovedLast(l, i)
           g == [f EXCEPT ![i] = page]
<1>1. stack' = [frame |-> g, list |-> m] /\ stack'.frame = g /\ stack'.list = m
  BY DEF Paging!LRU_stack
<1>2. /\ Listed(l) /\ InOrder(l, f, recent) /\ Framed(f, Seen) /\ f \in [Frames -> Pages \cup {-1}]
      /\ recent \in Seq(Pages) /\ Distinct(recent)
  BY DEF StackInv, RecentInv, InOrder
<1>3. Len(l) = FRAME_SIZE /\ FRAME_SIZE \in Nat /\ 1 \in 1 .. FRAME_SIZE
      /\ (\A k \in 1 .. FRAME_SIZE : l[k] \in Frames) /\ Head(l) = l[1]
  BY <1>2, Sizes DEF Listed
<1>4. /\ Paging!Hit(f, page) => Paging!IndexOf(f, page) \in Frames /\ f[Paging!IndexOf(f, page)] = page
      /\ ~Paging!Hit(f, page) => \A j \in Frames : f[j] # page
  BY FramesAre DEF Paging!Hit, Paging!IndexOf
<1>5. i \in Frames /\ (Paging!Hit(f, page) => f[i] = page) /\ (~Paging!Hit(f, page) => i = l[1])
  BY <1>3, <1>4
<1> HIDE DEF i, f, l
<1>6. PICK k \in 1 .. FRAME_SIZE : l[k] = i /\ (~Paging!Hit(f, page) => k = 1)
  BY <1>2, <1>3, <1>5 DEF Listed
<1>7. Listed(m) /\ MovedFrom(l, l[k], m, k)
  BY <1>2, <1>5, <1>6, ListedMoved
<1>8. /\ RecentInv' /\ Seen' = Seen \cup {page} /\ recent' \in Seq(Pages)
      /\ \E r \in 1 .. Len(recent') : MovedFrom(recent, page, recent', r)
  BY RecentStep DEF RecentInv
<1>9. PICK r \in 1 .. Len(recent') : MovedFrom(recent, page, recent', r)
  BY <1>8
<1> HIDE DEF m
<1>10. Used(k, page)
  BY <1>5, <1>6 DEF Used, f, l
<1>11. CASE Paging!Hit(f, page)
  <2>1. g = f
    BY <1>2, <1>5, <1>11
  <2>2. f[l[k]] = page
    BY <1>5, <1>6, <1>11
  <2>3. InOrder(m, f, recent')
    BY <1>2, <1>7, <1>8, <1>9, <2>2, HitInOrder
  <2>4. Framed(f, Seen \cup {page}) /\ page \in Values(f)
    BY <1>2, <1>11, FramedHit
  <2>5. StackInv'
    BY <1>1, <1>7, <1>8, <2>1, <2>3, <2>4 DEF StackInv
  <2> QED  BY <1>1, <1>6, <1>7, <1>10, <2>1, <2>4, <2>5 DEF f, l
<1>12. CASE ~Paging!Hit(f, page)
  <2>1. i = l[1] /\ k = 1 /\ MovedFrom(l, l[1], m, 1)
    BY <1>5, <1>6, <1>7, <1>12
  <2>2. InOrder(m, g, recent')
    <3>1. InOrder(m, [f EXCEPT ![l[1]] = page], recent')
      BY <1>2, <1>7, <1>8, <1>9, <1>12, <2>1, MissInOrder
    <3> QED  BY <3>1, <2>1
  <2>3. f[i] = -1 \/ Filled(f) = Frames
    <3> SUFFICES ASSUME f[i] # -1  PROVE Filled(f) = Frames
      OBVIOUS
    <3>0. \A j \in 1 .. Len(recent) : recent[j] # -1
      <4>1. \A j \in 1 .. Len(recent) : recent[j] \in Pages
        BY <1>2
      <4> QED  BY <4>1, Inputs
    <3>1. Len(recent) - FRAME_SIZE + 1 >= 1 /\ Len(recent) \in Nat
      BY <1>2, <1>3, <2>1 DEF InOrder
    <3>2. ASSUME NEW j \in 1 .. FRAME_SIZE  PROVE f[l[j]] # -1
      <4>1. Len(recent) - FRAME_SIZE + j >= 1 /\ Len(recent) - FRAME_SIZE + j \in 1 .. Len(recent)
        BY <1>3, <3>1
      <4>2. f[l[j]] = recent[Len(recent) - FRAME_SIZE + j]
        BY <4>1, <1>2 DEF InOrder
      <4> QED  BY <4>1, <4>2, <3>0
    <3> QED  BY <1>2, <3>2 DEF Listed, Filled
  <2>4. Framed(g, Seen \cup {page}) /\ page \in Values(g)
    BY <1>2, <1>5, <1>12, <2>3, FramedMiss
  <2>5. StackInv'
    BY <1>1, <1>7, <1>8, <2>2, <2>4 DEF StackInv
  <2> QED  BY <1>1, <1>6, <1>7, <1>10, <2>4, <2>5 DEF f, l
<1> QED  BY <1>11, <1>12

\* LRU_matrix: it has the frames of the list, and a frame's row has ones in its own
\* column and in those of the frames used before it; the rows of free frames are 0.
Upper(m, l, f) ==
  /\ m \in [Frames -> [Frames -> {0, 1}]]
  /\ \A j, k \in 1 .. FRAME_SIZE : f[l[k]] # -1 /\ j <= k => m[l[k]][l[j]] = 1
  /\ \A j, k \in 1 .. FRAME_SIZE : f[l[k]] = -1 \/ j > k => m[l[k]][l[j]] = 0

MatrixInv == matrix.frame = stack.frame /\ Upper(matrix.m, stack.list, stack.frame)

\* The row with the fewest ones is that of the frame at the head of the list.
LEMMA LeastRow ==
  ASSUME NEW l, NEW f, NEW m, NEW s \in Seq(Pages), Listed(l), InOrder(l, f, s), Upper(m, l, f)
  PROVE  Paging!find_least_row(m) = l[1]
<1> DEFINE row(i) == {j \in Frames : m[i][j] = 1}
           least == Paging!Min({Cardinality(row(i)) : i \in Frames})
           T == {i \in Frames : Cardinality(row(i)) = least}
<1>1. Paging!find_least_row(m) = Paging!Min(T)
  <2> DEFINE ones(i) == Paging!Cardinality({j \in Paging!Frames : m[i][j] = 1})
             C == {ones(i) : i \in Paging!Frames}
             D == {i \in Paging!Frames : ones(i) = Paging!Min(C)}
  <2>1. Paging!find_least_row(m) = Paging!Min(D)
    BY DEF Paging!find_least_row
  <2>2. \A i \in Frames : ones(i) = Cardinality(row(i))
    BY FramesAre, PagingCardinality
  <2> HIDE DEF ones, row
  <2>3. C = {Cardinality(row(i)) : i \in Frames}
    BY <2>2, FramesAre
  <2> HIDE DEF C
  <2>4. least = Paging!Min(C)
    BY <2>3
  <2> HIDE DEF least
  <2>5. D = T
    BY <2>2, <2>4, FramesAre
  <2> QED  BY <2>1, <2>5
<1>2. FRAME_SIZE \in Nat /\ 1 \in 1 .. FRAME_SIZE /\ (\A k \in 1 .. FRAME_SIZE : l[k] \in Frames)
      /\ IsFiniteSet(Frames)
  <2>1. FRAME_SIZE \in Nat /\ FRAME_SIZE - 1 \in Int /\ 0 \in Int /\ 1 \in 1 .. FRAME_SIZE
    BY Sizes
  <2>2. IsFiniteSet(Frames)
    BY <2>1, FS_Interval DEF Frames
  <2> QED  BY <2>1, <2>2 DEF Listed
<1>3. \A i : IsFiniteSet(row(i)) /\ Cardinality(row(i)) \in Nat
  <2>1. \A i : row(i) \subseteq Frames
    OBVIOUS
  <2> HIDE DEF row
  <2> QED  BY <1>2, <2>1, FS_Subset, FS_CardinalityType
<1>4. \A k \in 1 .. FRAME_SIZE : f[l[k]] # -1 => l[1] \in row(l[k]) /\ l[k] \in row(l[k])
  BY <1>2 DEF Upper
<1>5. f[l[1]] = -1 => row(l[1]) = {}
  <2> SUFFICES ASSUME f[l[1]] = -1, NEW j \in Frames, m[l[1]][j] = 1  PROVE FALSE
    OBVIOUS
  <2>1. PICK k \in 1 .. FRAME_SIZE : l[k] = j
    BY DEF Listed
  <2> QED  BY <2>1, <1>2 DEF Upper
<1>6. f[l[1]] # -1 => row(l[1]) = {l[1]}
  <2> SUFFICES ASSUME f[l[1]] # -1, NEW j \in Frames, m[l[1]][j] = 1  PROVE j = l[1]
    BY <1>2, <1>4
  <2>1. PICK k \in 1 .. FRAME_SIZE : l[k] = j
    BY DEF Listed
  <2>2. ~(k > 1)
    BY <2>1, <1>2 DEF Upper
  <2>3. k = 1
    BY <2>2, <1>2
  <2> QED  BY <2>1, <2>3
<1> HIDE DEF row
<1>7. /\ {Cardinality(row(i)) : i \in Frames} \in SUBSET Nat
      /\ Cardinality(row(l[1])) \in {Cardinality(row(i)) : i \in Frames}
  BY <1>2, <1>3
<1>8. /\ \E i \in Frames : least = Cardinality(row(i))
      /\ \A i \in Frames : least <= Cardinality(row(i))
  <2> DEFINE C == {Cardinality(row(i)) : i \in Frames}
  <2>1. C \in SUBSET Nat /\ C # {}
    BY <1>7
  <2>2. least = Paging!Min(C)
    OBVIOUS
  <2> HIDE DEF C, least
  <2>3. least \in C /\ \A c \in C : least <= c
    BY <2>1, <2>2, PagingMin
  <2> QED  BY <2>3 DEF C
<1> HIDE DEF least
<1>9. Cardinality(row(l[1])) = least /\ \A i \in T : l[1] <= i
  <2>1. CASE f[l[1]] = -1
    <3>1. Cardinality(row(l[1])) = 0
      BY <1>5, <2>1, FS_EmptySet
    <3>2. least = 0
      BY <1>2, <1>3, <1>8, <3>1
    <3>3. ASSUME NEW i \in T  PROVE l[1] <= i
      <4>1. row(i) = {}
        BY <3>2, <1>3, FS_EmptySet
      <4>2. PICK k \in 1 .. FRAME_SIZE : l[k] = i
        BY DEF Listed
      <4>3. f[l[k]] = -1
        BY <4>1, <4>2, <1>4
      <4>4. k = 1 \/ 1 < k
        BY <1>2
      <4>5. CASE k = 1
        BY <4>5, <4>2, <1>2 DEF Frames
      <4>6. CASE 1 < k
        <5>1. l[1] < l[k]
          BY <4>3, <4>6, <1>2 DEF InOrder
        <5> QED  BY <5>1, <4>2, <1>2 DEF Frames
      <4> QED  BY <4>4, <4>5, <4>6
    <3> QED  BY <3>1, <3>2, <3>3
  <2>2. CASE f[l[1]] # -1
    <3>1. Cardinality(row(l[1])) = 1
      BY <1>6, <2>2, FS_Singleton
    <3>2. ASSUME NEW i \in Frames, i # l[1]  PROVE Cardinality(row(i)) > 1
      <4>1. PICK k \in 1 .. FRAME_SIZE : l[k] = i
        BY DEF Listed
      <4>2. f[l[k]] # -1
        <5>0. \A j \in 1 .. Len(s) : s[j] \in Pages
          OBVIOUS
        <5>1. Len(s) - FRAME_SIZE + 1 >= 1 /\ Len(s) \in Nat
          BY <1>2, <2>2 DEF InOrder
        <5>2. Len(s) - FRAME_SIZE + k >= 1 /\ Len(s) - FRAME_SIZE + k \in 1 .. Len(s)
          BY <1>2, <5>1
        <5>3. f[l[k]] = s[Len(s) - FRAME_SIZE + k]
          BY <5>2 DEF InOrder
        <5> QED  BY <5>0, <5>2, <5>3, Inputs
      <4>3. {l[1]} \subseteq row(i) /\ row(i) # {l[1]}
        BY <4>1, <4>2, <3>2, <1>4
      <4>4. Cardinality({l[1]}) = 1 /\ Cardinality({l[1]}) <= Cardinality(row(i))
        BY <4>3, <1>3, FS_Singleton, FS_Subset
      <4>5. Cardinality(row(i)) # 1
        <5> SUFFICES ASSUME Cardinality(row(i)) = 1  PROVE FALSE
          OBVIOUS
        <5>1. {l[1]} = row(i)
          BY <4>3, <4>4, <1>3, FS_Subset
        <5> QED  BY <5>1, <4>3
      <4> QED  BY <4>4, <4>5, <1>3
    <3>3. least = 1
      <4>1. \A i \in Frames : Cardinality(row(i)) >= 1
        <5> SUFFICES ASSUME NEW i \in Frames  PROVE Cardinality(row(i)) >= 1
          OBVIOUS
        <5>1. CASE i = l[1]
          BY <5>1, <3>1
        <5>2. CASE i # l[1]
          BY <5>2, <3>2, <1>3
        <5> QED  BY <5>1, <5>2
      <4> QED  BY <4>1, <1>2, <1>3, <1>8, <3>1
    <3>4. ASSUME NEW i \in T  PROVE l[1] = i
      BY <3>2, <3>3
    <3> QED  BY <3>1, <3>3, <3>4, <1>2 DEF Frames
  <2> QED  BY <2>1, <2>2
<1>10. T \in SUBSET Nat /\ l[1] \in T
  BY <1>2, <1>9, Sizes DEF Frames
<1>11. Paging!Min(T) \in T /\ \A i \in T : Paging!Min(T) <= i
  <2> HIDE DEF T
  <2> QED  BY <1>10, PagingMin
<1> HIDE DEF T
<1>12. Paging!Min(T) <= l[1] /\ l[1] <= Paging!Min(T) /\ Paging!Min(T) \in Nat /\ l[1] \in Nat
  BY <1>9, <1>10, <1>11
<1> QED  BY <1>1, <1>12

\* Setting the row and clearing the column of the frame used keeps the order.
LEMMA UpperMoved ==
  ASSUME NEW l, NEW f, NEW m, NEW t, Listed(l), Listed(t), Upper(m, l, f),
         f \in [Frames -> Pages \cup {-1}], NEW page \in Pages,
         NEW k \in 1 .. FRAME_SIZE, MovedFrom(l, l[k], t, k)
  PROVE  Upper(Paging!setcolumn0(Paging!setrow1(m, l[k]), l[k]), t, [f EXCEPT ![l[k]] = page])
<1> DEFINE i == l[k]
           F == FRAME_SIZE
           g == [f EXCEPT ![i] = page]
           w == Paging!setcolumn0(Paging!setrow1(m, i), i)
           at(j) == IF j < k THEN j ELSE j + 1
<1>0. F \in Nat /\ F > 0 /\ Len(l) = F /\ Len(t) = F /\ i \in Frames /\ page # -1 /\ k \in 1 .. F
  <2>1. \A j \in 1 .. FRAME_SIZE : l[j] \in Frames
    BY DEF Listed
  <2>2. i \in Frames
    BY <2>1
  <2>3. Len(l) = F /\ Len(t) = F
    BY DEF Listed
  <2> QED  BY <2>2, <2>3, Sizes, Inputs
<1>1. g[i] = page /\ \A a \in Frames : a # i => g[a] = f[a]
  BY <1>0
<1>2. /\ w \in [Frames -> [Frames -> {0, 1}]]
      /\ \A b \in Frames : w[i][b] = 1
      /\ \A a \in Frames : a # i => w[a][i] = 0
      /\ \A a, b \in Frames : a # i /\ b # i => w[a][b] = m[a][b]
  <2> DEFINE r == Paging!setrow1(m, i)
  <2>1. r = [m EXCEPT ![i] = [j \in Frames |-> 1]]
    BY FramesAre DEF Paging!setrow1
  <2>2. /\ r \in [Frames -> [Frames -> {0, 1}]] /\ (\A b \in Frames : r[i][b] = 1)
        /\ \A a \in Frames : a # i => r[a] = m[a]
    BY <2>1, <1>0 DEF Upper
  <2> HIDE DEF r
  <2>3. w = [a \in Frames |-> [r[a] EXCEPT ![i] = IF a = i THEN @ ELSE 0]]
    BY FramesAre DEF Paging!setcolumn0, r
  <2> HIDE DEF w, i
  <2>4. ASSUME NEW a \in Frames
        PROVE  /\ w[a] \in [Frames -> {0, 1}] /\ w[a][i] = IF a = i THEN r[a][i] ELSE 0
               /\ \A b \in Frames : b # i => w[a][b] = r[a][b]
    <3>1. w[a] = [r[a] EXCEPT ![i] = IF a = i THEN @ ELSE 0] /\ r[a] \in [Frames -> {0, 1}]
      BY <2>2, <2>3
    <3> QED  BY <3>1, <1>0
  <2>5. w \in [Frames -> [Frames -> {0, 1}]]
    <3>1. \A a \in Frames : [r[a] EXCEPT ![i] = IF a = i THEN @ ELSE 0] = w[a]
      BY <2>3
    <3>2. w = [a \in Frames |-> w[a]]
      BY <2>3, <3>1
    <3> QED  BY <2>4, <3>2
  <2> QED  BY <2>2, <2>4, <2>5, <1>0
<1>3. /\ t[F] = i
      /\ \A j \in 1 .. F - 1 : at(j) \in 1 .. F /\ at(j) # k /\ t[j] = l[at(j)]
  <2>1. t[F] = i
    BY <1>0 DEF MovedFrom
  <2>2. ASSUME NEW j \in 1 .. F - 1  PROVE at(j) \in 1 .. F /\ at(j) # k /\ t[j] = l[at(j)]
    BY <1>0 DEF MovedFrom
  <2> QED  BY <2>1, <2>2
<1>4. \A a, b \in 1 .. F - 1 : (a <= b <=> at(a) <= at(b)) /\ (a > b <=> at(a) > at(b))
  BY <1>0
<1> HIDE DEF at, w, g
<1>5. \A j \in 1 .. F - 1 : l[at(j)] \in Frames /\ l[at(j)] # i
  BY <1>0, <1>3 DEF Listed, Distinct
<1>6. \A a \in 1 .. F : a = F \/ a \in 1 .. F - 1
  BY <1>0
<1>7. ASSUME NEW a \in 1 .. F, NEW b \in 1 .. F
      PROVE  /\ g[t[b]] # -1 /\ a <= b => w[t[b]][t[a]] = 1
             /\ g[t[b]] = -1 \/ a > b => w[t[b]][t[a]] = 0
  <2>0. t[a] \in Frames
    BY <1>0, <1>3, <1>5, <1>6
  <2>1. CASE b = F
    <3>1. w[t[b]][t[a]] = 1 /\ g[t[b]] # -1 /\ ~(a > b)
      BY <2>0, <2>1, <1>0, <1>1, <1>2, <1>3
    <3> QED  BY <3>1
  <2>2. CASE b \in 1 .. F - 1 /\ a = F
    <3>1. w[t[b]][t[a]] = 0 /\ ~(a <= b)
      BY <2>2, <1>0, <1>2, <1>3, <1>5
    <3> QED  BY <3>1
  <2>3. CASE b \in 1 .. F - 1 /\ a \in 1 .. F - 1
    <3>1. t[b] = l[at(b)] /\ t[a] = l[at(a)] /\ at(a) \in 1 .. F /\ at(b) \in 1 .. F
      BY <2>3, <1>3
    <3>2. w[t[b]][t[a]] = m[l[at(b)]][l[at(a)]] /\ g[t[b]] = f[l[at(b)]]
      BY <2>3, <3>1, <1>1, <1>2, <1>5
    <3>3. /\ f[l[at(b)]] # -1 /\ at(a) <= at(b) => m[l[at(b)]][l[at(a)]] = 1
          /\ f[l[at(b)]] = -1 \/ at(a) > at(b) => m[l[at(b)]][l[at(a)]] = 0
      BY <3>1 DEF Upper
    <3>4. (a <= b <=> at(a) <= at(b)) /\ (a > b <=> at(a) > at(b))
      BY <2>3, <1>4
    <3> QED  BY <3>2, <3>3, <3>4
  <2> QED  BY <2>1, <2>2, <2>3, <1>6
<1>8. Upper(w, t, g)
  BY <1>2, <1>7 DEF Upper
<1> QED  BY <1>8 DEF w, g

LEMMA MatrixStep ==
  ASSUME MatrixInv, StackInv, RecentInv, NEW page \in Pages, Paging!LRU_stack(page), Paging!LRU_matrix(page),
         recent' = Paging!MovedLast(recent, page)
  PROVE  MatrixInv'
<1> DEFINE f == stack.frame
           l == stack.list
           i == IF Paging!Hit(matrix.frame, page) THEN Paging!IndexOf(matrix.frame, page)
                                                  ELSE Paging!find_least_row(matrix.m)
<1>1. /\ matrix'.frame = [matrix.frame EXCEPT ![i] = page]
      /\ matrix'.m = Paging!setcolumn0(Paging!setrow1(matrix.m, i), i)
  BY DEF Paging!LRU_matrix
<1>2. /\ Listed(l) /\ InOrder(l, f, recent) /\ Framed(f, Seen) /\ f \in [Frames -> Pages \cup {-1}]
      /\ recent \in Seq(Pages) /\ matrix.frame = f /\ Upper(matrix.m, l, f) /\ Listed(stack'.list)
  <2>1. StackInv'
    BY StackStep
  <2> QED  BY <2>1 DEF StackInv, RecentInv, InOrder, MatrixInv
<1>3. PICK k \in 1 .. FRAME_SIZE :
        /\ Used(k, page) /\ MovedFrom(stack.list, stack.list[k], stack'.list, k)
        /\ stack'.frame = [stack.frame EXCEPT ![stack.list[k]] = page]
  BY StackStep
<1>4. i = l[k]
  <2>1. CASE Paging!Hit(f, page)
    <3>1. i \in Frames /\ f[i] = page
      BY <1>2, <2>1, FramesAre DEF Paging!Hit, Paging!IndexOf
    <3>2. f[l[k]] = page /\ l[k] \in Frames
      BY <1>2, <1>3, <2>1 DEF Used, Listed
    <3> QED  BY <3>1, <3>2, <1>2, Inputs DEF Framed
  <2>2. CASE ~Paging!Hit(f, page)
    <3>1. Paging!find_least_row(matrix.m) = l[1]
      BY <1>2, LeastRow
    <3> QED  BY <3>1, <1>2, <1>3, <2>2 DEF Used
  <2> QED  BY <2>1, <2>2
<1> HIDE DEF i, f, l
<1>5. Upper(Paging!setcolumn0(Paging!setrow1(matrix.m, l[k]), l[k]), stack'.list, [f EXCEPT ![l[k]] = page])
  BY <1>2, <1>3, UpperMoved DEF l
<1> QED  BY <1>1, <1>2, <1>3, <1>4, <1>5 DEF MatrixInv, f, l

-----------------------------------------------------------------------------
PagingInv == RecentInv /\ FifoInv /\ StackInv /\ MatrixInv /\ ClockInv
             /\ \A f \in {fifo.frame, stack.frame, clock.frame} :
                  recent # <<>> => recent[Len(recent)] \in Values(f)

LEMMA PagingInit == Paging!Init => PagingInv
<1> SUFFICES ASSUME Paging!Init  PROVE PagingInv
  OBVIOUS
<1> DEFINE none == [i \in Frames |-> -1]
<1>1. /\ fifo = [frame |-> none, replace_index |-> 0] /\ stack.frame = none /\ matrix.frame = none
      /\ clock = [frame |-> none, bit |-> [i \in Frames |-> 0], clock_pointer |-> 0]
      /\ stack.list = [i \in 1 .. FRAME_SIZE |-> i - 1]
      /\ matrix.m = [i \in Frames |-> [j \in Frames |-> 0]] /\ recent = <<>>
  BY FramesAre DEF Paging!Init, Paging!NoPages, Paging!init_PageQueue, Paging!init_PageStack
<1>2. FRAME_SIZE \in Nat /\ FRAME_SIZE > 0 /\ 0 \in Frames
  BY Sizes, FramesAre
<1>3. Filled(none) = {} /\ 0 .. 0 - 1 = {} /\ Seen = {} /\ Values(none) = {}
  BY <1>1 DEF Filled, Values, Seen, Elements
<1>4. Framed(none, Seen)
  BY <1>3 DEF Framed
<1>5. RecentInv
  BY <1>1 DEF RecentInv, Distinct
<1>6. FifoInv
  BY <1>1, <1>2, <1>3, <1>4 DEF FifoInv
<1>7. ClockInv
  <2>1. clock.frame = none /\ clock.bit = [i \in Frames |-> 0] /\ clock.clock_pointer = 0
    BY <1>1
  <2>2. ClockFills
    BY <2>1, <1>3 DEF ClockFills
  <2> QED  BY <1>1, <1>2, <1>4, <2>1, <2>2 DEF ClockInv
<1>8. Listed(stack.list) /\ \A k \in 1 .. FRAME_SIZE : stack.list[k] = k - 1 /\ stack.list[k] \in Frames
  <2> DEFINE l == stack.list
  <2>1. \A k \in 1 .. FRAME_SIZE : k - 1 \in Frames
    BY <1>2 DEF Frames
  <2>2. l \in Seq(Frames) /\ Len(l) = FRAME_SIZE
    <3>1. l \in [1 .. FRAME_SIZE -> Frames]
      BY <1>1, <2>1
    <3> QED  BY <3>1, <1>2
  <2>3. \A k \in 1 .. FRAME_SIZE : l[k] = k - 1
    BY <1>1
  <2>4. \A i \in Frames : i + 1 \in 1 .. FRAME_SIZE /\ (i + 1) - 1 = i
    BY <1>2 DEF Frames
  <2>5. Distinct(l)
    BY <1>2, <2>2, <2>3 DEF Distinct
  <2> QED  BY <2>1, <2>2, <2>3, <2>4, <2>5 DEF Listed
<1>9. StackInv
  <2>1. none \in [Frames -> Pages \cup {-1}] /\ \A i \in Frames : none[i] = -1
    OBVIOUS
  <2>2. Len(recent) = 0 /\ \A k \in 1 .. FRAME_SIZE : ~(0 - FRAME_SIZE + k >= 1)
    BY <1>1, <1>2
  <2>3. \A j, k \in 1 .. FRAME_SIZE : j < k => stack.list[j] < stack.list[k]
    BY <1>2, <1>8
  <2> HIDE DEF none
  <2>4. InOrder(stack.list, none, recent)
    BY <2>1, <2>2, <2>3, <1>8 DEF InOrder
  <2> QED  BY <1>1, <1>4, <1>8, <2>4 DEF StackInv
<1>10. MatrixInv
  <2>1. Upper(matrix.m, stack.list, stack.frame)
    BY <1>1, <1>8 DEF Upper
  <2> QED  BY <1>1, <2>1 DEF MatrixInv
<1> QED  BY <1>1, <1>5, <1>6, <1>7, <1>9, <1>10 DEF PagingInv

LEMMA PagingNext ==
  ASSUME PagingInv, NEW page \in Pages, Paging!Reference(page)
  PROVE  PagingInv'
<1>1. /\ Paging!FIFO(page) /\ Paging!LRU_stack(page) /\ Paging!LRU_matrix(page) /\ Paging!Second_Chance(page)
      /\ recent' = Paging!MovedLast(recent, page)
  BY DEF Paging!Reference
<1>2. RecentInv /\ FifoInv /\ StackInv /\ MatrixInv /\ ClockInv
  BY DEF PagingInv
<1>3. RecentInv' /\ Seen' = Seen \cup {page} /\ recent'[Len(recent')] = page
  BY <1>1, <1>2, RecentStep
<1>4. FifoInv' /\ page \in Values(fifo'.frame)
  BY <1>1, <1>2, <1>3, FifoStep DEF FifoInv
<1>5. StackInv' /\ page \in Values(stack'.frame)
  BY <1>1, <1>2, StackStep
<1>6. MatrixInv'
  BY <1>1, <1>2, MatrixStep
<1>7. ClockInv' /\ page \in Values(clock'.frame)
  BY <1>1, <1>2, <1>3, ClockStep DEF ClockInv
<1> QED  BY <1>3, <1>4, <1>5, <1>6, <1>7 DEF PagingInv

LEMMA PagingStep == Next => [Paging!Next]_pvars
BY DEF Next, RunHeap, RunPaging, RunDisk, RunChat, RunShared, RunInput, RunTools, pvars

LEMMA PagingKept ==
  PagingInv /\ [Next]_<<prog, hvars, pvars, dvars, tvars, kvars, ivars, lvars>> => PagingInv'
<1> SUFFICES ASSUME PagingInv, [Paging!Next]_pvars  PROVE PagingInv'
  BY PagingStep DEF pvars
<1>1. CASE UNCHANGED pvars
  BY <1>1 DEF pvars, PagingInv, RecentInv, FifoInv, StackInv, MatrixInv, ClockInv, ClockFills, Seen
<1>2. CASE Paging!Next
  BY <1>2, PagingNext DEF Paging!Next
<1> QED  BY <1>1, <1>2

\* As many elements on both sides of a one-to-one correspondence.
LEMMA OneToOne ==
  ASSUME NEW S, NEW T, IsFiniteSet(S), NEW h \in [S -> T],
         \A a, b \in S : h[a] = h[b] => a = b,
         \A c \in T : \E a \in S : h[a] = c
  PROVE  IsFiniteSet(T) /\ Cardinality(T) = Cardinality(S)
<1>1. h \in Bijection(S, T)
  BY DEF Bijection, Injection, Surjection, IsInjective
<1>2. ExistsBijection(S, T)
  BY <1>1 DEF ExistsBijection
<1> QED  BY <1>2, FS_Bijection

\* As many pages as frames that are not free, and as many as have been used or as
\* there are frames.
LEMMA FramedCount ==
  ASSUME RecentInv, NEW f, Framed(f, Seen)
  PROVE  /\ Cardinality(Values(f)) = Paging!Min({Len(recent), FRAME_SIZE})
         /\ Cardinality(Filled(f)) = Paging!Min({Len(recent), FRAME_SIZE})
<1> DEFINE n == Len(recent)
<1>1. n \in Nat /\ FRAME_SIZE \in Nat /\ FRAME_SIZE - 1 \in Int /\ 0 \in Int /\ 1 \in Int /\ n \in Int /\ FRAME_SIZE > 0
  BY Sizes DEF RecentInv
<1>2. IsFiniteSet(Frames) /\ Cardinality(Frames) = FRAME_SIZE
  <2>1. /\ IsFiniteSet(0 .. FRAME_SIZE - 1)
        /\ Cardinality(0 .. FRAME_SIZE - 1) = IF 0 > FRAME_SIZE - 1 THEN 0 ELSE (FRAME_SIZE - 1) - 0 + 1
    BY <1>1, FS_Interval, Zenon
  <2> QED  BY <1>1, <2>1 DEF Frames
<1>3. IsFiniteSet(1 .. n) /\ Cardinality(1 .. n) = n
  <2> HIDE DEF n
  <2>1. IsFiniteSet(1 .. n) /\ Cardinality(1 .. n) = IF 1 > n THEN 0 ELSE n - 1 + 1
    BY <1>1, FS_Interval, Zenon
  <2> QED  BY <1>1, <2>1
<1>4. IsFiniteSet(Seen) /\ Cardinality(Seen) = n
  <2> DEFINE h == [i \in 1 .. n |-> recent[i]]
  <2>1. h \in [1 .. n -> Seen] /\ (\A c \in Seen : \E a \in 1 .. n : h[a] = c)
    BY DEF Seen, Elements
  <2>2. \A a, b \in 1 .. n : h[a] = h[b] => a = b
    BY DEF RecentInv, Distinct
  <2> HIDE DEF h
  <2> QED  BY <1>3, <2>1, <2>2, OneToOne
<1>5. /\ IsFiniteSet(Filled(f)) /\ Cardinality(Filled(f)) <= FRAME_SIZE
      /\ Cardinality(Filled(f)) \in Nat /\ (Filled(f) = Frames => Cardinality(Filled(f)) = FRAME_SIZE)
  <2>1. Filled(f) \in SUBSET Frames
    BY DEF Filled
  <2> QED  BY <2>1, <1>2, FS_Subset, FS_CardinalityType
<1>6. IsFiniteSet(Values(f)) /\ Cardinality(Values(f)) = Cardinality(Filled(f))
  <2> DEFINE h == [i \in Filled(f) |-> f[i]]
  <2>1. h \in [Filled(f) -> Values(f)] /\ (\A c \in Values(f) : \E a \in Filled(f) : h[a] = c)
    BY DEF Values
  <2>2. \A a, b \in Filled(f) : h[a] = h[b] => a = b
    BY DEF Framed, Filled
  <2> HIDE DEF h
  <2> QED  BY <1>5, <2>1, <2>2, OneToOne
<1>7. Cardinality(Values(f)) <= n /\ (Values(f) = Seen => Cardinality(Values(f)) = n)
  BY <1>4, FS_Subset DEF Framed
<1>8. Cardinality(Filled(f)) <= n /\ Cardinality(Filled(f)) <= FRAME_SIZE
      /\ Cardinality(Filled(f)) \in {n, FRAME_SIZE}
  BY <1>5, <1>6, <1>7 DEF Framed
<1>9. Paging!Min({n, FRAME_SIZE}) \in {n, FRAME_SIZE}
      /\ \A a \in {n, FRAME_SIZE} : Paging!Min({n, FRAME_SIZE}) <= a
  <2> DEFINE T == {n, FRAME_SIZE}
  <2>1. T \in SUBSET Nat /\ T # {}
    BY <1>1
  <2> HIDE DEF T
  <2>2. Paging!Min(T) \in T /\ \A a \in T : Paging!Min(T) <= a
    BY <2>1, PagingMin
  <2> QED  BY <2>2 DEF T
<1>10. Cardinality(Filled(f)) = Paging!Min({n, FRAME_SIZE})
  <2> DEFINE a == Paging!Min({n, FRAME_SIZE})
             b == Cardinality(Filled(f))
  <2>1. a \in {n, FRAME_SIZE} /\ a <= n /\ a <= FRAME_SIZE /\ b \in {n, FRAME_SIZE} /\ b <= n /\ b <= FRAME_SIZE
    BY <1>8, <1>9
  <2> HIDE DEF a, b
  <2>2. a = b
    BY <1>1, <2>1
  <2> QED  BY <2>2 DEF a, b
<1> QED  BY <1>6, <1>10

LEMMA ResidentAre == ASSUME NEW f  PROVE Paging!Resident(f) = Values(f)
BY FramesAre DEF Paging!Resident, Values, Filled

LEMMA PagingInvariant == Spec => []PagingInv
<1>1. Init => PagingInv
  BY PagingInit DEF Init
<1> QED  BY <1>1, PagingKept, PTL DEF Spec

\* page_replacement.c: under FIFO, both LRU algorithms and the clock a page is in one
\* frame at most, the page just used is in memory, and no page is dropped while a
\* frame is free; for every number of frames.
THEOREM FramesAreSound == Spec => []FramesSound
<1>1. PagingInv => FramesSound
  <2> SUFFICES ASSUME PagingInv, NEW f \in {fifo.frame, stack.frame, matrix.frame, clock.frame}
               PROVE  /\ Paging!Cardinality(Paging!Resident(f)) = Paging!Min({Len(recent), FRAME_SIZE})
                      /\ Paging!Cardinality({i \in Paging!Frames : f[i] # Paging!Empty})
                           = Paging!Min({Len(recent), FRAME_SIZE})
                      /\ recent # <<>> => recent[Len(recent)] \in Paging!Resident(f)
    BY DEF FramesSound, Paging!FramesSound
  <2>1. RecentInv /\ Framed(f, Seen) /\ (recent # <<>> => recent[Len(recent)] \in Values(f))
    BY DEF PagingInv, FifoInv, StackInv, MatrixInv, ClockInv
  <2>2. {i \in Paging!Frames : f[i] # Paging!Empty} = Filled(f)
    BY FramesAre DEF Filled
  <2> QED  BY <2>1, <2>2, FramedCount, ResidentAre, PagingCardinality
<1> QED  BY <1>1, PagingInvariant, PTL

\* page_replacement.c: the list and the matrix of the two LRU algorithms, which keep
\* the order of use in unlike ways, put every page in the same frame and keep exactly
\* the pages used last; for every number of frames.
THEOREM LRUKeepsLast == Spec => []LRUExact
<1>1. PagingInv => LRUExact
  <2> DEFINE f == stack.frame
             l == stack.list
             n == Len(recent)
             last == {recent[k] : k \in {k \in DOMAIN recent : k > n - FRAME_SIZE}}
  <2> SUFFICES ASSUME PagingInv  PROVE Values(f) = last
    BY ResidentAre DEF LRUExact, Paging!LRUExact, PagingInv, MatrixInv
  <2>0. /\ recent \in Seq(Pages) /\ n \in Nat /\ DOMAIN recent = 1 .. n /\ FRAME_SIZE \in Nat
        /\ Listed(l) /\ InOrder(l, f, recent)
    BY Sizes DEF PagingInv, RecentInv, StackInv
  <2>1. ASSUME NEW i \in Filled(f)  PROVE f[i] \in last
    <3>1. PICK k \in 1 .. FRAME_SIZE : l[k] = i
      BY <2>0 DEF Filled, Listed
    <3>2. n - FRAME_SIZE + k >= 1
      BY <2>0, <3>1 DEF Filled, InOrder
    <3>3. f[i] = recent[n - FRAME_SIZE + k]
      BY <2>0, <3>1, <3>2 DEF InOrder
    <3>4. n - FRAME_SIZE + k \in 1 .. n /\ n - FRAME_SIZE + k > n - FRAME_SIZE
      BY <2>0, <3>2
    <3> QED  BY <2>0, <3>3, <3>4
  <2>2. ASSUME NEW k \in 1 .. n, k > n - FRAME_SIZE  PROVE recent[k] \in Values(f)
    <3> DEFINE j == k - (n - FRAME_SIZE)
    <3>1. j \in 1 .. FRAME_SIZE /\ n - FRAME_SIZE + j = k /\ k >= 1
      BY <2>0, <2>2
    <3> HIDE DEF j
    <3>2. f[l[j]] = recent[k]
      BY <2>0, <3>1 DEF InOrder
    <3>3. l[j] \in Frames /\ recent[k] \in Pages
      BY <2>0, <3>1 DEF Listed
    <3> QED  BY <3>2, <3>3, Inputs DEF Values, Filled
  <2> QED  BY <2>0, <2>1, <2>2 DEF Values
<1> QED  BY <1>1, PagingInvariant, PTL

\* Second_Chance: a page whose reference bit is set is dropped only when the bits of
\* all pages are set; for every number of frames.
THEOREM SecondChance == Spec => SecondChanceGiven
<1> DEFINE Given ==
      \A i \in Paging!Frames :
        clock.frame[i] \notin Paging!Resident(clock'.frame) \cup {Paging!Empty} /\ clock.bit[i] = 1
          => \A j \in Paging!Frames : clock.bit[j] = 1
<1>1. PagingInv /\ [Next]_<<prog, hvars, pvars, dvars, tvars, kvars, ivars, lvars>> => [Given]_pvars
  <2> SUFFICES ASSUME PagingInv, [Paging!Next]_pvars  PROVE [Given]_pvars
    BY PagingStep DEF pvars
  <2>1. CASE Paging!Next
    <3>1. PICK page \in Pages : Paging!Second_Chance(page)
      BY <2>1 DEF Paging!Next, Paging!Reference
    <3>2. \A i \in Frames : clock'.frame[i] # clock.frame[i] =>
              clock.bit[i] = 0 \/ \A j \in Frames : clock.bit[j] = 1
      BY <3>1, ClockStep DEF PagingInv
    <3>3. ASSUME NEW i \in Frames, clock.frame[i] \notin Values(clock'.frame) \cup {-1}, clock.bit[i] = 1
          PROVE  \A j \in Frames : clock.bit[j] = 1
      BY <3>2, <3>3 DEF Values, Filled
    <3> QED  BY <3>3, FramesAre, ResidentAre
  <2>2. CASE UNCHANGED pvars
    BY <2>2
  <2> QED  BY <2>1, <2>2
<1> QED  BY <1>1, PagingInvariant, PTL DEF Spec, SecondChanceGiven, Paging!SecondChanceGiven, pvars, Paging!pvars

-----------------------------------------------------------------------------
(***************************************************************************)
(* The chat server.                                                        *)
(***************************************************************************)
Sn == 1 .. MAX_CONN_NUM
LEMMA SnIs == Chat!Sn = Sn /\ MAX_CONN_NUM \in Nat
BY Sizes DEF Chat!Sn, Sn

\* Messages in a pipe are at most n, and the public ones, which are not 0, ascend.
Ascending(pipe, n) ==
  /\ pipe \in Seq(Nat) /\ n \in Nat
  /\ \A k \in 1 .. Len(pipe) : pipe[k] <= n
  /\ \A j, k \in 1 .. Len(pipe) : j < k /\ pipe[j] # 0 /\ pipe[k] # 0 => pipe[j] < pipe[k]

Publics(pipe) == {pipe[k] : k \in {k \in 1 .. Len(pipe) : pipe[k] # 0}}

LEMMA PipeAppend ==
  ASSUME NEW pipe, NEW n, Ascending(pipe, n), NEW m, m = 0 \/ m = n + 1
  PROVE  /\ Ascending(Append(pipe, m), IF m = 0 THEN n ELSE n + 1)
         /\ Publics(Append(pipe, m)) = IF m = 0 THEN Publics(pipe) ELSE Publics(pipe) \cup {m}
<1> DEFINE l == Len(pipe)
           q == Append(pipe, m)
<1>1. /\ pipe \in Seq(Nat) /\ n \in Nat /\ l \in Nat /\ m \in Nat
      /\ \A k \in 1 .. l : pipe[k] \in Nat /\ pipe[k] <= n
      /\ \A j, k \in 1 .. l : j < k /\ pipe[j] # 0 /\ pipe[k] # 0 => pipe[j] < pipe[k]
  BY DEF Ascending
<1>2. q \in Seq(Nat) /\ Len(q) = l + 1 /\ q[l + 1] = m /\ \A k \in 1 .. l : q[k] = pipe[k]
  BY <1>1
<1>3. \A k \in 1 .. l + 1 : k = l + 1 \/ (k \in 1 .. l /\ k < l + 1)
  BY <1>1
<1>4. 1 .. l \subseteq 1 .. l + 1 /\ l + 1 \in 1 .. l + 1
  BY <1>1
<1> HIDE DEF l, q
<1>5. \A k \in 1 .. l + 1 : q[k] <= IF m = 0 THEN n ELSE n + 1
  <2> SUFFICES ASSUME NEW k \in 1 .. l + 1  PROVE q[k] <= IF m = 0 THEN n ELSE n + 1
    OBVIOUS
  <2>1. CASE k = l + 1
    BY <2>1, <1>1, <1>2
  <2>2. CASE k \in 1 .. l
    <3>1. q[k] \in Nat /\ q[k] <= n
      BY <2>2, <1>1, <1>2
    <3> QED  BY <3>1, <1>1
  <2> QED  BY <2>1, <2>2, <1>3
<1>6. ASSUME NEW j \in 1 .. l + 1, NEW k \in 1 .. l + 1, j < k, q[j] # 0, q[k] # 0  PROVE q[j] < q[k]
  <2>0. j \in 1 .. l
    BY <1>1, <1>6
  <2>1. CASE k = l + 1
    <3>1. q[k] = n + 1 /\ q[j] \in Nat /\ q[j] <= n
      BY <2>0, <2>1, <1>1, <1>2, <1>6
    <3> QED  BY <3>1, <1>1
  <2>2. CASE k \in 1 .. l
    BY <2>0, <2>2, <1>1, <1>2, <1>6
  <2> QED  BY <2>1, <2>2, <1>3
<1>7. Ascending(q, IF m = 0 THEN n ELSE n + 1)
  BY <1>1, <1>2, <1>5, <1>6 DEF Ascending
<1>8. Publics(q) = IF m = 0 THEN Publics(pipe) ELSE Publics(pipe) \cup {m}
  <2>1. ASSUME NEW k \in 1 .. l + 1, q[k] # 0
        PROVE  q[k] \in IF m = 0 THEN Publics(pipe) ELSE Publics(pipe) \cup {m}
    BY <1>2, <1>3, <2>1 DEF Publics, l
  <2>2. ASSUME NEW k \in 1 .. l, pipe[k] # 0  PROVE pipe[k] \in Publics(q)
    BY <1>2, <1>4, <2>2 DEF Publics
  <2>3. m # 0 => m \in Publics(q)
    BY <1>2, <1>4 DEF Publics
  <2>4. Publics(pipe) \subseteq Publics(q)
    BY <2>2 DEF Publics, l
  <2>5. Publics(q) \subseteq IF m = 0 THEN Publics(pipe) ELSE Publics(pipe) \cup {m}
    BY <2>1, <1>2 DEF Publics
  <2> QED  BY <2>3, <2>4, <2>5
<1> QED  BY <1>7, <1>8 DEF q

LEMMA PipeTail ==
  ASSUME NEW pipe, NEW n, Ascending(pipe, n), pipe # <<>>
  PROVE  /\ Ascending(Tail(pipe), n) /\ Head(pipe) \in 0 .. n
         /\ Publics(Tail(pipe)) = Publics(pipe) \ {Head(pipe)}
         /\ \A a \in 0 .. n : Publics(pipe) = a + 1 .. n => Head(pipe) = 0 \/ Head(pipe) = a + 1
<1> DEFINE l == Len(pipe)
           q == Tail(pipe)
           h == Head(pipe)
<1>1. /\ pipe \in Seq(Nat) /\ n \in Nat /\ l \in Nat /\ l > 0 /\ h = pipe[1]
      /\ \A k \in 1 .. l : pipe[k] \in Nat /\ pipe[k] <= n
      /\ \A j, k \in 1 .. l : j < k /\ pipe[j] # 0 /\ pipe[k] # 0 => pipe[j] < pipe[k]
  BY DEF Ascending
<1>2. q \in Seq(Nat) /\ Len(q) = l - 1 /\ \A k \in 1 .. l - 1 : q[k] = pipe[k + 1]
  BY <1>1
<1>3. h \in 0 .. n /\ 1 \in 1 .. l
  BY <1>1
<1>4. \A k \in 1 .. l - 1 : k + 1 \in 1 .. l /\ 1 < k + 1
  BY <1>1
<1>5. \A k \in 1 .. l : k = 1 \/ (k - 1 \in 1 .. l - 1 /\ (k - 1) + 1 = k)
  BY <1>1
<1>6. \A j, k \in 1 .. l - 1 : j < k => j + 1 < k + 1
  BY <1>1
<1> HIDE DEF l, q, h
<1>7. Ascending(q, n)
  BY <1>1, <1>2, <1>4, <1>6 DEF Ascending
<1>8. ASSUME NEW k \in 1 .. l, pipe[k] # 0, h # 0, k # 1  PROVE h < pipe[k]
  <2>1. 1 < k
    BY <1>1, <1>8
  <2> QED  BY <2>1, <1>1, <1>3, <1>8
<1>9. Publics(q) = Publics(pipe) \ {h}
  <2>1. ASSUME NEW k \in 1 .. l - 1, q[k] # 0  PROVE q[k] \in Publics(pipe) \ {h}
    <3>1. q[k] = pipe[k + 1] /\ k + 1 \in 1 .. l /\ k + 1 # 1
      BY <1>2, <1>4
    <3>2. q[k] \in Publics(pipe)
      BY <2>1, <3>1 DEF Publics, l
    <3>3. h = 0 \/ h < q[k]
      BY <2>1, <3>1, <1>8
    <3>4. h # q[k]
      BY <3>1, <3>3, <2>1, <1>1, <1>3
    <3> QED  BY <3>2, <3>4
  <2>2. ASSUME NEW k \in 1 .. l, pipe[k] # 0, pipe[k] # h  PROVE pipe[k] \in Publics(q)
    <3>1. k - 1 \in 1 .. l - 1 /\ q[k - 1] = pipe[k]
      BY <2>2, <1>1, <1>2, <1>5
    <3> QED  BY <3>1, <2>2, <1>2 DEF Publics
  <2>3. Publics(q) \subseteq Publics(pipe) \ {h}
    BY <2>1, <1>2 DEF Publics
  <2>4. Publics(pipe) \ {h} \subseteq Publics(q)
    BY <2>2 DEF Publics, l
  <2> QED  BY <2>3, <2>4
<1>10. ASSUME NEW a \in 0 .. n, Publics(pipe) = a + 1 .. n, h # 0  PROVE h = a + 1
  <2>1. h \in Publics(pipe)
    BY <1>1, <1>3, <1>10 DEF Publics, l
  <2>2. h >= a + 1 /\ h <= n /\ a + 1 \in a + 1 .. n
    BY <2>1, <1>1, <1>3, <1>10
  <2>3. PICK k \in 1 .. l : pipe[k] # 0 /\ pipe[k] = a + 1
    BY <2>2, <1>10 DEF Publics, l
  <2>4. k = 1 \/ h < a + 1
    BY <2>3, <1>8, <1>10
  <2> QED  BY <2>2, <2>3, <2>4, <1>1, <1>3
<1> QED  BY <1>3, <1>7, <1>9, <1>10 DEF q, h

Stats == {"EMPTY", "ACCEPTED", "NORMAL", "ENDED"}
Fresh(u) == u > connect_sn \/ (u = connect_sn /\ main = "accept")
Told(u) == \E k \in 1 .. Len(fd_stat) : fd_stat[k] = u
Takes(u) == u <= max_sn /\ stat[u] = "NORMAL"

ChatType ==
  /\ registers \in BOOLEAN /\ lagged \in BOOLEAN
  /\ connect_sn \in Nat \ {0} /\ (main \in {"fork", "tell"} => connect_sn <= MAX_CONN_NUM)
  /\ max_sn \in 0 .. MAX_CONN_NUM /\ fd_max \in Seq(Sn) /\ fd_stat \in Seq(Sn)
  /\ fd_msg \in Seq([sn : Sn, line : Lines])
  /\ DOMAIN nickname = 0 .. MAX_CONN_NUM /\ nickname = [u \in 0 .. MAX_CONN_NUM |-> nickname[u]]
  /\ stat \in [Sn -> Stats] /\ quit \subseteq Sn
  /\ fd \in [Sn -> Seq(Nat)] /\ log \in Nat /\ heard \in [Sn -> Nat] /\ DOMAIN recv = Sn
  /\ recv = [u \in Sn |-> recv[u]]

\* The numbers on their way to pipe_data never fall below the one it has.
NumberInv == max_sn < connect_sn /\ \A k \in 1 .. Len(fd_max) : max_sn <= fd_max[k] /\ fd_max[k] < connect_sn

\* As long as no name was taken too early, only clients up to max_sn have one.
NameInv ==
  /\ lagged \/ \A u \in Sn : u > max_sn => nickname[u] = "Anonymous"
  /\ lagged \/ \A u \in Sn, v \in 0 .. MAX_CONN_NUM :
                 u # v => nickname[u] = "Anonymous" \/ nickname[u] # nickname[v]
  /\ registers => \A u \in Sn : stat[u] = "NORMAL" => nickname[u] # "Anonymous"

\* Nothing is known of a client that main has not accepted.
FreshInv ==
  /\ \A u \in Sn : Fresh(u) => stat[u] = "EMPTY" /\ recv[u] = "no" /\ Publics(fd[u]) = {}
                               /\ u \notin quit /\ ~Told(u)
  /\ \A k \in 1 .. Len(fd_msg) : ~Fresh(fd_msg[k].sn)

\* A client whose status is on its way has heard nothing and, with nicknames, has
\* not quit.
ToldInv ==
  \A u \in Sn : Told(u) => stat[u] \in {"EMPTY", "ENDED"} /\ (registers => u \notin quit)
                           /\ Publics(fd[u]) = {}

PipeInv ==
  /\ \A u \in Sn : Ascending(fd[u], log) /\ heard[u] <= log
  /\ \A u \in Sn : Publics(fd[u]) # {} => Takes(u) \/ stat[u] = "ENDED"
  /\ \A u \in Sn : Takes(u) /\ recv[u] = "on" /\ u \notin missed => Publics(fd[u]) = heard[u] + 1 .. log
  /\ registers => \A u \in quit : stat[u] = "ENDED"

ChatInv == ChatType /\ NumberInv /\ NameInv /\ FreshInv /\ ToldInv /\ PipeInv

LEMMA ChatInit == Chat!Init => ChatInv
<1> SUFFICES ASSUME Chat!Init  PROVE ChatInv
  OBVIOUS
<1>1. /\ registers \in BOOLEAN /\ main = "accept" /\ connect_sn = 1
      /\ fd_max = <<>> /\ fd_stat = <<>> /\ fd_msg = <<>>
      /\ fd = [u \in Sn |-> <<>>] /\ recv = [u \in Sn |-> "no"] /\ max_sn = 0
      /\ stat = [u \in Sn |-> "EMPTY"]
      /\ nickname = [u \in 0 .. MAX_CONN_NUM |-> IF u = 0 THEN "Console" ELSE "Anonymous"]
      /\ log = 0 /\ heard = [u \in Sn |-> 0] /\ quit = {} /\ lagged = FALSE
  BY SnIs DEF Chat!Init
<1>2. \A u \in Sn : u \in 0 .. MAX_CONN_NUM /\ u # 0 /\ u > 0
  BY SnIs DEF Sn
<1>3. <<>> \in Seq(Nat) /\ Len(<<>>) = 0 /\ 1 .. 0 = {}
  OBVIOUS
<1>4. Publics(<<>>) = {}
  BY <1>3 DEF Publics
<1>5. \A u \in Sn : fd[u] = <<>> /\ recv[u] = "no" /\ stat[u] = "EMPTY" /\ heard[u] = 0
                    /\ nickname[u] = "Anonymous"
  BY <1>1, <1>2
<1>6. ChatType
  <2>1. DOMAIN nickname = 0 .. MAX_CONN_NUM /\ nickname = [u \in 0 .. MAX_CONN_NUM |-> nickname[u]]
        /\ DOMAIN recv = Sn /\ recv = [u \in Sn |-> recv[u]]
    BY <1>1
  <2>2. stat \in [Sn -> Stats] /\ fd \in [Sn -> Seq(Nat)] /\ heard \in [Sn -> Nat]
    BY <1>1, <1>3 DEF Stats
  <2>3. fd_max \in Seq(Sn) /\ fd_stat \in Seq(Sn) /\ fd_msg \in Seq([sn : Sn, line : Lines])
    BY <1>1
  <2> QED  BY <2>1, <2>2, <2>3, <1>1, SnIs DEF ChatType
<1>7. NumberInv
  BY <1>1, <1>3 DEF NumberInv
<1>8. NameInv
  BY <1>1, <1>5 DEF NameInv
<1>9. \A u \in Sn : ~Told(u)
  BY <1>1, <1>3 DEF Told
<1>10. FreshInv /\ ToldInv
  BY <1>1, <1>3, <1>4, <1>5, <1>9 DEF FreshInv, ToldInv
<1>11. PipeInv
  <2>1. Ascending(<<>>, 0)
    BY <1>3 DEF Ascending
  <2>2. \A u \in Sn : ~Takes(u)
    BY <1>5 DEF Takes
  <2> QED  BY <1>1, <1>4, <1>5, <2>1, <2>2 DEF PipeInv
<1> QED  BY <1>6, <1>7, <1>8, <1>10, <1>11 DEF ChatInv

LEMMA MessageFrom ==
  ASSUME ChatType  PROVE \A k \in 1 .. Len(fd_msg) : fd_msg[k].sn \in Sn /\ fd_msg[k].line \in Lines
<1> SUFFICES ASSUME NEW k \in 1 .. Len(fd_msg)  PROVE fd_msg[k].sn \in Sn /\ fd_msg[k].line \in Lines
  OBVIOUS
<1> DEFINE M == [sn : Sn, line : Lines]
<1>1. fd_msg \in Seq(M)
  BY DEF ChatType
<1>2. fd_msg[k] \in M
  <2> HIDE DEF M
  <2> QED  BY <1>1
<1> QED  BY <1>2

\* main's steps.
LEMMA AcceptStep == ASSUME ChatInv, Chat!Accept  PROVE ChatInv'
<1> USE DEF ChatInv
<1>0. /\ main = "accept" /\ connect_sn <= MAX_CONN_NUM /\ fd_stat' = Append(fd_stat, connect_sn) /\ main' = "fork"
      /\ UNCHANGED <<registers, connect_sn, fd_max, fd_msg, fd, nonblock, recv, max_sn, stat, nickname,
                     log, heard, missed, quit, lagged>>
  BY DEF Chat!Accept, Chat!members, Chat!history
<1>1. connect_sn \in Sn /\ connect_sn \in Nat /\ fd_stat \in Seq(Sn)
  BY <1>0, SnIs DEF ChatType, Sn
<1>2. /\ fd_stat' \in Seq(Sn) /\ Len(fd_stat') = Len(fd_stat) + 1 /\ fd_stat'[Len(fd_stat) + 1] = connect_sn
      /\ \A k \in 1 .. Len(fd_stat) : fd_stat'[k] = fd_stat[k]
  BY <1>0, <1>1
<1>3. ChatType'
  BY <1>0, <1>2 DEF ChatType
<1>4. NumberInv' /\ NameInv' /\ PipeInv'
  BY <1>0 DEF NumberInv, NameInv, PipeInv, Takes
<1>5. \A u \in Sn : Told(u)' => Told(u) \/ u = connect_sn
  <2> SUFFICES ASSUME NEW u \in Sn, NEW k \in 1 .. Len(fd_stat'), fd_stat'[k] = u  PROVE Told(u) \/ u = connect_sn
    BY DEF Told
  <2>1. k \in 1 .. Len(fd_stat) \/ k = Len(fd_stat) + 1
    BY <1>1, <1>2
  <2> QED  BY <2>1, <1>2 DEF Told
<1>6. Fresh(connect_sn) /\ \A u : Fresh(u)' => Fresh(u)
  BY <1>0 DEF Fresh
<1>7. \A u \in Sn : Fresh(u)' => ~Told(u)'
  <2> SUFFICES ASSUME NEW u \in Sn, Fresh(u)'  PROVE ~Told(u)'
    OBVIOUS
  <2>1. u # connect_sn
    BY <1>0, <1>1 DEF Fresh
  <2>2. ~Told(u)
    BY <1>6 DEF FreshInv
  <2> QED  BY <2>1, <2>2, <1>5
<1>8. FreshInv'
  BY <1>0, <1>6, <1>7 DEF FreshInv
<1>9. ToldInv'
  <2> SUFFICES ASSUME NEW u \in Sn, Told(u)'
               PROVE  stat[u] \in {"EMPTY", "ENDED"} /\ (registers => u \notin quit)
                      /\ Publics(fd[u]) = {}
    BY <1>0 DEF ToldInv
  <2> QED  BY <1>1, <1>5, <1>6 DEF FreshInv, ToldInv
<1> QED  BY <1>3, <1>4, <1>8, <1>9

LEMMA ForkStep == ASSUME ChatInv, Chat!Fork  PROVE ChatInv'
<1> USE DEF ChatInv
<1>0. /\ main = "fork" /\ main' \in {"over", "tell"}
      /\ recv' = recv \/ recv' = [recv EXCEPT ![connect_sn] = "on"]
      /\ UNCHANGED <<registers, connect_sn, fd_max, fd_stat, fd_msg, fd, nonblock, max_sn, stat, nickname,
                     log, heard, missed, quit, lagged>>
  BY DEF Chat!Fork, Chat!members, Chat!history
<1>1. connect_sn \in Sn /\ connect_sn \in Nat
  BY <1>0, SnIs DEF ChatType, Sn
<1>2. DOMAIN recv' = Sn /\ recv' = [u \in Sn |-> recv'[u]] /\ \A u \in Sn : u # connect_sn => recv'[u] = recv[u]
  BY <1>0, <1>1 DEF ChatType
<1>3. ChatType'
  BY <1>0, <1>1, <1>2, SnIs DEF ChatType, Sn
<1>4. NumberInv' /\ NameInv'
  BY <1>0 DEF NumberInv, NameInv
<1>5. \A u \in Sn : Fresh(u)' => Fresh(u) /\ u # connect_sn
  BY <1>0, <1>1 DEF Fresh, Sn
<1>6. FreshInv'
  <2>1. \A u \in Sn : Told(u)' = Told(u)
    BY <1>0 DEF Told
  <2>2. \A k \in 1 .. Len(fd_msg) : fd_msg[k].sn \in Sn
    BY MessageFrom
  <2> QED  BY <1>0, <1>2, <1>5, <2>1, <2>2 DEF FreshInv
<1>7. ToldInv'
  BY <1>0 DEF ToldInv, Told
<1>8. PipeInv'
  <2>1. \A u \in Sn : Takes(u)' = Takes(u)
    BY <1>0 DEF Takes
  <2>2. Takes(connect_sn) => FALSE
    BY <1>0, <1>1 DEF Takes, NumberInv, ChatType
  <2> QED  BY <1>0, <1>2, <2>1, <2>2 DEF PipeInv
<1> QED  BY <1>3, <1>4, <1>6, <1>7, <1>8

LEMMA TellMaxStep == ASSUME ChatInv, Chat!TellMax  PROVE ChatInv'
<1> USE DEF ChatInv
<1>0. /\ main = "tell" /\ fd_max' = Append(fd_max, connect_sn) /\ main' \in {"accept", "over"} /\ connect_sn' = connect_sn + 1
      /\ UNCHANGED <<registers, fd_stat, fd_msg, fd, nonblock, recv, max_sn, stat, nickname,
                     log, heard, missed, quit, lagged>>
  BY DEF Chat!TellMax, Chat!members, Chat!history
<1>1. connect_sn \in Sn /\ connect_sn \in Nat /\ fd_max \in Seq(Sn)
  BY <1>0, SnIs DEF ChatType, Sn
<1>2. /\ fd_max' \in Seq(Sn) /\ Len(fd_max') = Len(fd_max) + 1 /\ fd_max'[Len(fd_max) + 1] = connect_sn
      /\ \A k \in 1 .. Len(fd_max) : fd_max'[k] = fd_max[k]
  BY <1>0, <1>1
<1>3. ChatType'
  <2>1. connect_sn' \in Nat \ {0}
    BY <1>0, <1>1
  <2>2. main' \notin {"fork", "tell"}
    BY <1>0
  <2> QED  BY <1>0, <1>2, <2>1, <2>2 DEF ChatType
<1>4. NumberInv'
  <2>1. max_sn \in Nat /\ max_sn < connect_sn
    BY SnIs DEF NumberInv, ChatType
  <2>2. ASSUME NEW k \in 1 .. Len(fd_max) + 1  PROVE max_sn <= fd_max'[k] /\ fd_max'[k] < connect_sn + 1
    <3>1. CASE k = Len(fd_max) + 1
      BY <1>1, <1>2, <2>1, <3>1
    <3>2. CASE k \in 1 .. Len(fd_max)
      <4>1. fd_max[k] \in Sn /\ max_sn <= fd_max[k] /\ fd_max[k] < connect_sn
        BY <1>1, <3>2 DEF NumberInv
      <4> QED  BY <4>1, <1>1, <1>2, <3>2 DEF Sn
    <3> QED  BY <3>1, <3>2, <1>1
  <2> QED  BY <1>0, <1>1, <1>2, <2>1, <2>2 DEF NumberInv
<1>5. \A u \in Sn : Fresh(u)' => Fresh(u)
  BY <1>0, <1>1 DEF Fresh, Sn
<1>6. FreshInv' /\ ToldInv'
  <2>1. \A u \in Sn : Told(u)' = Told(u)
    BY <1>0 DEF Told
  <2>2. \A k \in 1 .. Len(fd_msg) : fd_msg[k].sn \in Sn
    BY MessageFrom
  <2> QED  BY <1>0, <1>5, <2>1, <2>2 DEF FreshInv, ToldInv
<1>7. NameInv' /\ PipeInv'
  BY <1>0 DEF NameInv, PipeInv, Takes
<1> QED  BY <1>3, <1>4, <1>6, <1>7

LEMMA MainEndsStep == ASSUME ChatInv, Chat!MainEnds  PROVE ChatInv'
<1> USE DEF ChatInv
<1>0. /\ main = "over" /\ main' = "exit"
      /\ UNCHANGED <<registers, connect_sn, fd_max, fd_stat, fd_msg, fd, nonblock, recv, max_sn, stat, nickname,
                     log, heard, missed, quit, lagged>>
  BY DEF Chat!MainEnds, Chat!members, Chat!history
<1>1. ChatType' /\ NumberInv' /\ NameInv' /\ PipeInv'
  BY <1>0 DEF ChatType, NumberInv, NameInv, PipeInv, Takes
<1>2. \A u : Fresh(u)' => Fresh(u)
  BY <1>0 DEF Fresh
<1>3. \A u \in Sn : Told(u)' = Told(u)
  BY <1>0 DEF Told
<1>4. FreshInv' /\ ToldInv'
  BY <1>0, <1>2, <1>3 DEF FreshInv, ToldInv
<1> QED  BY <1>1, <1>4

\* The lines the clients send, and what is sent to them.
LEMMA RecvLineStep == ASSUME ChatInv, NEW u \in Sn, NEW line \in Lines, Chat!RecvLine(u, line)  PROVE ChatInv'
<1> USE DEF ChatInv
<1> DEFINE M == [sn : Sn, line : Lines]
           m == [sn |-> u, line |-> line]
<1>0. /\ recv[u] = "on" /\ fd_msg' = Append(fd_msg, m)
      /\ UNCHANGED <<registers, main, connect_sn, fd_max, fd_stat, fd, nonblock, recv, max_sn, stat, nickname,
                     log, heard, missed, quit, lagged>>
  BY DEF Chat!RecvLine, Chat!accepting, Chat!members, Chat!history
<1>1. m \in M /\ m.sn = u
  OBVIOUS
<1>2. fd_msg \in Seq(M)
  BY DEF ChatType
<1> HIDE DEF M, m
<1>3. /\ fd_msg' \in Seq(M) /\ Len(fd_msg') = Len(fd_msg) + 1 /\ fd_msg'[Len(fd_msg) + 1] = m
      /\ Len(fd_msg) \in Nat /\ \A k \in 1 .. Len(fd_msg) : fd_msg'[k] = fd_msg[k]
  BY <1>0, <1>1, <1>2
<1>4. ChatType'
  BY <1>0, <1>3 DEF ChatType, M
<1>5. NumberInv' /\ NameInv' /\ PipeInv'
  BY <1>0 DEF NumberInv, NameInv, PipeInv, Takes
<1>6. \A v : Fresh(v)' = Fresh(v) /\ Told(v)' = Told(v)
  BY <1>0 DEF Fresh, Told
<1>7. ~Fresh(u)
  BY <1>0 DEF FreshInv
<1>8. \A k \in 1 .. Len(fd_msg') : ~Fresh(fd_msg'[k].sn)
  <2> SUFFICES ASSUME NEW k \in 1 .. Len(fd_msg')  PROVE ~Fresh(fd_msg'[k].sn)
    OBVIOUS
  <2>1. k \in 1 .. Len(fd_msg) \/ k = Len(fd_msg) + 1
    BY <1>3
  <2> QED  BY <2>1, <1>1, <1>3, <1>7 DEF FreshInv
<1>9. FreshInv' /\ ToldInv'
  BY <1>0, <1>6, <1>8 DEF FreshInv, ToldInv
<1> QED  BY <1>4, <1>5, <1>9

LEMMA SendMessageStep == ASSUME ChatInv, NEW u \in Sn, Chat!SendMessage(u)  PROVE ChatInv'
<1> USE DEF ChatInv
<1> DEFINE h == Head(fd[u])
<1>0. /\ recv[u] = "on" /\ fd[u] # <<>> /\ fd' = [fd EXCEPT ![u] = Tail(@)]
      /\ \/ heard' = (IF h = 0 THEN heard ELSE [heard EXCEPT ![u] = h]) /\ recv' = recv
         \/ recv' = [recv EXCEPT ![u] = "ended"] /\ heard' = heard
      /\ UNCHANGED <<registers, main, connect_sn, fd_max, fd_stat, fd_msg, nonblock, max_sn, stat, nickname,
                     log, missed, quit, lagged>>
  BY DEF Chat!SendMessage, Chat!accepting, Chat!members
<1>1. Ascending(fd[u], log) /\ log \in Nat /\ heard[u] \in 0 .. log
  BY DEF PipeInv, ChatType
<1>2. /\ Ascending(Tail(fd[u]), log) /\ h \in 0 .. log
      /\ Publics(Tail(fd[u])) = Publics(fd[u]) \ {h}
      /\ \A a \in 0 .. log : Publics(fd[u]) = a + 1 .. log => h = 0 \/ h = a + 1
  BY <1>0, <1>1, PipeTail
<1> HIDE DEF h
<1>3. /\ fd' \in [Sn -> Seq(Nat)] /\ fd'[u] = Tail(fd[u]) /\ \A v \in Sn : v # u => fd'[v] = fd[v]
  <2>1. Tail(fd[u]) \in Seq(Nat)
    BY <1>2 DEF Ascending
  <2> QED  BY <2>1, <1>0 DEF ChatType
<1>4. /\ heard' \in [Sn -> Nat] /\ (\A v \in Sn : v # u => heard'[v] = heard[v])
      /\ DOMAIN recv' = Sn /\ recv' = [v \in Sn |-> recv'[v]] /\ (\A v \in Sn : v # u => recv'[v] = recv[v])
  <2>1. h \in Nat /\ heard \in [Sn -> Nat] /\ DOMAIN recv = Sn /\ recv = [v \in Sn |-> recv[v]]
    BY <1>1, <1>2 DEF ChatType
  <2>2. CASE heard' = (IF h = 0 THEN heard ELSE [heard EXCEPT ![u] = h]) /\ recv' = recv
    BY <2>1, <2>2
  <2>3. CASE recv' = [recv EXCEPT ![u] = "ended"] /\ heard' = heard
    BY <2>1, <2>3
  <2> QED  BY <1>0, <2>2, <2>3
<1>5. recv'[u] = "on" => heard'[u] = IF h = 0 THEN heard[u] ELSE h
  BY <1>0 DEF ChatType
<1>6. heard'[u] \in 0 .. log
  BY <1>0, <1>1, <1>2 DEF ChatType
<1>7. \A v \in Sn : Publics(fd'[v]) \subseteq Publics(fd[v])
  BY <1>2, <1>3
<1>8. ChatType'
  BY <1>0, <1>3, <1>4 DEF ChatType
<1>9. NumberInv' /\ NameInv'
  BY <1>0 DEF NumberInv, NameInv
<1>10. \A v : Fresh(v)' = Fresh(v) /\ Told(v)' = Told(v)
  BY <1>0 DEF Fresh, Told
<1>11. ~Fresh(u)
  BY <1>0 DEF FreshInv
<1>p. \A v \in Sn : Publics(fd[v]) = {} => Publics(fd'[v]) = {}
  BY <1>7
<1>12. FreshInv' /\ ToldInv'
  <2>1. FreshInv'
    <3>1. ASSUME NEW v \in Sn, Fresh(v)
          PROVE  stat'[v] = "EMPTY" /\ recv'[v] = "no" /\ Publics(fd'[v]) = {} /\ v \notin quit' /\ ~Told(v)
      <4>1. stat[v] = "EMPTY" /\ recv[v] = "no" /\ Publics(fd[v]) = {} /\ v \notin quit /\ ~Told(v)
        BY <3>1 DEF FreshInv
      <4>2. v # u
        BY <1>11, <3>1
      <4> QED  BY <1>0, <1>4, <1>p, <4>1, <4>2
    <3>2. \A k \in 1 .. Len(fd_msg') : ~Fresh(fd_msg'[k].sn)
      BY <1>0 DEF FreshInv
    <3> QED  BY <1>10, <3>1, <3>2 DEF FreshInv
  <2>2. ToldInv'
    BY <1>0, <1>p, <1>10 DEF ToldInv
  <2> QED  BY <2>1, <2>2
<1>13. \A v : Takes(v)' = Takes(v)
  BY <1>0 DEF Takes
<1>14. ASSUME NEW v \in Sn, Takes(v), recv'[v] = "on", v \notin missed
       PROVE  Publics(fd'[v]) = heard'[v] + 1 .. log
  <2>1. CASE v # u
    BY <2>1, <1>3, <1>4, <1>14 DEF PipeInv
  <2>2. CASE v = u
    <3>1. Publics(fd[u]) = heard[u] + 1 .. log
      BY <2>2, <1>0, <1>14 DEF PipeInv
    <3>2. Publics(fd'[u]) = (heard[u] + 1 .. log) \ {h} /\ h \in {0, heard[u] + 1}
      BY <3>1, <1>1, <1>2, <1>3
    <3>3. CASE h = 0
      <4>1. (heard[u] + 1 .. log) \ {0} = heard[u] + 1 .. log
        BY <1>1
      <4> QED  BY <3>2, <3>3, <4>1, <1>5, <1>14, <2>2
    <3>4. CASE h = heard[u] + 1 /\ h # 0
      <4>1. (heard[u] + 1 .. log) \ {h} = h + 1 .. log
        BY <3>4, <1>1, <1>2
      <4> QED  BY <3>2, <3>4, <4>1, <1>5, <1>14, <2>2
    <3> QED  BY <3>2, <3>3, <3>4
  <2> QED  BY <2>1, <2>2
<1>15. \A v \in Sn : Ascending(fd'[v], log) /\ heard'[v] <= log
  <2> SUFFICES ASSUME NEW v \in Sn  PROVE Ascending(fd'[v], log) /\ heard'[v] <= log
    OBVIOUS
  <2>1. CASE v = u
    <3>1. heard'[u] <= log
      BY <1>1, <1>6
    <3> QED  BY <2>1, <3>1, <1>2, <1>3
  <2>2. CASE v # u
    BY <2>2, <1>3, <1>4 DEF PipeInv
  <2> QED  BY <2>1, <2>2
<1>16. PipeInv'
  BY <1>0, <1>7, <1>13, <1>14, <1>15 DEF PipeInv
<1> QED  BY <1>8, <1>9, <1>12, <1>16

\* pipe_data hears of new clients.
LEMMA DrainMaxStep == ASSUME ChatInv, Chat!DrainMax  PROVE ChatInv'
<1> USE DEF ChatInv
<1>0. /\ max_sn' = (IF fd_max = <<>> THEN max_sn ELSE fd_max[Len(fd_max)]) /\ fd_max' = <<>>
      /\ heard' = [u \in Sn |-> IF Chat!Member(u) THEN heard[u] ELSE log]
      /\ UNCHANGED <<registers, main, connect_sn, fd_stat, fd_msg, fd, nonblock, recv, stat, nickname,
                     log, missed, quit, lagged>>
  BY SnIs DEF Chat!DrainMax, Chat!Joins
<1>1. max_sn' \in 0 .. MAX_CONN_NUM /\ max_sn <= max_sn' /\ max_sn' < connect_sn
  <2>1. CASE fd_max = <<>>
    BY <2>1, <1>0, SnIs DEF ChatType, NumberInv
  <2>2. CASE fd_max # <<>>
    <3>1. Len(fd_max) \in 1 .. Len(fd_max) /\ fd_max[Len(fd_max)] \in Sn
      BY <2>2 DEF ChatType
    <3> QED  BY <3>1, <2>2, <1>0, SnIs DEF NumberInv, Sn
  <2> QED  BY <2>1, <2>2
<1>2. \A u \in Sn : Chat!Member(u) <=> Takes(u)
  BY SnIs DEF Chat!Member, Takes, Sn, ChatType
<1>3. heard' \in [Sn -> Nat] /\ \A u \in Sn : heard'[u] = IF Takes(u) THEN heard[u] ELSE log
  BY <1>0, <1>2 DEF ChatType
<1>4. ChatType'
  BY <1>0, <1>1, <1>3 DEF ChatType
<1>5. NumberInv'
  BY <1>0, <1>1 DEF NumberInv
<1>6. \A u \in Sn : u > max_sn' => u > max_sn
  BY <1>1, SnIs DEF Sn, ChatType
<1>7. NameInv'
  BY <1>0, <1>6 DEF NameInv
<1>8. \A v : Fresh(v)' = Fresh(v) /\ Told(v)' = Told(v)
  BY <1>0 DEF Fresh, Told
<1>9. FreshInv' /\ ToldInv'
  BY <1>0, <1>8 DEF FreshInv, ToldInv
<1>10. \A u \in Sn : Takes(u) => Takes(u)'
  BY <1>0, <1>1, SnIs DEF Takes, Sn, ChatType
<1>11. ASSUME NEW u \in Sn, Takes(u)', recv[u] = "on", u \notin missed
       PROVE  Publics(fd[u]) = heard'[u] + 1 .. log
  <2>1. CASE Takes(u)
    BY <2>1, <1>3, <1>11 DEF PipeInv
  <2>2. CASE ~Takes(u)
    <3>1. stat[u] # "ENDED"
      BY <1>0, <1>11 DEF Takes
    <3>2. Publics(fd[u]) = {}
      BY <2>2, <3>1 DEF PipeInv
    <3>3. log \in Nat /\ log + 1 .. log = {}
      BY DEF ChatType
    <3> QED  BY <2>2, <3>2, <3>3, <1>3
  <2> QED  BY <2>1, <2>2
<1>12. \A u \in Sn : heard'[u] <= log
  <2>1. log <= log
    BY DEF ChatType
  <2> QED  BY <2>1, <1>3 DEF PipeInv
<1>13. PipeInv'
  BY <1>0, <1>10, <1>11, <1>12 DEF PipeInv
<1> QED  BY <1>4, <1>5, <1>7, <1>9, <1>13

LEMMA DrainStatStep == ASSUME ChatInv, Chat!DrainStat  PROVE ChatInv'
<1> USE DEF ChatInv
<1>0. /\ stat' = [u \in Sn |-> IF \E k \in DOMAIN fd_stat : fd_stat[k] = u
                           THEN (IF registers THEN "ACCEPTED" ELSE "NORMAL") ELSE stat[u]]
      /\ fd_stat' = <<>>
      /\ heard' = [u \in Sn |-> IF Chat!Member(u) THEN heard[u] ELSE log]
      /\ UNCHANGED <<registers, main, connect_sn, fd_max, fd_msg, fd, nonblock, recv, max_sn, nickname,
                     log, missed, quit, lagged>>
  BY SnIs DEF Chat!DrainStat, Chat!Joins
<1>1. \A u \in Sn : Chat!Member(u) <=> Takes(u)
  BY SnIs DEF Chat!Member, Takes, Sn, ChatType
<1>2. heard' \in [Sn -> Nat] /\ \A u \in Sn : heard'[u] = IF Takes(u) THEN heard[u] ELSE log
  BY <1>0, <1>1 DEF ChatType
<1>3. DOMAIN fd_stat = 1 .. Len(fd_stat)
  BY DEF ChatType
<1>4. \A u \in Sn : stat'[u] = IF Told(u) THEN (IF registers THEN "ACCEPTED" ELSE "NORMAL") ELSE stat[u]
  BY <1>0, <1>3 DEF Told
<1>5. stat' \in [Sn -> Stats]
  <2>1. stat' = [u \in Sn |-> stat'[u]]
    BY <1>0
  <2>2. \A u \in Sn : stat'[u] \in Stats
    BY <1>4 DEF ChatType, Stats
  <2> QED  BY <2>1, <2>2
<1>6. ChatType'
  BY <1>0, <1>2, <1>5 DEF ChatType
<1>7. NumberInv'
  BY <1>0 DEF NumberInv
<1>8. NameInv'
  BY <1>0, <1>4 DEF NameInv
<1>9. \A v : Fresh(v)' = Fresh(v) /\ ~Told(v)'
  BY <1>0 DEF Fresh, Told
<1>10. FreshInv' /\ ToldInv'
  BY <1>0, <1>4, <1>9 DEF FreshInv, ToldInv
<1>11. \A u \in Sn : Takes(u) => ~Told(u) /\ Takes(u)'
  BY <1>0, <1>4 DEF Takes, ToldInv
<1>12. \A u \in Sn : Publics(fd[u]) # {} => ~Told(u)
  BY DEF ToldInv
<1>13. ASSUME NEW u \in Sn, Takes(u)', recv[u] = "on", u \notin missed
       PROVE  Publics(fd[u]) = heard'[u] + 1 .. log
  <2>1. CASE Takes(u)
    BY <2>1, <1>2, <1>13 DEF PipeInv
  <2>2. CASE ~Takes(u)
    <3>1. Publics(fd[u]) = {}
      <4>1. CASE Told(u)
        BY <4>1 DEF ToldInv
      <4>2. CASE ~Told(u)
        <5>1. stat[u] # "ENDED"
          BY <1>4, <1>13, <4>2 DEF Takes
        <5> QED  BY <2>2, <5>1 DEF PipeInv
      <4> QED  BY <4>1, <4>2
    <3>2. log \in Nat /\ log + 1 .. log = {}
      BY DEF ChatType
    <3> QED  BY <2>2, <3>1, <3>2, <1>2
  <2> QED  BY <2>1, <2>2
<1>14. \A u \in Sn : heard'[u] <= log
  <2>1. log <= log
    BY DEF ChatType
  <2> QED  BY <2>1, <1>2 DEF PipeInv
<1>15. registers => \A u \in quit : stat'[u] = "ENDED"
  <2>1. registers => \A u \in quit : u \in Sn /\ ~Told(u)
    BY DEF ChatType, ToldInv
  <2> QED  BY <2>1, <1>4 DEF PipeInv
<1>16. \A u \in Sn : Publics(fd[u]) # {} => Takes(u)' \/ stat'[u] = "ENDED"
  BY <1>4, <1>11, <1>12 DEF PipeInv
<1>17. PipeInv'
  BY <1>0, <1>13, <1>14, <1>15, <1>16 DEF PipeInv
<1> QED  BY <1>6, <1>7, <1>8, <1>10, <1>17

\* What one line or command writes to the pipes, given the clients' statuses then.
Writes(to, m) ==
  /\ m \in {0, log + 1} /\ log' = (IF m = 0 THEN log ELSE log + 1)
  /\ m # 0 => to = {v \in Sn : v <= max_sn /\ stat'[v] = "NORMAL"}
  /\ fd' = [v \in Sn |-> IF v \in to /\ Len(fd[v]) < PipeMax THEN Append(fd[v], m) ELSE fd[v]]
  /\ missed' = missed \cup {v \in to : m # 0 /\ Len(fd[v]) >= PipeMax}

\* What it does to the sender.
Does(u) ==
  /\ \/ stat' = stat /\ quit' = quit
     \/ /\ u \in Sn /\ ~Fresh(u) /\ stat' = [stat EXCEPT ![u] = "ENDED"]
        /\ quit' = quit \cup {u} /\ (registers => stat[u] \in {"ACCEPTED", "NORMAL"})
     \/ /\ u \in Sn /\ stat[u] \in {"ACCEPTED", "NORMAL"} /\ stat' = [stat EXCEPT ![u] = "NORMAL"]
        /\ quit' = quit /\ nickname'[u] # "Anonymous"
  /\ \/ nickname' = nickname /\ lagged' = lagged
     \/ /\ u \in Sn /\ lagged' = (lagged \/ u > max_sn)
        /\ \E name : /\ nickname' = [nickname EXCEPT ![u] = name]
                     /\ \A v \in 0 .. max_sn : nickname[v] # name
                     /\ registers => name # "Anonymous"

\* What handling a line or a command, of or about client u, comes to.
Handled(u, to, m) ==
  /\ Writes(to, m) /\ Does(u)
  /\ heard' = [v \in Sn |-> IF Chat!Member(v) THEN heard[v] ELSE log]
  /\ fd_msg' = fd_msg \/ (fd_msg # <<>> /\ fd_msg' = Tail(fd_msg))
  /\ UNCHANGED <<registers, main, connect_sn, fd_max, fd_stat, recv, max_sn>>

LEMMA HandledNames == ASSUME ChatInv, NEW u, NEW to, NEW m, Handled(u, to, m)
  PROVE  /\ NameInv' /\ lagged' \in BOOLEAN /\ DOMAIN nickname' = 0 .. MAX_CONN_NUM
         /\ nickname' = [v \in 0 .. MAX_CONN_NUM |-> nickname'[v]]
<1> DEFINE N == 0 .. MAX_CONN_NUM
<1>0. /\ NameInv /\ registers' = registers /\ max_sn' = max_sn /\ max_sn \in N /\ Sn \subseteq N
      /\ registers \in BOOLEAN /\ lagged \in BOOLEAN /\ nickname = [v \in N |-> nickname[v]] /\ 0 .. max_sn \subseteq N
  <2>1. max_sn \in N /\ Sn \subseteq N /\ 0 .. max_sn \subseteq N
    BY SnIs DEF ChatInv, ChatType, Sn
  <2>2. registers' = registers /\ max_sn' = max_sn
    BY DEF Handled, Does, Writes
  <2>3. NameInv /\ registers \in BOOLEAN /\ lagged \in BOOLEAN /\ nickname = [v \in N |-> nickname[v]]
    BY DEF ChatInv, ChatType
  <2> QED  BY <2>1, <2>2, <2>3
<1>1. \A v \in Sn : stat'[v] = "NORMAL" => stat[v] = "NORMAL" \/ nickname'[v] # "Anonymous"
  BY DEF Handled, Does, Writes, ChatInv, ChatType
<1>2. CASE nickname' = nickname /\ lagged' = lagged
  BY <1>0, <1>1, <1>2 DEF NameInv
<1>3. CASE ~(nickname' = nickname /\ lagged' = lagged)
  <2>1. PICK name : /\ u \in Sn /\ lagged' = (lagged \/ u > max_sn) /\ nickname' = [nickname EXCEPT ![u] = name]
                    /\ \A v \in 0 .. max_sn : nickname[v] # name
                    /\ registers => name # "Anonymous"
    BY <1>3 DEF Handled, Does, Writes
  <2>2. /\ nickname'[u] = name /\ (\A v \in N : v # u => nickname'[v] = nickname[v])
        /\ DOMAIN nickname' = N /\ nickname' = [v \in N |-> nickname'[v]]
    BY <1>0, <2>1
  <2>3. lagged' \in BOOLEAN /\ (~lagged' => ~lagged /\ u <= max_sn)
    <3>1. u \in Nat /\ max_sn \in Nat
      BY <1>0, <2>1, SnIs DEF Sn
    <3>2. ~(u > max_sn) => u <= max_sn
      BY <3>1
    <3>3. lagged' \in BOOLEAN
      BY <2>1, <1>0
    <3> QED  BY <2>1, <1>0, <3>2, <3>3
  <2>4. ASSUME ~lagged'  PROVE \A v \in Sn : v > max_sn => nickname'[v] = "Anonymous"
    <3>1. \A v \in Sn : v > max_sn => v # u
      BY <2>3, <2>4, <1>0, SnIs DEF Sn
    <3> QED  BY <2>2, <2>3, <2>4, <3>1, <1>0 DEF NameInv
  <2>5. ASSUME ~lagged', NEW v \in Sn, NEW w \in N, v # w
        PROVE  nickname'[v] = "Anonymous" \/ nickname'[v] # nickname'[w]
    <3>0. ~lagged /\ v \in N /\ u \in N
      BY <2>1, <2>3, <2>5, <1>0
    <3>1. CASE v # u /\ w # u
      BY <3>0, <3>1, <2>2, <2>5 DEF ChatInv, NameInv
    <3>2. \A x \in N : x # u => nickname[x] # name \/ name = "Anonymous"
      <4> SUFFICES ASSUME NEW x \in N, x # u, ~(x \in 0 .. max_sn)  PROVE nickname[x] # name \/ name = "Anonymous"
        BY <2>1
      <4>1. x \in Sn /\ x > max_sn
        BY <1>0, SnIs DEF Sn
      <4>2. nickname[x] = "Anonymous"
        BY <4>1, <3>0 DEF ChatInv, NameInv
      <4> QED  BY <4>2
    <3>3. CASE v = u
      BY <3>2, <3>3, <2>2, <2>5
    <3>4. CASE w = u
      <4>1. nickname'[v] = nickname[v] /\ nickname'[w] = name
        BY <3>0, <3>4, <2>2, <2>5
      <4> QED  BY <3>0, <3>2, <3>4, <4>1, <2>5
    <3> QED  BY <3>1, <3>3, <3>4
  <2>6. ASSUME registers, NEW v \in Sn, stat'[v] = "NORMAL"  PROVE nickname'[v] # "Anonymous"
    <3>1. CASE v = u
      BY <3>1, <2>1, <2>2, <2>6
    <3>2. CASE v # u
      BY <3>2, <1>0, <1>1, <2>2, <2>6 DEF NameInv
    <3> QED  BY <3>1, <3>2
  <2>7. NameInv'
    BY <1>0, <2>4, <2>5, <2>6 DEF NameInv
  <2> QED  BY <2>2, <2>3, <2>7
<1>4. CASE nickname' = nickname /\ lagged' = lagged
  BY <1>2, <1>4 DEF ChatInv, ChatType
<1> QED  BY <1>2, <1>3, <1>4 DEF ChatInv, ChatType

LEMMA HandledPipes == ASSUME ChatInv, NEW u, NEW to, NEW m, Handled(u, to, m)
  PROVE  /\ fd' \in [Sn -> Seq(Nat)] /\ log' \in Nat /\ heard' \in [Sn -> Nat] /\ log' \in {log, log + 1}
         /\ \A v \in Sn : heard'[v] = IF Takes(v) THEN heard[v] ELSE log
         /\ \A v \in Sn : Ascending(fd'[v], log') /\ heard'[v] <= log'
         /\ \A v \in Sn : Publics(fd'[v]) = IF m # 0 /\ v \in to /\ Len(fd[v]) < PipeMax
                                            THEN Publics(fd[v]) \cup {m} ELSE Publics(fd[v])
<1>0. /\ m \in {0, log + 1} /\ log' = (IF m = 0 THEN log ELSE log + 1) /\ log \in Nat /\ fd \in [Sn -> Seq(Nat)]
      /\ fd' = [v \in Sn |-> IF v \in to /\ Len(fd[v]) < PipeMax THEN Append(fd[v], m) ELSE fd[v]]
      /\ heard' = [v \in Sn |-> IF Chat!Member(v) THEN heard[v] ELSE log]
      /\ heard \in [Sn -> Nat] /\ (\A v \in Sn : Ascending(fd[v], log) /\ heard[v] <= log)
  BY DEF Handled, Does, Writes, ChatInv, ChatType, PipeInv
<1>1. \A v \in Sn : Chat!Member(v) <=> Takes(v)
  BY SnIs DEF Chat!Member, Takes, Sn, ChatInv, ChatType
<1>2. log' \in Nat /\ log' \in {log, log + 1} /\ log <= log'
  BY <1>0
<1>3. heard' \in [Sn -> Nat] /\ \A v \in Sn : heard'[v] = IF Takes(v) THEN heard[v] ELSE log
  BY <1>0, <1>1
<1>4. \A v \in Sn : heard'[v] <= log'
  <2> SUFFICES ASSUME NEW v \in Sn  PROVE heard'[v] <= log'
    OBVIOUS
  <2>1. heard'[v] \in {heard[v], log} /\ heard[v] \in Nat /\ heard[v] <= log
    BY <1>0, <1>3
  <2> QED  BY <2>1, <1>0, <1>2
<1>5. ASSUME NEW v \in Sn
      PROVE  /\ Ascending(fd'[v], log')
             /\ Publics(fd'[v]) = IF m # 0 /\ v \in to /\ Len(fd[v]) < PipeMax
                                  THEN Publics(fd[v]) \cup {m} ELSE Publics(fd[v])
  <2>1. CASE v \in to /\ Len(fd[v]) < PipeMax
    <3>1. fd'[v] = Append(fd[v], m)
      BY <1>0, <2>1
    <3>2. /\ Ascending(Append(fd[v], m), IF m = 0 THEN log ELSE log + 1)
          /\ Publics(Append(fd[v], m)) = IF m = 0 THEN Publics(fd[v]) ELSE Publics(fd[v]) \cup {m}
      <4>1. PICK pipe : pipe = fd[v]
        OBVIOUS
      <4>2. Ascending(pipe, log) /\ (m = 0 \/ m = log + 1)
        BY <1>0, <4>1
      <4>3. /\ Ascending(Append(pipe, m), IF m = 0 THEN log ELSE log + 1)
            /\ Publics(Append(pipe, m)) = IF m = 0 THEN Publics(pipe) ELSE Publics(pipe) \cup {m}
        BY <4>2, PipeAppend
      <4> QED  BY <4>1, <4>3
    <3> QED  BY <3>1, <3>2, <2>1, <1>0
  <2>2. CASE ~(v \in to /\ Len(fd[v]) < PipeMax)
    <3>1. fd'[v] = fd[v] /\ Ascending(fd[v], log)
      BY <1>0, <2>2
    <3>2. Ascending(fd[v], log')
      <4>1. \A k \in 1 .. Len(fd[v]) : fd[v][k] \in Nat /\ fd[v][k] <= log
        BY <3>1 DEF Ascending
      <4>2. \A k \in 1 .. Len(fd[v]) : fd[v][k] <= log'
        BY <4>1, <1>0, <1>2
      <4> QED  BY <3>1, <4>2, <1>2 DEF Ascending
    <3> QED  BY <3>1, <3>2, <2>2
  <2> QED  BY <2>1, <2>2
<1>6. fd' \in [Sn -> Seq(Nat)]
  <2>1. fd' = [v \in Sn |-> fd'[v]]
    BY <1>0
  <2>2. \A v \in Sn : fd'[v] \in Seq(Nat)
    BY <1>5 DEF Ascending
  <2> QED  BY <2>1, <2>2
<1> QED  BY <1>2, <1>3, <1>4, <1>5, <1>6

LEMMA HandledKeeps == ASSUME ChatInv, NEW u, NEW to, NEW m, Handled(u, to, m)  PROVE ChatInv'
<1>0. /\ fd_msg' = fd_msg \/ (fd_msg # <<>> /\ fd_msg' = Tail(fd_msg))
      /\ UNCHANGED <<registers, main, connect_sn, fd_max, fd_stat, recv, max_sn>>
  BY DEF Handled, Does, Writes
<1>1. \A v : Fresh(v)' = Fresh(v) /\ Told(v)' = Told(v)
  BY <1>0 DEF Fresh, Told
<1>2. /\ fd' \in [Sn -> Seq(Nat)] /\ log' \in Nat /\ heard' \in [Sn -> Nat] /\ log' \in {log, log + 1}
      /\ \A v \in Sn : heard'[v] = IF Takes(v) THEN heard[v] ELSE log
      /\ \A v \in Sn : Ascending(fd'[v], log') /\ heard'[v] <= log'
      /\ \A v \in Sn : Publics(fd'[v]) = IF m # 0 /\ v \in to /\ Len(fd[v]) < PipeMax
                                         THEN Publics(fd[v]) \cup {m} ELSE Publics(fd[v])
  BY HandledPipes
<1>3. stat' \in [Sn -> Stats] /\ quit' \subseteq Sn
  BY DEF Handled, Does, Writes, ChatInv, ChatType, Stats
<1> DEFINE M == [sn : Sn, line : Lines]
<1>3a. fd_msg \in Seq(M)
  BY DEF ChatInv, ChatType
<1> HIDE DEF M
<1>4. fd_msg' \in Seq(M) /\ \A k \in 1 .. Len(fd_msg') : \E j \in 1 .. Len(fd_msg) : fd_msg'[k] = fd_msg[j]
  <2>1. CASE fd_msg' = fd_msg
    BY <1>3a, <2>1
  <2>2. CASE fd_msg # <<>> /\ fd_msg' = Tail(fd_msg)
    <3>1. /\ fd_msg' \in Seq(M) /\ Len(fd_msg') = Len(fd_msg) - 1 /\ Len(fd_msg) \in Nat
          /\ \A k \in 1 .. Len(fd_msg') : fd_msg'[k] = fd_msg[k + 1]
      BY <1>3a, <2>2
    <3>2. \A k \in 1 .. Len(fd_msg') : k + 1 \in 1 .. Len(fd_msg)
      BY <3>1
    <3> QED  BY <3>1, <3>2
  <2> QED  BY <1>0, <2>1, <2>2
<1>5. /\ NameInv' /\ lagged' \in BOOLEAN /\ DOMAIN nickname' = 0 .. MAX_CONN_NUM
      /\ nickname' = [v \in 0 .. MAX_CONN_NUM |-> nickname'[v]]
  BY HandledNames
<1>6. ChatType'
  <2>1. fd_msg' \in Seq([sn : Sn, line : Lines])
    BY <1>4 DEF M
  <2> QED  BY <1>0, <1>2, <1>3, <2>1, <1>5 DEF ChatInv, ChatType
<1>7. NumberInv'
  BY <1>0 DEF ChatInv, NumberInv
<1>8. \A v \in Sn : v \in to /\ m # 0 => Takes(v)'
  BY <1>0 DEF Handled, Does, Writes, Takes
<1>9. \A v \in Sn : Publics(fd'[v]) # {} => Publics(fd[v]) # {} \/ Takes(v)'
  BY <1>2, <1>8
<1>10. \A v \in Sn : Fresh(v) \/ Told(v) => ~Takes(v)'
  <2>1. \A v \in Sn : Fresh(v) \/ Told(v) => stat[v] \in {"EMPTY", "ENDED"}
    BY DEF ChatInv, FreshInv, ToldInv
  <2>2. \A v \in Sn : stat[v] \in {"EMPTY", "ENDED"} => stat'[v] # "NORMAL"
    BY DEF Handled, Does, Writes, ChatInv, ChatType
  <2> QED  BY <2>1, <2>2 DEF Takes
<1>11. \A v \in Sn : Fresh(v) => stat'[v] = stat[v]
  <2>1. \A v \in Sn : Fresh(v) => stat[v] = "EMPTY"
    BY DEF ChatInv, FreshInv
  <2> QED  BY <2>1 DEF Handled, Does, Writes, ChatInv, ChatType
<1>12. \A v \in Sn : v \in quit' => \/ v \in quit
                                    \/ /\ ~Fresh(v) /\ stat'[v] = "ENDED"
                                       /\ registers => stat[v] \in {"ACCEPTED", "NORMAL"}
  BY DEF Handled, Does, Writes, ChatInv, ChatType
<1>13. FreshInv'
  <2>1. ASSUME NEW v \in Sn, Fresh(v)
        PROVE  stat'[v] = "EMPTY" /\ recv'[v] = "no" /\ Publics(fd'[v]) = {} /\ v \notin quit' /\ ~Told(v)'
    <3>1. stat[v] = "EMPTY" /\ recv[v] = "no" /\ Publics(fd[v]) = {} /\ v \notin quit /\ ~Told(v)
      BY <2>1 DEF ChatInv, FreshInv
    <3> QED  BY <3>1, <2>1, <1>0, <1>1, <1>9, <1>10, <1>11, <1>12
  <2>2. \A k \in 1 .. Len(fd_msg') : ~Fresh(fd_msg'[k].sn)
    BY <1>4 DEF ChatInv, FreshInv
  <2> QED  BY <2>1, <2>2, <1>1 DEF FreshInv
<1>14. ToldInv'
  <2>1. ASSUME NEW v \in Sn, Told(v)
        PROVE  stat'[v] \in {"EMPTY", "ENDED"} /\ Publics(fd'[v]) = {} /\ (registers => v \notin quit')
    <3>1. stat[v] \in {"EMPTY", "ENDED"} /\ Publics(fd[v]) = {} /\ (registers => v \notin quit)
      BY <2>1 DEF ChatInv, ToldInv
    <3>2. stat'[v] \in {"EMPTY", "ENDED"}
      BY <3>1 DEF Handled, Does, Writes, ChatInv, ChatType
    <3> QED  BY <3>1, <3>2, <2>1, <1>9, <1>10, <1>12
  <2> QED  BY <2>1, <1>0, <1>1 DEF ToldInv
<1>15. ASSUME NEW v \in Sn, Takes(v)', recv[v] = "on", v \notin missed'
       PROVE  Publics(fd'[v]) = heard'[v] + 1 .. log'
  <2>0. log \in Nat /\ heard[v] \in Nat /\ heard[v] <= log /\ log + 1 .. log = {}
    BY DEF ChatInv, ChatType, PipeInv
  <2>1. Publics(fd[v]) = heard'[v] + 1 .. log
    <3>1. CASE Takes(v)
      <4>1. v \notin missed
        BY <1>15 DEF Handled, Does, Writes
      <4> QED  BY <3>1, <4>1, <1>2, <1>15 DEF ChatInv, PipeInv
    <3>2. CASE ~Takes(v)
      <4>1. stat[v] # "ENDED"
        BY <1>15, <1>10 DEF Handled, Does, Writes, ChatInv, ChatType, Takes
      <4>2. Publics(fd[v]) = {}
        BY <3>2, <4>1 DEF ChatInv, PipeInv
      <4> QED  BY <3>2, <4>2, <2>0, <1>2
    <3> QED  BY <3>1, <3>2
  <2>2. CASE m = 0
    <3>1. log' = log /\ Publics(fd'[v]) = Publics(fd[v])
      BY <2>2, <1>2 DEF Handled, Does, Writes
    <3> QED  BY <3>1, <2>1
  <2>3. CASE m # 0
    <3>1. v \in to /\ log' = log + 1 /\ m = log + 1
      BY <2>3, <1>0, <1>15 DEF Handled, Does, Writes, Takes
    <3>2. ~(Len(fd[v]) >= PipeMax)
      BY <2>3, <3>1, <1>15 DEF Handled, Does, Writes
    <3>3. Len(fd[v]) < PipeMax
      <4>1. Len(fd[v]) \in Nat
        BY DEF ChatInv, ChatType
      <4> QED  BY <3>2, <4>1, Sizes
    <3>4. Publics(fd'[v]) = Publics(fd[v]) \cup {log + 1}
      BY <2>3, <3>1, <3>3, <1>2
    <3>5. heard'[v] \in Nat /\ heard'[v] <= log
      <4>1. heard'[v] \in {heard[v], log}
        BY <1>2
      <4> QED  BY <4>1, <2>0
    <3>6. (heard'[v] + 1 .. log) \cup {log + 1} = heard'[v] + 1 .. log + 1
      BY <3>5, <2>0
    <3> QED  BY <3>1, <3>4, <3>6, <2>1
  <2> QED  BY <2>2, <2>3
<1>16. \A v \in Sn : Publics(fd'[v]) # {} => Takes(v)' \/ stat'[v] = "ENDED"
  <2> SUFFICES ASSUME NEW v \in Sn, Publics(fd[v]) # {}  PROVE Takes(v)' \/ stat'[v] = "ENDED"
    BY <1>9
  <2>1. Takes(v) \/ stat[v] = "ENDED"
    BY DEF ChatInv, PipeInv
  <2> QED  BY <2>1, <1>0 DEF Handled, Does, Writes, ChatInv, ChatType, Takes
<1>17. registers => \A v \in quit' : stat'[v] = "ENDED"
  <2>1. registers => \A v \in quit : v \in Sn /\ stat[v] = "ENDED"
    BY DEF ChatInv, ChatType, PipeInv
  <2>2. \A v \in Sn : stat[v] = "ENDED" => stat'[v] = "ENDED"
    BY DEF Handled, Does, Writes, ChatInv, ChatType
  <2>3. quit' \subseteq Sn
    BY <1>3
  <2> QED  BY <2>1, <2>2, <2>3, <1>12
<1>18. PipeInv'
  BY <1>0, <1>2, <1>15, <1>16, <1>17 DEF PipeInv
<1> QED  BY <1>5, <1>6, <1>7, <1>13, <1>14, <1>18 DEF ChatInv

\* Nothing is written.
LEMMA SilentSends ==
  ASSUME ChatType, Chat!Silent
  PROVE  fd' = [v \in Sn |-> IF v \in {} /\ Len(fd[v]) < PipeMax THEN Append(fd[v], 0) ELSE fd[v]]
         /\ missed' = missed \cup {v \in {} : 0 # 0 /\ Len(fd[v]) >= PipeMax} /\ log' = log
BY DEF Chat!Silent, ChatType

LEMMA WritesSilent == ASSUME ChatType, Chat!Silent  PROVE Writes({}, 0)
BY SilentSends DEF Writes

LEMMA WritesReply == ASSUME ChatType, NEW u, Chat!Reply(u)  PROVE Writes({u}, 0)
BY SnIs DEF Writes, Chat!Reply, Chat!Sends

LEMMA WritesPrivate == ASSUME ChatType, NEW to, Chat!Private(to)  PROVE Writes(to, 0)
BY SnIs DEF Writes, Chat!Private, Chat!Sends

LEMMA WritesPublic ==
  ASSUME ChatType, max_sn' = max_sn, Chat!Public(Chat!Everyone(stat'))
  PROVE  \E to : Writes(to, log + 1)
<1> DEFINE to == Chat!Everyone(stat')
<1>1. to = {v \in Sn : v <= max_sn /\ stat'[v] = "NORMAL"}
  BY SnIs DEF Chat!Everyone
<1>2. Chat!Sends(to, log + 1) /\ log' = log + 1
  BY DEF Chat!Public
<1>3. log + 1 # 0
  BY DEF ChatType
<1> HIDE DEF to
<1>4. Writes(to, log + 1)
  BY <1>1, <1>2, <1>3, SnIs DEF Writes, Chat!Sends
<1> QED  BY <1>4

LEMMA TalksHandled ==
  ASSUME ChatType, max_sn' = max_sn, NEW u, NEW line, Chat!Talks(u, line)
  PROVE  Does(u) /\ \E to, m : Writes(to, m)
<1>1. stat' = stat /\ quit' = quit /\ nickname' = nickname /\ lagged' = lagged
  BY DEF Chat!Talks
<1>2. Does(u)
  BY <1>1 DEF Does
<1>3. \E to : Chat!Private(to) \/ Chat!Public(Chat!Everyone(stat'))
  BY <1>1 DEF Chat!Talks
<1>4. \E to, m : Writes(to, m)
  BY <1>3, WritesPrivate, WritesPublic
<1> QED  BY <1>2, <1>4

LEMMA QuitsHandled ==
  ASSUME ChatType, NEW u \in Sn, ~Fresh(u), Chat!Quits(u),
         registers => stat[u] \in {"ACCEPTED", "NORMAL"}
  PROVE  Does(u) /\ \E to, m : Writes(to, m)
<1>1. Does(u)
  BY DEF Does, Chat!Quits, Chat!Ends
<1>2. Writes({}, 0)
  BY WritesSilent DEF Chat!Quits
<1> QED  BY <1>1, <1>2

LEMMA AnsweredHandled ==
  ASSUME ChatType, NEW u, Chat!Answered(u)
  PROVE  Does(u) /\ \E to, m : Writes(to, m)
<1>1. Does(u)
  BY DEF Does, Chat!Answered
<1>2. Writes({u}, 0)
  BY WritesReply DEF Chat!Answered
<1> QED  BY <1>1, <1>2

LEMMA IgnoredHandled ==
  ASSUME ChatType, NEW u, Chat!Ignored
  PROVE  Does(u) /\ \E to, m : Writes(to, m)
<1>1. Does(u)
  BY DEF Does, Chat!Ignored
<1>2. Writes({}, 0)
  BY WritesSilent DEF Chat!Ignored
<1> QED  BY <1>1, <1>2

LEMMA RegistersHandled ==
  ASSUME ChatType, max_sn' = max_sn, NEW u \in Sn, stat[u] \in {"ACCEPTED", "NORMAL"}, NEW name, Chat!Registers(u, name)
  PROVE  Does(u) /\ \E to, m : Writes(to, m)
<1>1. CASE Chat!Answered(u)
  BY <1>1, AnsweredHandled
<1>2. CASE /\ name # "Anonymous" /\ ~Chat!Occupied(name)
           /\ Chat!TakesName(u, name)
           /\ stat' = [stat EXCEPT ![u] = "NORMAL"]
           /\ Chat!Public(Chat!Everyone(stat'))
  <2>1. \E to, m : Writes(to, m)
    BY <1>2, WritesPublic
  <2>2. /\ nickname' = [nickname EXCEPT ![u] = name] /\ lagged' = (lagged \/ u > max_sn) /\ quit' = quit
        /\ \A v \in 0 .. max_sn : nickname[v] # name
    BY <1>2 DEF Chat!TakesName, Chat!Occupied
  <2>3. u \in DOMAIN nickname
    BY SnIs DEF ChatType, Sn
  <2>4. nickname'[u] # "Anonymous"
    BY <1>2, <2>2, <2>3 DEF ChatType
  <2>5. Does(u)
    BY <1>2, <2>2, <2>4 DEF Does
  <2> QED  BY <2>1, <2>5
<1> QED  BY <1>1, <1>2 DEF Chat!Registers

LEMMA RenamesHandled ==
  ASSUME ChatType, ~registers, NEW u \in Sn, NEW name, Chat!Renames(u, name)
  PROVE  Does(u) /\ \E to, m : Writes(to, m)
<1>1. CASE Chat!Answered(u)
  BY <1>1, AnsweredHandled
<1>2. CASE ~Chat!Occupied(name) /\ Chat!TakesName(u, name) /\ Chat!Reply(u) /\ UNCHANGED stat
  <2>1. Writes({u}, 0)
    BY <1>2, WritesReply
  <2>2. /\ nickname' = [nickname EXCEPT ![u] = name] /\ lagged' = (lagged \/ u > max_sn) /\ quit' = quit
        /\ \A v \in 0 .. max_sn : nickname[v] # name
    BY <1>2 DEF Chat!TakesName, Chat!Occupied
  <2>3. Does(u)
    BY <1>2, <2>2 DEF Does
  <2> QED  BY <2>1, <2>3
<1> QED  BY <1>1, <1>2 DEF Chat!Renames

LEMMA HandleLineStep == ASSUME ChatInv, Chat!HandleLine  PROVE ChatInv'
<1> DEFINE u == Head(fd_msg).sn
           line == Head(fd_msg).line
<1>0. /\ fd_msg # <<>> /\ fd_msg' = Tail(fd_msg)
      /\ \/ registers /\ Chat!HandleRegistered(u, line)
         \/ ~registers /\ Chat!HandleAnonymous(u, line)
      /\ heard' = [v \in Sn |-> IF Chat!Member(v) THEN heard[v] ELSE log]
      /\ UNCHANGED <<registers, main, connect_sn, fd_max, fd_stat, recv, max_sn>>
  BY SnIs DEF Chat!HandleLine, Chat!Joins, Chat!accepting
<1>1. ChatType
  BY DEF ChatInv
<1>2. 1 \in 1 .. Len(fd_msg) /\ Head(fd_msg) = fd_msg[1]
  <2> DEFINE M == [sn : Sn, line : Lines]
  <2>1. fd_msg \in Seq(M)
    BY <1>1 DEF ChatType
  <2> HIDE DEF M
  <2> QED  BY <2>1, <1>0
<1>3. u \in Sn /\ ~Fresh(u)
  BY <1>1, <1>2, MessageFrom DEF ChatInv, FreshInv
<1> HIDE DEF u, line
<1>4. max_sn' = max_sn
  BY <1>0
<1>5. Does(u) /\ \E to, m : Writes(to, m)
  <2>1. CASE registers /\ Chat!HandleRegistered(u, line)
    BY <2>1, <1>1, <1>3, <1>4, IgnoredHandled, AnsweredHandled, TalksHandled, QuitsHandled, RegistersHandled
       DEF Chat!HandleRegistered
  <2>2. CASE ~registers /\ Chat!HandleAnonymous(u, line)
    BY <2>2, <1>1, <1>3, <1>4, IgnoredHandled, TalksHandled, QuitsHandled, RenamesHandled
       DEF Chat!HandleAnonymous
  <2> QED  BY <1>0, <2>1, <2>2
<1>6. PICK to, m : Writes(to, m)
  BY <1>5
<1>7. Handled(u, to, m)
  BY <1>0, <1>5, <1>6 DEF Handled
<1> QED  BY <1>7, HandledKeeps

LEMMA IdleStep == ASSUME ChatInv, Chat!NoMoreLines \/ Chat!NoCommand  PROVE ChatInv'
<1>0. /\ Chat!Ignored /\ fd_msg' = fd_msg
      /\ heard' = [v \in Sn |-> IF Chat!Member(v) THEN heard[v] ELSE log]
      /\ UNCHANGED <<registers, main, connect_sn, fd_max, fd_stat, recv, max_sn>>
  BY SnIs DEF Chat!NoMoreLines, Chat!NoCommand, Chat!Joins, Chat!accepting
<1>1. Does(0) /\ \E to, m : Writes(to, m)
  BY <1>0, IgnoredHandled DEF ChatInv
<1>2. PICK to, m : Writes(to, m)
  BY <1>1
<1>3. Handled(0, to, m)
  BY <1>0, <1>1, <1>2 DEF Handled
<1> QED  BY <1>3, HandledKeeps

LEMMA CommandStep == ASSUME ChatInv, NEW c \in Commands, Chat!Command(c)  PROVE ChatInv'
<1> DEFINE u == c.sn
<1>0. /\ \/ Chat!Member(u) /\ Chat!Ends(u) /\ Chat!Reply(u) /\ quit' = quit \cup {u}
         \/ Chat!Private({u}) /\ UNCHANGED <<stat, quit>>
         \/ Chat!Silent /\ UNCHANGED <<stat, quit>>
         \/ Chat!Public(Chat!Everyone(stat)) /\ UNCHANGED <<stat, quit>>
      /\ heard' = [v \in Sn |-> IF Chat!Member(v) THEN heard[v] ELSE log]
      /\ fd_msg' = fd_msg /\ nickname' = nickname /\ lagged' = lagged
      /\ UNCHANGED <<registers, main, connect_sn, fd_max, fd_stat, recv, max_sn>>
  BY SnIs DEF Chat!Command, Chat!Joins, Chat!accepting
<1>1. ChatType /\ max_sn' = max_sn
  BY <1>0 DEF ChatInv
<1>2. Chat!Member(u) => u \in Sn /\ stat[u] = "NORMAL" /\ ~Fresh(u)
  <2>1. Chat!Member(u) => u \in Sn /\ stat[u] = "NORMAL"
    BY <1>1, SnIs DEF Chat!Member, ChatType, Sn
  <2> QED  BY <2>1 DEF ChatInv, FreshInv
<1> HIDE DEF u
<1>3. Does(u)
  BY <1>0, <1>2 DEF Does, Chat!Ends
<1>4. \E to, m : Writes(to, m)
  <2>1. CASE Chat!Reply(u)
    BY <2>1, <1>1, WritesReply
  <2>2. CASE Chat!Private({u})
    BY <2>2, <1>1, WritesPrivate
  <2>3. CASE Chat!Silent
    BY <2>3, <1>1, WritesSilent
  <2>4. CASE Chat!Public(Chat!Everyone(stat)) /\ stat' = stat
    <3>1. Chat!Public(Chat!Everyone(stat'))
      BY <2>4
    <3> QED  BY <3>1, <1>1, WritesPublic
  <2> QED  BY <1>0, <2>1, <2>2, <2>3, <2>4
<1>5. PICK to, m : Writes(to, m)
  BY <1>4
<1>6. Handled(u, to, m)
  BY <1>0, <1>3, <1>5 DEF Handled
<1> QED  BY <1>6, HandledKeeps

LEMMA ChatStep == Next => [Chat!Next]_tvars
BY DEF Next, RunHeap, RunPaging, RunDisk, RunChat, RunShared, RunInput, RunTools, tvars

LEMMA ChatInvariant == Spec => []ChatInv
<1>1. Init => ChatInv
  BY ChatInit DEF Init
<1>2. ChatInv /\ [Next]_<<prog, hvars, pvars, dvars, tvars, kvars, ivars, lvars>> => ChatInv'
  <2> SUFFICES ASSUME ChatInv, [Chat!Next]_tvars  PROVE ChatInv'
    BY ChatStep DEF tvars
  <2>1. CASE UNCHANGED tvars
    <3>1. ChatType' /\ NumberInv'
      BY <2>1 DEF tvars, ChatInv, ChatType, NumberInv
    <3>2. NameInv' /\ PipeInv'
      BY <2>1 DEF tvars, ChatInv, NameInv, PipeInv, Takes
    <3>3. FreshInv' /\ ToldInv'
      BY <2>1 DEF tvars, ChatInv, FreshInv, ToldInv, Fresh, Told
    <3> QED  BY <3>1, <3>2, <3>3 DEF ChatInv
  <2>2. CASE Chat!Next
    <3>1. CASE \E u \in Chat!Sn : Chat!SendMessage(u) \/ \E line \in Lines : Chat!RecvLine(u, line)
      BY <3>1, SnIs, SendMessageStep, RecvLineStep
    <3>2. CASE Chat!pipe_data
      BY <3>2, DrainMaxStep, DrainStatStep, HandleLineStep, IdleStep, CommandStep DEF Chat!pipe_data
    <3> QED  BY <2>2, <3>1, <3>2, AcceptStep, ForkStep, TellMaxStep, MainEndsStep DEF Chat!Next
  <2> QED  BY <2>1, <2>2
<1> QED  BY <1>1, <1>2, PTL DEF Spec

\* socket-server-BBS-3-nickname.c and BBS-3.c: as long as nobody takes a name before
\* pipe_data knows its number, no two clients share a name and none has the
\* operator's; and with nicknames nobody takes part without one.  For every number of
\* clients, and whatever the clients and the operator type.
THEOREM NamesUnique == Spec => []NicknamesUnique
<1>1. ChatInv => NicknamesUnique
  BY SnIs DEF ChatInv, NameInv, NicknamesUnique, Chat!NicknamesUnique
<1> QED  BY <1>1, ChatInvariant, PTL

\* pipe_data: who takes part hears every public message from then on, in one order and
\* without a gap unless its pipe was full; and in the program with nicknames who has
\* quit does not come back (in BBS-3.c it may).  For every number of clients and every
\* size of the pipes.
THEOREM Conversation == Spec => []ConversationKept
<1>1. ChatInv => ConversationKept
  <2> SUFFICES ASSUME ChatInv  PROVE Chat!ConversationKept
    BY DEF ConversationKept
  <2>1. registers => \A u \in quit : stat[u] = "ENDED"
    BY DEF ChatInv, PipeInv
  <2>2. ASSUME NEW u \in Sn, Chat!Member(u), recv[u] = "on", u \notin missed
        PROVE  /\ {fd[u][k] : k \in Chat!PublicIn(fd[u])} = heard[u] + 1 .. log
               /\ \A j, k \in Chat!PublicIn(fd[u]) : j < k => fd[u][j] < fd[u][k]
    <3>1. Takes(u)
      BY <2>2, SnIs DEF Chat!Member, Takes, Sn, ChatInv, ChatType
    <3>2. Publics(fd[u]) = heard[u] + 1 .. log /\ Ascending(fd[u], log)
      BY <2>2, <3>1 DEF ChatInv, PipeInv
    <3>3. Chat!PublicIn(fd[u]) = {k \in 1 .. Len(fd[u]) : fd[u][k] # 0}
      BY DEF Chat!PublicIn, ChatInv, ChatType
    <3>4. {fd[u][k] : k \in Chat!PublicIn(fd[u])} = Publics(fd[u])
      BY <3>3 DEF Publics
    <3> QED  BY <3>2, <3>3, <3>4 DEF Ascending
  <2> QED  BY <2>1, <2>2, SnIs DEF Chat!ConversationKept
<1> QED  BY <1>1, ChatInvariant, PTL

-----------------------------------------------------------------------------
(***************************************************************************)
(* The input of the console.                                               *)
(***************************************************************************)
\* The keys by their names.
CtlKey == <<"1D", "">>
RCtlKey == <<"1D", "E0">>
ShiftKey == <<"2A", "">>
AltKey == <<"38", "">>
CapsKey == <<"3A", "">>
AKey == <<"1E", "">>
DelKey == <<"53", "E0">>

\* The console's input.  The driver's flags f agree with the keys that are down
\* when the last byte on its way has been read.
Agrees(f) ==
  /\ f \ {"CAPSLOCK"} \subseteq Input!Held
  /\ "CAPSLOCK" \in f <=> caps
  /\ ~doubled => Input!Held \subseteq f

\* A byte takes the driver's flags from f to g and is decoded as it was meant.
AsMeant(f, byte, g) ==
  /\ g = Input!NewShift(f, byte)
  /\ ~doubled => Input!kbd_proc_data(f, byte) = byte.means
  /\ Input!Reboots(f, byte) => asked

\* The driver on the bytes that are on their way: H[i] are its flags when it comes
\* to the i-th of them.
Decodes(H) ==
  /\ H[1] = shift
  /\ \A i \in 1 .. Len(kbd) : AsMeant(H[i], kbd[i], H[i + 1])
  /\ Agrees(H[Len(kbd) + 1])

Chars == {"a", "A", "^A", "DEL", "NO", "s", "127", "BACK"}
KbdBytes == [code : {"1D", "2A", "38", "3A", "1E", "53", "E0"}, up : {0, 1}, means : Chars]
ComBytes == [c : Chars, means : Chars]

KeysInv ==
  /\ kbd \in Seq(KbdBytes) /\ held \subseteq Input!Keys
  /\ \E H : Decodes(H)
  /\ ~doubled => ~(CtlKey \in held /\ RCtlKey \in held)
  /\ rebooted => asked

\* The ring holds what is waiting, one slot for each.
RingInv ==
  /\ cons = [buf |-> cons.buf, rpos |-> cons.rpos, wpos |-> cons.wpos]
  /\ DOMAIN cons.buf = 0 .. CONSBUFSIZE - 1
  /\ cons.rpos \in 0 .. CONSBUFSIZE - 1 /\ cons.wpos \in 0 .. CONSBUFSIZE - 1
  /\ waiting \in Seq(Chars)
  /\ com \in Seq(ComBytes)
  /\ \A i \in 1 .. Len(com) : com[i].means = Input!serial_proc_data(com[i].c) /\ com[i].means # "NO"
  /\ ~lost /\ ~doubled =>
       /\ Len(waiting) = Input!Around(cons.wpos + CONSBUFSIZE - cons.rpos)
       /\ \A i \in 1 .. Len(waiting) : cons.buf[Input!Around(cons.rpos + i - 1)] = waiting[i]

InputInv == KeysInv /\ RingInv

LEMMA KeysDiffer ==
  /\ CtlKey # RCtlKey /\ CtlKey # ShiftKey /\ CtlKey # AltKey /\ CtlKey # CapsKey /\ CtlKey # AKey /\ CtlKey # DelKey
  /\ RCtlKey # ShiftKey /\ RCtlKey # AltKey /\ RCtlKey # CapsKey /\ RCtlKey # AKey /\ RCtlKey # DelKey
  /\ ShiftKey # AltKey /\ ShiftKey # CapsKey /\ ShiftKey # AKey /\ ShiftKey # DelKey
  /\ AltKey # CapsKey /\ AltKey # AKey /\ AltKey # DelKey
  /\ CapsKey # AKey /\ CapsKey # DelKey
  /\ AKey # DelKey
BY DEF CtlKey, RCtlKey, ShiftKey, AltKey, CapsKey, AKey, DelKey

\* What the tables say of each key.
LEMMA KeyTables ==
  /\ Input!Keys = {CtlKey, RCtlKey, ShiftKey, AltKey, CapsKey, AKey, DelKey}
  /\ \A k : /\ Input!shiftcode(k) = IF k \in {CtlKey, RCtlKey} THEN {"CTL"}
                                    ELSE IF k = ShiftKey THEN {"SHIFT"}
                                    ELSE IF k = AltKey THEN {"ALT"} ELSE {}
            /\ Input!togglecode(k) = IF k = CapsKey THEN {"CAPSLOCK"} ELSE {}
            /\ Input!normalmap(k) = IF k = AKey THEN "a" ELSE IF k = DelKey THEN "DEL" ELSE "NO"
            /\ Input!shiftmap(k) = IF k = AKey THEN "A" ELSE IF k = DelKey THEN "DEL" ELSE "NO"
            /\ Input!ctlmap(k) = IF k = AKey THEN "^A" ELSE IF k = DelKey THEN "DEL" ELSE "NO"
<1>1. Input!Keys = {CtlKey, RCtlKey, ShiftKey, AltKey, CapsKey, AKey, DelKey}
  BY DEF Input!Keys, CtlKey, RCtlKey, ShiftKey, AltKey, CapsKey, AKey, DelKey
<1>2. ASSUME NEW k  PROVE Input!shiftcode(k) = IF k \in {CtlKey, RCtlKey} THEN {"CTL"}
                                    ELSE IF k = ShiftKey THEN {"SHIFT"}
                                    ELSE IF k = AltKey THEN {"ALT"} ELSE {}
  BY DEF Input!shiftcode, CtlKey, RCtlKey, ShiftKey, AltKey
<1>3. ASSUME NEW k  PROVE Input!togglecode(k) = IF k = CapsKey THEN {"CAPSLOCK"} ELSE {}
  BY DEF Input!togglecode, CapsKey
<1>4. ASSUME NEW k  PROVE Input!normalmap(k) = IF k = AKey THEN "a" ELSE IF k = DelKey THEN "DEL" ELSE "NO"
  BY DEF Input!normalmap, AKey, DelKey
<1>5. ASSUME NEW k  PROVE Input!shiftmap(k) = IF k = AKey THEN "A" ELSE IF k = DelKey THEN "DEL" ELSE "NO"
  BY <1>4 DEF Input!shiftmap, AKey
<1>6. ASSUME NEW k  PROVE Input!ctlmap(k) = IF k = AKey THEN "^A" ELSE IF k = DelKey THEN "DEL" ELSE "NO"
  BY <1>4 DEF Input!ctlmap, AKey
<1> QED  BY <1>1, <1>2, <1>3, <1>4, <1>5, <1>6

\* The flags of a set of keys.
HeldOf(S) == UNION {Input!shiftcode(k) : k \in S}

LEMMA HeldFlags ==
  ASSUME NEW S
  PROVE  /\ "CTL" \in HeldOf(S) <=> (CtlKey \in S \/ RCtlKey \in S)
         /\ "SHIFT" \in HeldOf(S) <=> ShiftKey \in S
         /\ "ALT" \in HeldOf(S) <=> AltKey \in S
         /\ HeldOf(S) \subseteq {"CTL", "SHIFT", "ALT"}
<1>1. \A x : x \in HeldOf(S) <=> \E k \in S : x \in Input!shiftcode(k)
  BY DEF HeldOf
<1>2. "CTL" \in HeldOf(S) <=> (CtlKey \in S \/ RCtlKey \in S)
  BY <1>1, KeyTables
<1>3. "SHIFT" \in HeldOf(S) <=> ShiftKey \in S
  BY <1>1, KeyTables, KeysDiffer
<1>4. "ALT" \in HeldOf(S) <=> AltKey \in S
  BY <1>1, KeyTables, KeysDiffer
<1>5. HeldOf(S) \subseteq {"CTL", "SHIFT", "ALT"}
  BY <1>1, KeyTables
<1> QED  BY <1>2, <1>3, <1>4, <1>5

\* No flag without its key, and no key without its flag.
Within(f, S) ==
  /\ f \subseteq {"CTL", "SHIFT", "ALT", "CAPSLOCK"}
  /\ "CTL" \in f => CtlKey \in S \/ RCtlKey \in S
  /\ "SHIFT" \in f => ShiftKey \in S
  /\ "ALT" \in f => AltKey \in S

Covers(f, S) ==
  /\ CtlKey \in S \/ RCtlKey \in S => "CTL" \in f
  /\ ShiftKey \in S => "SHIFT" \in f
  /\ AltKey \in S => "ALT" \in f

LEMMA FlagsAre ==
  ASSUME NEW f, NEW S
  PROVE  /\ f \ {"CAPSLOCK"} \subseteq HeldOf(S) <=> Within(f, S)
         /\ HeldOf(S) \subseteq f <=> Covers(f, S)
<1>1. f \ {"CAPSLOCK"} \subseteq HeldOf(S) <=> Within(f, S)
  <2>1. ASSUME f \ {"CAPSLOCK"} \subseteq HeldOf(S)  PROVE Within(f, S)
    BY <2>1, HeldFlags DEF Within
  <2>2. ASSUME Within(f, S)  PROVE f \ {"CAPSLOCK"} \subseteq HeldOf(S)
    BY <2>2, HeldFlags DEF Within
  <2> QED  BY <2>1, <2>2
<1>2. HeldOf(S) \subseteq f <=> Covers(f, S)
  <2>1. ASSUME HeldOf(S) \subseteq f  PROVE Covers(f, S)
    BY <2>1, HeldFlags DEF Covers
  <2>2. ASSUME Covers(f, S)  PROVE HeldOf(S) \subseteq f
    BY <2>2, HeldFlags DEF Covers
  <2> QED  BY <2>1, <2>2
<1> QED  BY <1>1, <1>2

LEMMA AgreesIs ==
  ASSUME NEW f
  PROVE  /\ Agrees(f) <=> /\ Within(f, held)
                          /\ "CAPSLOCK" \in f <=> caps
                          /\ ~doubled => Covers(f, held)
         /\ Agrees(f)' <=> /\ Within(f, held')
                           /\ "CAPSLOCK" \in f <=> caps'
                           /\ ~doubled' => Covers(f, held')
<1>1. Input!Held = HeldOf(held) /\ Input!Held' = HeldOf(held')
  BY DEF Input!Held, HeldOf
<1> QED  BY <1>1, FlagsAre DEF Agrees

\* The press of a key.
LEMMA PressedFlags ==
  ASSUME NEW f, NEW S, NEW key \in Input!Keys, Within(f, S)
  PROVE  /\ Input!Pressed(f, key) = Input!Pressed(f \cup {"E0ESC"}, key)
         /\ Within(Input!Pressed(f, key), S \cup {key})
         /\ key = CapsKey => ("CAPSLOCK" \in Input!Pressed(f, key) <=> "CAPSLOCK" \notin f)
         /\ key # CapsKey => ("CAPSLOCK" \in Input!Pressed(f, key) <=> "CAPSLOCK" \in f)
         /\ Covers(f, S) => Covers(Input!Pressed(f, key), S \cup {key})
         /\ key \in {AKey, DelKey} => Input!Pressed(f, key) = f
<1> DEFINE g == Input!Pressed(f, key)
<1>1. \A x : x \in g <=>
        IF x \in {"CTL", "SHIFT", "ALT"} THEN x \in f \/ x \in Input!shiftcode(key)
        ELSE IF x = "CAPSLOCK" THEN (IF key = CapsKey THEN x \notin f ELSE x \in f) ELSE FALSE
  BY KeyTables, KeysDiffer DEF Input!Pressed, Within
<1>2. Input!Pressed(f, key) = Input!Pressed(f \cup {"E0ESC"}, key)
  BY DEF Input!Pressed, Within
<1> HIDE DEF g
<1>3. Within(g, S \cup {key})
  BY <1>1, KeyTables DEF Within
<1>4. /\ key = CapsKey => ("CAPSLOCK" \in g <=> "CAPSLOCK" \notin f)
      /\ key # CapsKey => ("CAPSLOCK" \in g <=> "CAPSLOCK" \in f)
  BY <1>1
<1>5. ASSUME Covers(f, S)  PROVE Covers(g, S \cup {key})
  BY <1>1, <1>5, KeyTables, KeysDiffer DEF Covers
<1>6. ASSUME key \in {AKey, DelKey}  PROVE g = f
  <2>1. Input!shiftcode(key) = {} /\ key # CapsKey
    BY <1>6, KeyTables, KeysDiffer
  <2>2. \A x : x \in g <=> x \in f
    BY <1>1, <2>1 DEF Within
  <2> QED  BY <2>2
<1> QED  BY <1>2, <1>3, <1>4, <1>5, <1>6 DEF g

\* The release of one, while no other key with its flag is down.
LEMMA ReleasedFlags ==
  ASSUME NEW f, NEW S, NEW key \in Input!Keys, Within(f, S)
  PROVE  /\ Input!Released(f, key) = Input!Released(f \cup {"E0ESC"}, key)
         /\ Within(Input!Released(f, key), S \ {key})
         /\ "CAPSLOCK" \in Input!Released(f, key) <=> "CAPSLOCK" \in f
         /\ Covers(f, S) /\ ~(CtlKey \in S /\ RCtlKey \in S) /\ key \in S
              => Covers(Input!Released(f, key), S \ {key})
<1> DEFINE g == Input!Released(f, key)
<1>1. \A x : x \in g <=> x \in f /\ x \notin Input!shiftcode(key)
  BY DEF Input!Released, Within
<1>2. Input!Released(f, key) = Input!Released(f \cup {"E0ESC"}, key)
  BY DEF Input!Released, Within
<1> HIDE DEF g
<1>3. Within(g, S \ {key})
  <2>1. "CTL" \in g => "CTL" \in f /\ key # CtlKey /\ key # RCtlKey
    BY <1>1, KeyTables
  <2>2. "SHIFT" \in g => "SHIFT" \in f /\ key # ShiftKey
    BY <1>1, KeyTables, KeysDiffer
  <2>3. "ALT" \in g => "ALT" \in f /\ key # AltKey
    BY <1>1, KeyTables, KeysDiffer
  <2>4. g \subseteq {"CTL", "SHIFT", "ALT", "CAPSLOCK"}
    BY <1>1 DEF Within
  <2> QED  BY <2>1, <2>2, <2>3, <2>4 DEF Within
<1>4. "CAPSLOCK" \in g <=> "CAPSLOCK" \in f
  BY <1>1, KeyTables
<1>5. ASSUME Covers(f, S), ~(CtlKey \in S /\ RCtlKey \in S), key \in S
      PROVE  Covers(g, S \ {key})
  BY <1>1, <1>5, KeyTables, KeysDiffer DEF Covers
<1> QED  BY <1>2, <1>3, <1>4, <1>5 DEF g

\* The bytes of a key, read one after the other by a driver with the flags f.
LEMMA PrefixByte ==
  ASSUME NEW f, NEW x, x.code = "E0"
  PROVE  /\ Input!NewShift(f, x) = f \cup {"E0ESC"}
         /\ Input!kbd_proc_data(f, x) = "NO" /\ ~Input!Reboots(f, x)
BY DEF Input!NewShift, Input!kbd_proc_data, Input!Reboots

LEMMA CodeByte ==
  ASSUME NEW f, NEW S, Within(f, S), NEW key \in Input!Keys, NEW h, NEW x, x.code = key[1], x.up \in {0, 1},
         h = IF key[2] = "E0" THEN f \cup {"E0ESC"} ELSE f
  PROVE  /\ Input!Key(h, x) = key
         /\ Input!NewShift(h, x) = IF x.up = 1 THEN Input!Released(f, key) ELSE Input!Pressed(f, key)
         /\ x.up = 1 => Input!kbd_proc_data(h, x) = "NO"
         /\ x.up = 0 => Input!kbd_proc_data(h, x) =
              IF key = AKey THEN IF "CTL" \in f THEN "^A"
                                 ELSE IF "SHIFT" \in f <=> "CAPSLOCK" \in f THEN "a" ELSE "A"
              ELSE IF key = DelKey THEN "DEL" ELSE "NO"
<1>1. key[1] # "E0" /\ key[2] \in {"", "E0"} /\ key = <<key[1], key[2]>>
  <2>1. ASSUME NEW a, NEW b, key = <<a, b>>, a # "E0", b \in {"", "E0"}
        PROVE  key[1] # "E0" /\ key[2] \in {"", "E0"} /\ key = <<key[1], key[2]>>
    BY <2>1
  <2>2. \E a, b : key = <<a, b>> /\ a # "E0" /\ b \in {"", "E0"}
    BY DEF Input!Keys
  <2> QED  BY <2>1, <2>2
<1>2. "E0ESC" \in h <=> key[2] = "E0"
  BY DEF Within
<1>3. Input!Key(h, x) = key
  BY <1>1, <1>2 DEF Input!Key
<1>4. h \in {f, f \cup {"E0ESC"}}
  OBVIOUS
<1>5. Input!NewShift(h, x) = IF x.up = 1 THEN Input!Released(f, key) ELSE Input!Pressed(f, key)
  <2>1. Input!Pressed(h, key) = Input!Pressed(f, key)
    BY <1>4, PressedFlags
  <2>2. Input!Released(h, key) = Input!Released(f, key)
    BY <1>4, ReleasedFlags
  <2>3. x.code # "E0"
    BY <1>1
  <2> QED  BY <1>3, <2>1, <2>2, <2>3 DEF Input!NewShift
<1>6. x.up = 1 => Input!kbd_proc_data(h, x) = "NO"
  BY DEF Input!kbd_proc_data
<1>7. ASSUME x.up = 0
      PROVE  Input!kbd_proc_data(h, x) =
              IF key = AKey THEN IF "CTL" \in f THEN "^A"
                                 ELSE IF "SHIFT" \in f <=> "CAPSLOCK" \in f THEN "a" ELSE "A"
              ELSE IF key = DelKey THEN "DEL" ELSE "NO"
  <2> DEFINE g == Input!Pressed(f, key)
             c == Input!charcode(g, key)
  <2>1. Input!kbd_proc_data(h, x) = IF "CAPSLOCK" \in g THEN Input!SwapCase(c) ELSE c
    <3>0. x.code # "E0"
      BY <1>1
    <3>1. x.up # 1
      BY <1>7
    <3>2. Input!NewShift(h, x) = g
      BY <1>5, <3>1
    <3> HIDE DEF g
    <3> QED  BY <1>3, <3>0, <3>1, <3>2 DEF Input!kbd_proc_data
  <2>2. c = IF "CTL" \in g THEN IF key = AKey THEN "^A" ELSE IF key = DelKey THEN "DEL" ELSE "NO"
            ELSE IF "SHIFT" \in g THEN IF key = AKey THEN "A" ELSE IF key = DelKey THEN "DEL" ELSE "NO"
            ELSE IF key = AKey THEN "a" ELSE IF key = DelKey THEN "DEL" ELSE "NO"
    BY KeyTables DEF Input!charcode
  <2>3. key = AKey => g = f
    <3>1. key \in {AKey, DelKey} => g = f
      BY PressedFlags
    <3> QED  BY <3>1
  <2> HIDE DEF g, c
  <2>4. CASE key = AKey
    BY <2>1, <2>2, <2>3, <2>4 DEF Input!SwapCase
  <2>5. CASE key # AKey
    BY <2>1, <2>2, <2>5 DEF Input!SwapCase
  <2> QED  BY <2>4, <2>5
<1> QED  BY <1>3, <1>5, <1>6, <1>7

\* The bytes bs lead a driver with the flags f, by way of G, to flags that agree.
Leads(G, f, bs) ==
  /\ G[1] = f
  /\ \A i \in 1 .. Len(bs) : AsMeant(G[i], bs[i], G[i + 1])
  /\ Agrees(G[Len(bs) + 1])

\* More bytes come, and lead the driver to flags that agree with the keys.
LEMMA MoreBytes ==
  ASSUME NEW H, NEW bs \in Seq(KbdBytes), NEW G, NEW f,
         kbd \in Seq(KbdBytes), Decodes(H), kbd' = kbd \o bs, shift' = shift,
         doubled => doubled', asked => asked',
         f = H[Len(kbd) + 1], Leads(G, f, bs)'
  PROVE  \E F : Decodes(F)'
<1>0. /\ G[1] = H[Len(kbd) + 1]
      /\ \A i \in 1 .. Len(bs) : AsMeant(G[i], bs[i], G[i + 1])'
      /\ Agrees(G[Len(bs) + 1])'
  BY DEF Leads
<1> PICK n : n = Len(kbd)
  OBVIOUS
<1> PICK m : m = Len(bs)
  OBVIOUS
<1> PICK F : F = [i \in 1 .. n + m + 1 |-> IF i <= n THEN H[i] ELSE G[i - n]]
  OBVIOUS
<1>1. n \in Nat /\ m \in Nat /\ Len(kbd') = n + m
  OBVIOUS
<1>2. \A i \in 1 .. n : kbd'[i] = kbd[i]
  OBVIOUS
<1>3. \A i \in n + 1 .. n + m : kbd'[i] = bs[i - n]
  OBVIOUS
<1>4. F[1] = shift'
  <2>1. H[1] = shift /\ G[1] = H[n + 1]
    BY <1>0 DEF Decodes
  <2>2. CASE n = 0
    BY <1>1, <2>1, <2>2
  <2>3. CASE n # 0
    BY <1>1, <2>1, <2>3
  <2> QED  BY <2>2, <2>3
<1>5. ASSUME NEW i \in 1 .. n + m  PROVE AsMeant(F[i], kbd[i], F[i + 1])'
  <2>1. CASE i <= n
    <3>0. i \in 1 .. Len(kbd)
      BY <1>1, <2>1
    <3>1. AsMeant(H[i], kbd[i], H[i + 1])
      BY <3>0 DEF Decodes
    <3>2. F[i] = H[i] /\ F[i + 1] = H[i + 1]
      <4>1. F[i] = H[i]
        BY <1>1, <2>1
      <4>2. CASE i < n
        BY <1>1, <4>1, <4>2
      <4>3. CASE i = n
        <5>1. F[i + 1] = G[1]
          BY <1>1, <4>3
        <5> QED  BY <1>0, <4>1, <4>3, <5>1
      <4> QED  BY <1>1, <2>1, <4>2, <4>3
    <3>3. kbd'[i] = kbd[i]
      BY <1>1, <1>2, <2>1
    <3> QED  BY <3>1, <3>2, <3>3 DEF AsMeant
  <2>2. CASE ~(i <= n)
    <3>1. i - n \in 1 .. m /\ (i + 1) - n = (i - n) + 1
      BY <1>1, <2>2
    <3>2. AsMeant(G[i - n], bs[i - n], G[(i - n) + 1])'
      BY <1>0, <3>1
    <3>3. F[i] = G[i - n] /\ F[i + 1] = G[(i - n) + 1]
      <4>1. i \in 1 .. n + m + 1 /\ i + 1 \in 1 .. n + m + 1 /\ ~(i + 1 <= n)
        BY <1>1, <2>2
      <4>2. F[i] = G[i - n]
        BY <2>2, <4>1
      <4>3. F[i + 1] = G[(i + 1) - n]
        BY <4>1
      <4> QED  BY <3>1, <4>2, <4>3
    <3>4. kbd'[i] = bs[i - n]
      BY <1>1, <1>3, <2>2
    <3> QED  BY <3>2, <3>3, <3>4 DEF AsMeant
  <2> QED  BY <2>1, <2>2
<1>6. F[n + m + 1] = G[m + 1]
  BY <1>1
<1>7. Decodes(F)'
  <2>1. Agrees(F[Len(kbd) + 1])'
    BY <1>0, <1>1, <1>6 DEF Agrees
  <2> QED  BY <1>1, <1>4, <1>5, <2>1 DEF Decodes
<1> QED  BY <1>7

\* The bytes of a key together.
LEMMA BytesDecode ==
  ASSUME NEW f, NEW key \in Input!Keys, NEW up \in {0, 1}, NEW means \in Chars, NEW g, NEW h, NEW x,
         h = IF key[2] = "E0" THEN f \cup {"E0ESC"} ELSE f,
         x = [code |-> key[1], up |-> up, means |-> means],
         AsMeant(h, x, g)', Agrees(g)'
  PROVE  \E bs \in Seq(KbdBytes) : bs = Input!Bytes(key, up, means) /\ \E G : Leads(G, f, bs)'
<1> PICK e : e = [code |-> "E0", up |-> 1, means |-> "NO"]
  OBVIOUS
<1>1. e \in KbdBytes /\ e.code = "E0" /\ e.means = "NO"
  BY DEF KbdBytes, Chars
<1>2. x \in KbdBytes
  <2>1. \E a, b : key = <<a, b>> /\ a \in {"1D", "2A", "38", "3A", "1E", "53", "E0"}
    BY DEF Input!Keys
  <2> QED  BY <2>1 DEF KbdBytes
<1>3. CASE key[2] = "E0"
  <2> PICK bs : bs = <<e, x>>
    OBVIOUS
  <2> PICK G : G = <<f, h, g>>
    OBVIOUS
  <2>1. bs = Input!Bytes(key, up, means)
    BY <1>3 DEF Input!Bytes
  <2>2. bs \in Seq(KbdBytes) /\ Len(bs) = 2 /\ bs[1] = e /\ bs[2] = x
    BY <1>1, <1>2
  <2>3. G[1] = f /\ G[2] = h /\ G[3] = g
    OBVIOUS
  <2>4. AsMeant(f, e, h)'
    BY <1>1, <1>3, PrefixByte DEF AsMeant
  <2>5. \A i \in 1 .. Len(bs) : AsMeant(G[i], bs[i], G[i + 1])'
    <3>1. AsMeant(G[1], bs[1], G[1 + 1])'
      BY <2>2, <2>3, <2>4
    <3>2. AsMeant(G[2], bs[2], G[2 + 1])'
      BY <2>2, <2>3
    <3> SUFFICES ASSUME NEW i \in 1 .. Len(bs)  PROVE AsMeant(G[i], bs[i], G[i + 1])'
      OBVIOUS
    <3>3. i = 1 \/ i = 2
      BY <2>2
    <3> QED  BY <3>1, <3>2, <3>3
  <2>6. Agrees(G[Len(bs) + 1])'
    BY <2>2, <2>3
  <2>7. Leads(G, f, bs)'
    BY <2>3, <2>5, <2>6 DEF Leads
  <2> QED  BY <2>1, <2>2, <2>7
<1>4. CASE key[2] # "E0"
  <2> PICK bs : bs = <<x>>
    OBVIOUS
  <2> PICK G : G = <<f, g>>
    OBVIOUS
  <2>1. bs = Input!Bytes(key, up, means)
    BY <1>4 DEF Input!Bytes
  <2>2. bs \in Seq(KbdBytes) /\ Len(bs) = 1 /\ bs[1] = x
    BY <1>2
  <2>3. G[1] = f /\ G[2] = g /\ h = f
    BY <1>4
  <2>5. \A i \in 1 .. Len(bs) : AsMeant(G[i], bs[i], G[i + 1])'
    <3>1. AsMeant(G[1], bs[1], G[1 + 1])'
      BY <2>2, <2>3
    <3> SUFFICES ASSUME NEW i \in 1 .. Len(bs)  PROVE AsMeant(G[i], bs[i], G[i + 1])'
      OBVIOUS
    <3>2. i = 1
      BY <2>2
    <3> QED  BY <3>1, <3>2
  <2>6. Agrees(G[Len(bs) + 1])'
    BY <2>2, <2>3
  <2>7. Leads(G, f, bs)'
    BY <2>3, <2>5, <2>6 DEF Leads
  <2> QED  BY <2>1, <2>2, <2>7
<1> QED  BY <1>3, <1>4

LEMMA MeantIs ==
  ASSUME NEW key
  PROVE  Input!Meant(key) = IF key = DelKey THEN "DEL" ELSE IF key # AKey THEN "NO"
                            ELSE IF CtlKey \in held \/ RCtlKey \in held THEN "^A"
                            ELSE IF (ShiftKey \in held) <=> caps THEN "a" ELSE "A"
<1>1. Input!Held = HeldOf(held)
  BY DEF Input!Held, HeldOf
<1> QED  BY <1>1, HeldFlags DEF Input!Meant, DelKey, AKey

LEMMA PressKeys ==
  ASSUME KeysInv, NEW key \in Input!Keys, Input!Press(key)
  PROVE  KeysInv'
<1>1. /\ key \notin held /\ held' = held \cup {key}
      /\ caps' = IF Input!togglecode(key) = {} THEN caps ELSE ~caps
      /\ doubled' = (doubled \/ (Input!shiftcode(key) # {} /\ Input!shiftcode(key) \subseteq Input!Held))
      /\ asked' = (asked \/ (key = <<"53", "E0">> /\ {"CTL", "ALT"} \subseteq Input!Held))
      /\ kbd' = kbd \o Input!Bytes(key, 0, Input!Meant(key))
      /\ ~rebooted /\ UNCHANGED <<shift, rebooted>>
  BY DEF Input!Press
<1>2. kbd \in Seq(KbdBytes) /\ held \subseteq Input!Keys /\ (~doubled => ~(CtlKey \in held /\ RCtlKey \in held))
  BY DEF KeysInv
<1>3. PICK H : Decodes(H)
  BY DEF KeysInv
<1>4. PICK f : f = H[Len(kbd) + 1]
  OBVIOUS
<1>5. Agrees(f)
  BY <1>3, <1>4 DEF Decodes
<1>6. Within(f, held) /\ ("CAPSLOCK" \in f <=> caps) /\ (~doubled => Covers(f, held))
  BY <1>5, AgreesIs
<1>7. PICK g : g = Input!Pressed(f, key)
  OBVIOUS
<1>8. PICK h : h = IF key[2] = "E0" THEN f \cup {"E0ESC"} ELSE f
  OBVIOUS
<1>9. PICK m : m = Input!Meant(key)
  OBVIOUS
<1>10. PICK x : x = [code |-> key[1], up |-> 0, means |-> m]
  OBVIOUS
<1>11. x.code = key[1] /\ x.up = 0 /\ x.means = m
  BY <1>10
<1>12. /\ Input!NewShift(h, x) = g
       /\ Input!kbd_proc_data(h, x) =
            IF key = AKey THEN IF "CTL" \in f THEN "^A"
                               ELSE IF "SHIFT" \in f <=> "CAPSLOCK" \in f THEN "a" ELSE "A"
            ELSE IF key = DelKey THEN "DEL" ELSE "NO"
  <2>1. x.up \in {0, 1} /\ x.up # 1
    BY <1>11
  <2> QED  BY <1>6, <1>7, <1>8, <1>11, <2>1, CodeByte
<1>13. /\ Within(g, held') /\ (Covers(f, held) => Covers(g, held'))
       /\ key = CapsKey => ("CAPSLOCK" \in g <=> "CAPSLOCK" \notin f)
       /\ key # CapsKey => ("CAPSLOCK" \in g <=> "CAPSLOCK" \in f)
       /\ key \in {AKey, DelKey} => g = f
  BY <1>1, <1>6, <1>7, PressedFlags
<1>14. (doubled => doubled') /\ (asked => asked')
  BY <1>1
<1>15. "CAPSLOCK" \in g <=> caps'
  <2>1. Input!togglecode(key) = {} <=> key # CapsKey
    BY KeyTables
  <2> QED  BY <1>1, <1>6, <1>13, <2>1
<1>16. Agrees(g)'
  <2>1. ~doubled' => Covers(g, held')
    BY <1>6, <1>13, <1>14
  <2> QED  BY <1>13, <1>15, <2>1, AgreesIs
<1>17. AsMeant(h, x, g)'
  <2>1. ASSUME ~doubled'  PROVE Input!kbd_proc_data(h, x) = m
    <3>1. Covers(f, held)
      BY <1>6, <1>14, <2>1
    <3>2. /\ "CTL" \in f <=> (CtlKey \in held \/ RCtlKey \in held)
          /\ "SHIFT" \in f <=> ShiftKey \in held
      BY <1>6, <3>1 DEF Within, Covers
    <3>3. m = IF key = DelKey THEN "DEL" ELSE IF key # AKey THEN "NO"
              ELSE IF CtlKey \in held \/ RCtlKey \in held THEN "^A"
              ELSE IF (ShiftKey \in held) <=> caps THEN "a" ELSE "A"
      BY <1>9, MeantIs
    <3> QED  BY <1>6, <1>12, <3>2, <3>3, KeysDiffer
  <2>2. ASSUME Input!Reboots(h, x)  PROVE asked'
    <3>1. {"CTL", "ALT"} \subseteq g /\ Input!kbd_proc_data(h, x) = "DEL"
      BY <1>12, <2>2 DEF Input!Reboots
    <3>2. key = DelKey
      BY <1>12, <3>1
    <3>3. {"CTL", "ALT"} \subseteq f
      BY <1>13, <3>1, <3>2
    <3>4. Input!Held = HeldOf(held)
      BY DEF Input!Held, HeldOf
    <3>5. {"CTL", "ALT"} \subseteq Input!Held
      BY <1>6, <3>3, <3>4, HeldFlags DEF Within
    <3> QED  BY <1>1, <3>2, <3>5 DEF DelKey
  <2> QED  BY <1>11, <1>12, <2>1, <2>2 DEF AsMeant
<1>18. m \in Chars
  BY <1>9, MeantIs DEF Chars
<1>19. PICK bs \in Seq(KbdBytes) : bs = Input!Bytes(key, 0, m) /\ \E G : Leads(G, f, bs)'
  BY <1>8, <1>10, <1>16, <1>17, <1>18, BytesDecode
<1>20. kbd' = kbd \o bs
  BY <1>1, <1>9, <1>19
<1>21. \E F : Decodes(F)'
  BY <1>1, <1>2, <1>3, <1>4, <1>14, <1>19, <1>20, MoreBytes
<1>22. ~doubled' => ~(CtlKey \in held' /\ RCtlKey \in held')
  <2>1. Input!Held = HeldOf(held)
    BY DEF Input!Held, HeldOf
  <2>2. key \in {CtlKey, RCtlKey} => Input!shiftcode(key) = {"CTL"}
    BY KeyTables
  <2>3. CASE key \in {CtlKey, RCtlKey}
    <3>1. SUFFICES ASSUME ~doubled'  PROVE ~(CtlKey \in held' /\ RCtlKey \in held')
      OBVIOUS
    <3>2. Input!shiftcode(key) = {"CTL"} /\ ~(Input!shiftcode(key) \subseteq Input!Held)
      BY <1>1, <2>2, <2>3, <3>1
    <3>3. "CTL" \notin HeldOf(held)
      BY <2>1, <3>2
    <3>4. CtlKey \notin held /\ RCtlKey \notin held
      BY <3>3, HeldFlags
    <3> QED  BY <1>1, <3>4, KeysDiffer
  <2>4. CASE key \notin {CtlKey, RCtlKey}
    BY <1>1, <1>2, <1>14, <2>4
  <2> QED  BY <2>3, <2>4
<1>23. kbd' \in Seq(KbdBytes) /\ held' \subseteq Input!Keys
  <2>1. kbd' \in Seq(KbdBytes)
    BY <1>2, <1>19, <1>20
  <2> QED  BY <1>1, <1>2, <2>1
<1> QED  BY <1>1, <1>21, <1>22, <1>23 DEF KeysInv

LEMMA ReleaseKeys ==
  ASSUME KeysInv, NEW key \in Input!Keys, Input!Release(key)
  PROVE  KeysInv'
<1>1. /\ key \in held /\ held' = held \ {key} /\ kbd' = kbd \o Input!Bytes(key, 1, "NO")
      /\ ~rebooted /\ UNCHANGED <<shift, rebooted, caps, asked, doubled>>
  BY DEF Input!Release
<1>2. kbd \in Seq(KbdBytes) /\ held \subseteq Input!Keys /\ (~doubled => ~(CtlKey \in held /\ RCtlKey \in held))
  BY DEF KeysInv
<1>3. PICK H : Decodes(H)
  BY DEF KeysInv
<1>4. PICK f : f = H[Len(kbd) + 1]
  OBVIOUS
<1>5. Agrees(f)
  BY <1>3, <1>4 DEF Decodes
<1>6. Within(f, held) /\ ("CAPSLOCK" \in f <=> caps) /\ (~doubled => Covers(f, held))
  BY <1>5, AgreesIs
<1>7. PICK g : g = Input!Released(f, key)
  OBVIOUS
<1>8. PICK h : h = IF key[2] = "E0" THEN f \cup {"E0ESC"} ELSE f
  OBVIOUS
<1>10. PICK x : x = [code |-> key[1], up |-> 1, means |-> "NO"]
  OBVIOUS
<1>11. x.code = key[1] /\ x.up = 1 /\ x.means = "NO"
  BY <1>10
<1>12. Input!NewShift(h, x) = g /\ Input!kbd_proc_data(h, x) = "NO"
  <2>1. x.up \in {0, 1}
    BY <1>11
  <2> QED  BY <1>6, <1>7, <1>8, <1>11, <2>1, CodeByte
<1>13. /\ Within(g, held')
       /\ "CAPSLOCK" \in g <=> "CAPSLOCK" \in f
       /\ Covers(f, held) /\ ~(CtlKey \in held /\ RCtlKey \in held) => Covers(g, held')
  BY <1>1, <1>6, <1>7, ReleasedFlags
<1>16. Agrees(g)'
  <2>1. ~doubled' => Covers(g, held')
    BY <1>1, <1>2, <1>6, <1>13
  <2> QED  BY <1>1, <1>6, <1>13, <2>1, AgreesIs
<1>17. AsMeant(h, x, g)'
  <2>1. ~Input!Reboots(h, x)
    BY <1>12 DEF Input!Reboots
  <2> QED  BY <1>11, <1>12, <2>1 DEF AsMeant
<1>18. "NO" \in Chars
  BY DEF Chars
<1>19. PICK bs \in Seq(KbdBytes) : bs = Input!Bytes(key, 1, "NO") /\ \E G : Leads(G, f, bs)'
  BY <1>8, <1>10, <1>16, <1>17, <1>18, BytesDecode
<1>20. kbd' = kbd \o bs
  BY <1>1, <1>19
<1>21. \E F : Decodes(F)'
  BY <1>1, <1>2, <1>3, <1>4, <1>19, <1>20, MoreBytes
<1>23. kbd' \in Seq(KbdBytes)
  BY <1>2, <1>19, <1>20
<1> QED  BY <1>1, <1>2, <1>21, <1>23 DEF KeysInv

\* The driver reads a byte: what is left decodes as before.
LEMMA ReadKeys ==
  ASSUME KeysInv, Input!kbd_intr
  PROVE  /\ KeysInv'
         /\ kbd[1].means \in Chars
         /\ ~doubled => Input!kbd_proc_data(shift, kbd[1]) = kbd[1].means
<1>1. /\ kbd # <<>> /\ kbd' = Tail(kbd) /\ shift' = Input!NewShift(shift, kbd[1])
      /\ rebooted' = Input!Reboots(shift, kbd[1])
      /\ UNCHANGED <<held, caps, asked, doubled>>
  BY DEF Input!kbd_intr, Input!cons_intr
<1>2. kbd \in Seq(KbdBytes) /\ held \subseteq Input!Keys /\ (~doubled => ~(CtlKey \in held /\ RCtlKey \in held))
  BY DEF KeysInv
<1>3. PICK H : Decodes(H)
  BY DEF KeysInv
<1>4. PICK n : n = Len(kbd)
  OBVIOUS
<1>5. n \in Nat \ {0} /\ Len(kbd') = n - 1 /\ kbd' \in Seq(KbdBytes) /\ \A i \in 1 .. n - 1 : kbd'[i] = kbd[i + 1]
  BY <1>1, <1>2, <1>4
<1>6. PICK F : F = [i \in 1 .. n |-> H[i + 1]]
  OBVIOUS
<1>7. AsMeant(H[1], kbd[1], H[2])
  <2>1. 1 \in 1 .. Len(kbd) /\ 1 + 1 = 2
    BY <1>4, <1>5
  <2>2. AsMeant(H[1], kbd[1], H[1 + 1])
    BY <1>3, <2>1 DEF Decodes
  <2> QED  BY <2>1, <2>2
<1>8. H[1] = shift
  BY <1>3 DEF Decodes
<1>9. F[1] = shift'
  <2>1. F[1] = H[2]
    BY <1>5, <1>6
  <2> QED  BY <1>1, <1>7, <1>8, <2>1 DEF AsMeant
<1>10. ASSUME NEW i \in 1 .. n - 1  PROVE AsMeant(F[i], kbd[i], F[i + 1])'
  <2>1. i + 1 \in 1 .. Len(kbd)
    BY <1>4, <1>5
  <2>2. AsMeant(H[i + 1], kbd[i + 1], H[(i + 1) + 1])
    BY <1>3, <2>1 DEF Decodes
  <2>3. F[i] = H[i + 1] /\ F[i + 1] = H[(i + 1) + 1]
    BY <1>5, <1>6
  <2> QED  BY <1>1, <1>5, <2>2, <2>3 DEF AsMeant
<1>11. Agrees(F[Len(kbd) + 1])'
  <2>1. F[(n - 1) + 1] = H[n + 1]
    BY <1>5, <1>6
  <2>2. Agrees(H[n + 1])
    BY <1>3, <1>4 DEF Decodes
  <2>3. Input!Held' = Input!Held
    BY <1>1 DEF Input!Held
  <2> QED  BY <1>1, <1>5, <2>1, <2>2, <2>3 DEF Agrees
<1>12. Decodes(F)'
  BY <1>5, <1>9, <1>10, <1>11 DEF Decodes
<1>13. rebooted' => asked'
  BY <1>1, <1>7, <1>8 DEF AsMeant
<1>14. kbd[1].means \in Chars
  <2>1. kbd[1] \in KbdBytes
    BY <1>2, <1>4, <1>5
  <2> QED  BY <2>1 DEF KbdBytes
<1>15. ~doubled => Input!kbd_proc_data(shift, kbd[1]) = kbd[1].means
  BY <1>7, <1>8 DEF AsMeant
<1> QED  BY <1>1, <1>2, <1>5, <1>12, <1>13, <1>14, <1>15 DEF KeysInv

\* A character goes into the ring.
LEMMA PushRing ==
  ASSUME RingInv, NEW c, NEW means \in Chars, ~doubled => c = means, Input!cons_intr(c, means),
         com' \in Seq(ComBytes),
         \A i \in 1 .. Len(com') : com'[i].means = Input!serial_proc_data(com'[i].c) /\ com'[i].means # "NO"
  PROVE  RingInv'
<1>1. PICK N : N = CONSBUFSIZE
  OBVIOUS
<1>2. PICK r : r = cons.rpos
  OBVIOUS
<1>3. PICK w : w = cons.wpos
  OBVIOUS
<1>4. PICK v : v = Input!Succ(w)
  OBVIOUS
<1>5. N \in Nat \ {0} /\ r \in 0 .. N - 1 /\ w \in 0 .. N - 1
  BY <1>1, <1>2, <1>3, Sizes DEF RingInv
<1>6. v = (IF w + 1 = N THEN 0 ELSE w + 1) /\ v \in 0 .. N - 1
  BY <1>1, <1>4, <1>5 DEF Input!Succ
<1>7. /\ cons = [buf |-> cons.buf, rpos |-> r, wpos |-> w]
      /\ DOMAIN cons.buf = 0 .. N - 1 /\ waiting \in Seq(Chars)
  BY <1>1, <1>2, <1>3 DEF RingInv
<1>8. /\ cons' = IF c = "NO" THEN cons ELSE [cons EXCEPT !.buf[w] = c, !.wpos = v]
      /\ waiting' = IF means = "NO" THEN waiting ELSE Append(waiting, means)
      /\ lost' = (lost \/ (c # "NO" /\ v = r))
      /\ doubled' = doubled
  BY <1>2, <1>3, <1>4 DEF Input!cons_intr
<1>9. waiting' \in Seq(Chars)
  BY <1>7, <1>8
<1>10. CASE c = "NO"
  <2>1. cons' = cons /\ (lost' <=> lost)
    BY <1>8, <1>10
  <2>2. ~doubled => waiting' = waiting
    BY <1>8, <1>10
  <2>3. /\ cons' = [buf |-> cons'.buf, rpos |-> cons'.rpos, wpos |-> cons'.wpos]
        /\ DOMAIN cons'.buf = 0 .. CONSBUFSIZE - 1
        /\ cons'.rpos \in 0 .. CONSBUFSIZE - 1 /\ cons'.wpos \in 0 .. CONSBUFSIZE - 1
    BY <2>1 DEF RingInv
  <2>4. ~lost' /\ ~doubled' =>
       /\ Len(waiting') = Input!Around(cons'.wpos + CONSBUFSIZE - cons'.rpos)
       /\ \A i \in 1 .. Len(waiting') : cons'.buf[Input!Around(cons'.rpos + i - 1)] = waiting'[i]
    BY <1>8, <2>1, <2>2 DEF RingInv
  <2> QED  BY <1>9, <2>3, <2>4 DEF RingInv
<1>11. CASE c # "NO"
  <2>1. PICK b : b = [cons.buf EXCEPT ![w] = c]
    OBVIOUS
  <2>2. cons' = [buf |-> b, rpos |-> r, wpos |-> v]
    <3>1. PICK B : B = cons.buf
      OBVIOUS
    <3>2. cons = [buf |-> B, rpos |-> r, wpos |-> w]
      BY <1>7, <3>1
    <3>3. b = [B EXCEPT ![w] = c]
      BY <2>1, <3>1
    <3>4. cons' = [cons EXCEPT !.buf[w] = c, !.wpos = v]
      BY <1>8, <1>11
    <3>5. cons' = [cons EXCEPT !.buf = b, !.wpos = v]
      BY <2>1, <3>4
    <3> QED  BY <3>2, <3>5
  <2>3. cons'.buf = b /\ cons'.rpos = r /\ cons'.wpos = v
    BY <2>2
  <2>4. DOMAIN b = 0 .. N - 1 /\ b[w] = c /\ \A j \in 0 .. N - 1 : j # w => b[j] = cons.buf[j]
    BY <1>5, <1>7, <2>1
  <2>5. ASSUME ~lost', ~doubled'
        PROVE  /\ Len(waiting') = Input!Around(v + N - r)
               /\ \A i \in 1 .. Len(waiting') : b[Input!Around(r + i - 1)] = waiting'[i]
    <3>1. ~lost /\ ~doubled /\ v # r /\ c = means
      BY <1>8, <1>11, <2>5
    <3>2. PICK k : k = Len(waiting)
      OBVIOUS
    <3>3. k = Input!Around(w + N - r) /\ \A i \in 1 .. k : cons.buf[Input!Around(r + i - 1)] = waiting[i]
      BY <1>1, <1>2, <1>3, <3>1, <3>2 DEF RingInv
    <3>4. k \in Nat /\ Len(waiting') = k + 1 /\ waiting'[k + 1] = c /\ \A i \in 1 .. k : waiting'[i] = waiting[i]
      BY <1>7, <1>8, <1>11, <3>1, <3>2
    <3>5. \A p : Input!Around(p) = IF p < N THEN p ELSE p - N
      BY <1>1 DEF Input!Around
    <3>6. k = IF w < r THEN w + N - r ELSE w - r
      BY <1>5, <3>3, <3>5
    <3>7. k + 1 = Input!Around(v + N - r)
      <4>1. k + 1 = IF v < r THEN v + N - r ELSE v - r
        BY <1>5, <1>6, <3>1, <3>6
      <4> QED  BY <1>5, <1>6, <3>5, <4>1
    <3>8. Input!Around(r + (k + 1) - 1) = w
      BY <1>5, <3>5, <3>6
    <3>9. ASSUME NEW i \in 1 .. k  PROVE b[Input!Around(r + i - 1)] = waiting'[i]
      <4>1. Input!Around(r + i - 1) \in 0 .. N - 1 /\ Input!Around(r + i - 1) # w
        BY <1>5, <3>4, <3>5, <3>6
      <4> QED  BY <2>4, <3>3, <3>4, <4>1
    <3>10. ASSUME NEW i \in 1 .. k + 1  PROVE b[Input!Around(r + i - 1)] = waiting'[i]
      <4>1. CASE i = k + 1
        <5>1. b[Input!Around(r + (k + 1) - 1)] = c
          BY <2>4, <3>8
        <5> QED  BY <3>4, <4>1, <5>1
      <4>2. CASE i # k + 1
        <5>1. i \in 1 .. k
          BY <3>4, <4>2
        <5> QED  BY <3>9, <5>1
      <4> QED  BY <4>1, <4>2
    <3> QED  BY <3>4, <3>7, <3>10
  <2> QED  BY <1>1, <1>5, <1>6, <1>9, <2>2, <2>3, <2>4, <2>5 DEF RingInv
<1> QED  BY <1>10, <1>11

\* One is taken from it.
LEMMA GrabRing ==
  ASSUME RingInv, Input!GrabChar
  PROVE  RingInv'
<1>1. PICK N : N = CONSBUFSIZE
  OBVIOUS
<1>2. PICK r : r = cons.rpos
  OBVIOUS
<1>3. PICK w : w = cons.wpos
  OBVIOUS
<1>4. PICK v : v = Input!Succ(r)
  OBVIOUS
<1>5. N \in Nat \ {0} /\ r \in 0 .. N - 1 /\ w \in 0 .. N - 1
  BY <1>1, <1>2, <1>3, Sizes DEF RingInv
<1>6. v = (IF r + 1 = N THEN 0 ELSE r + 1) /\ v \in 0 .. N - 1
  BY <1>1, <1>4, <1>5 DEF Input!Succ
<1>7. /\ cons = [buf |-> cons.buf, rpos |-> r, wpos |-> w]
      /\ DOMAIN cons.buf = 0 .. N - 1 /\ waiting \in Seq(Chars)
  BY <1>1, <1>2, <1>3 DEF RingInv
<1>8. UNCHANGED <<com, lost, doubled>>
  BY DEF Input!GrabChar
<1>9. CASE r = w
  <2>1. UNCHANGED <<cons, waiting>>
    BY <1>2, <1>3, <1>9 DEF Input!GrabChar
  <2> QED  BY <1>8, <2>1 DEF RingInv
<1>10. CASE r # w
  <2>1. /\ cons' = [cons EXCEPT !.rpos = v]
        /\ waiting' = IF waiting = <<>> THEN waiting ELSE Tail(waiting)
    BY <1>2, <1>3, <1>4, <1>10 DEF Input!GrabChar
  <2>2. cons' = [buf |-> cons.buf, rpos |-> v, wpos |-> w]
    <3>1. PICK B : B = cons.buf
      OBVIOUS
    <3>2. cons = [buf |-> B, rpos |-> r, wpos |-> w]
      BY <1>7, <3>1
    <3>3. cons' = [buf |-> B, rpos |-> v, wpos |-> w]
      BY <2>1, <3>2
    <3> QED  BY <3>1, <3>3
  <2>3. cons'.buf = cons.buf /\ cons'.rpos = v /\ cons'.wpos = w
    BY <2>2
  <2>4. waiting' \in Seq(Chars)
    BY <1>7, <2>1
  <2>5. ASSUME ~lost, ~doubled
        PROVE  /\ Len(waiting') = Input!Around(w + N - v)
               /\ \A i \in 1 .. Len(waiting') : cons.buf[Input!Around(v + i - 1)] = waiting'[i]
    <3>1. PICK k : k = Len(waiting)
      OBVIOUS
    <3>2. k = Input!Around(w + N - r) /\ \A i \in 1 .. k : cons.buf[Input!Around(r + i - 1)] = waiting[i]
      BY <1>1, <1>2, <1>3, <2>5, <3>1 DEF RingInv
    <3>3. \A p : Input!Around(p) = IF p < N THEN p ELSE p - N
      BY <1>1 DEF Input!Around
    <3>4. k = IF w < r THEN w + N - r ELSE w - r
      BY <1>5, <3>2, <3>3
    <3>5. k > 0 /\ k \in Nat
      BY <1>5, <1>10, <3>4
    <3>6. Len(waiting') = k - 1 /\ \A i \in 1 .. k - 1 : waiting'[i] = waiting[i + 1]
      BY <1>7, <2>1, <3>1, <3>5
    <3>7. k - 1 = Input!Around(w + N - v)
      <4>1. k - 1 = IF w < v THEN w + N - v ELSE w - v
        BY <1>5, <1>6, <1>10, <3>4
      <4> QED  BY <1>5, <1>6, <3>3, <4>1
    <3>8. ASSUME NEW i \in 1 .. k - 1  PROVE cons.buf[Input!Around(v + i - 1)] = waiting'[i]
      <4>1. Input!Around(v + i - 1) = Input!Around(r + (i + 1) - 1)
        BY <1>5, <1>6, <3>3, <3>4, <3>5
      <4>2. i + 1 \in 1 .. k
        BY <3>5
      <4> QED  BY <3>2, <3>6, <4>1, <4>2
    <3> QED  BY <3>6, <3>7, <3>8
  <2>6. ~lost' /\ ~doubled' =>
       /\ Len(waiting') = Input!Around(cons'.wpos + CONSBUFSIZE - cons'.rpos)
       /\ \A i \in 1 .. Len(waiting') : cons'.buf[Input!Around(cons'.rpos + i - 1)] = waiting'[i]
    BY <1>1, <1>8, <2>3, <2>5
  <2>7. /\ com' \in Seq(ComBytes)
        /\ \A i \in 1 .. Len(com') : com'[i].means = Input!serial_proc_data(com'[i].c) /\ com'[i].means # "NO"
    BY <1>8 DEF RingInv
  <2> QED  BY <1>1, <1>5, <1>6, <1>7, <2>2, <2>3, <2>4, <2>6, <2>7 DEF RingInv
<1> QED  BY <1>9, <1>10

\* A character from the serial line is taken over, or arrives there.
LEMMA SerialRing ==
  ASSUME RingInv, Input!serial_intr
  PROVE  RingInv'
<1>1. /\ com # <<>> /\ com' = Tail(com)
      /\ Input!cons_intr(Input!serial_proc_data(com[1].c), com[1].means)
  BY DEF Input!serial_intr
<1>2. /\ com \in Seq(ComBytes)
      /\ \A i \in 1 .. Len(com) : com[i].means = Input!serial_proc_data(com[i].c) /\ com[i].means # "NO"
  BY DEF RingInv
<1>3. PICK n : n = Len(com)
  OBVIOUS
<1>4. n \in Nat \ {0} /\ Len(com') = n - 1 /\ com' \in Seq(ComBytes) /\ \A i \in 1 .. n - 1 : com'[i] = com[i + 1]
  BY <1>1, <1>2, <1>3
<1>5. 1 \in 1 .. Len(com) /\ com[1] \in ComBytes
  BY <1>2, <1>3, <1>4
<1>6. com[1].means = Input!serial_proc_data(com[1].c) /\ com[1].means \in Chars
  BY <1>2, <1>5 DEF ComBytes
<1>7. ASSUME NEW i \in 1 .. Len(com')
      PROVE  com'[i].means = Input!serial_proc_data(com'[i].c) /\ com'[i].means # "NO"
  <2>1. i + 1 \in 1 .. Len(com) /\ com'[i] = com[i + 1]
    BY <1>3, <1>4
  <2> QED  BY <1>2, <2>1
<1> QED  BY <1>1, <1>4, <1>6, <1>7, PushRing

LEMMA ArrivesRing ==
  ASSUME RingInv, NEW c \in {"s", "127"}, Input!SerialArrives(c)
  PROVE  RingInv'
<1>1. PICK x : x = [c |-> c, means |-> IF c = "127" THEN "BACK" ELSE c]
  OBVIOUS
<1>2. com' = Append(com, x) /\ UNCHANGED <<cons, waiting, doubled, lost>>
  BY <1>1 DEF Input!SerialArrives
<1>3. x.c = c /\ x.means = IF c = "127" THEN "BACK" ELSE c
  BY <1>1
<1>4. x \in ComBytes
  BY <1>1 DEF ComBytes, Chars
<1>5. x.means = Input!serial_proc_data(x.c) /\ x.means # "NO"
  BY <1>3 DEF Input!serial_proc_data
<1>6. /\ com \in Seq(ComBytes)
      /\ \A i \in 1 .. Len(com) : com[i].means = Input!serial_proc_data(com[i].c) /\ com[i].means # "NO"
  BY DEF RingInv
<1>7. PICK n : n = Len(com)
  OBVIOUS
<1>8. /\ n \in Nat /\ com' \in Seq(ComBytes) /\ Len(com') = n + 1 /\ com'[n + 1] = x
      /\ \A i \in 1 .. n : com'[i] = com[i]
  BY <1>2, <1>4, <1>6, <1>7
<1>9. ASSUME NEW i \in 1 .. Len(com')
      PROVE  com'[i].means = Input!serial_proc_data(com'[i].c) /\ com'[i].means # "NO"
  <2>1. CASE i = n + 1
    BY <1>5, <1>8, <2>1
  <2>2. CASE i # n + 1
    <3>1. i \in 1 .. Len(com) /\ com'[i] = com[i]
      BY <1>7, <1>8, <2>2
    <3> QED  BY <1>6, <3>1
  <2> QED  BY <2>1, <2>2
<1> QED  BY <1>2, <1>8, <1>9 DEF RingInv

\* What leaves the ring, or the keys, alone.
LEMMA RingAlone ==
  ASSUME RingInv, UNCHANGED <<cons, waiting, com, lost>>, doubled => doubled'
  PROVE  RingInv'
BY DEF RingInv

LEMMA KeysAlone ==
  ASSUME KeysInv, UNCHANGED <<kbd, shift, rebooted, held, caps, asked, doubled>>
  PROVE  KeysInv'
<1>1. PICK H : Decodes(H)
  BY DEF KeysInv
<1>2. Input!Held' = Input!Held
  BY DEF Input!Held
<1>3. Decodes(H)'
  BY <1>1, <1>2 DEF Decodes, AsMeant, Agrees
<1> QED  BY <1>3 DEF KeysInv

LEMMA InputInit == Input!Init => InputInv
<1> SUFFICES ASSUME Input!Init  PROVE InputInv
  OBVIOUS
<1>1. PICK H : H = [i \in 1 .. 1 |-> {}]
  OBVIOUS
<1>2. kbd = <<>> /\ Len(kbd) = 0 /\ shift = {} /\ ~rebooted /\ held = {} /\ ~caps
  BY DEF Input!Init
<1>3. H[1] = {}
  BY <1>1
<1>4. Agrees({})
  <2>1. Within({}, held) /\ Covers({}, held)
    BY <1>2 DEF Within, Covers
  <2> QED  BY <1>2, <2>1, AgreesIs
<1>5. Decodes(H)
  <2>1. \A i \in 1 .. Len(kbd) : FALSE
    BY <1>2
  <2>2. H[Len(kbd) + 1] = {}
    BY <1>2, <1>3
  <2> QED  BY <1>2, <1>3, <1>4, <2>1, <2>2 DEF Decodes
<1>6. KeysInv
  <2>1. kbd \in Seq(KbdBytes) /\ held \subseteq Input!Keys /\ CtlKey \notin held
    BY <1>2
  <2> QED  BY <1>2, <1>5, <2>1 DEF KeysInv
<1>7. PICK b : b = [i \in 0 .. CONSBUFSIZE - 1 |-> "NO"]
  OBVIOUS
<1>8. cons = [buf |-> b, rpos |-> 0, wpos |-> 0] /\ com = <<>> /\ waiting = <<>>
  BY <1>7 DEF Input!Init
<1>9. cons.buf = b /\ cons.rpos = 0 /\ cons.wpos = 0 /\ DOMAIN b = 0 .. CONSBUFSIZE - 1
  BY <1>7, <1>8
<1>10. 0 \in 0 .. CONSBUFSIZE - 1 /\ Input!Around(0 + CONSBUFSIZE - 0) = 0
  BY Sizes DEF Input!Around
<1>11. /\ waiting \in Seq(Chars) /\ com \in Seq(ComBytes) /\ Len(waiting) = 0 /\ Len(com) = 0
       /\ 1 .. Len(waiting) = {} /\ 1 .. Len(com) = {}
  BY <1>8
<1>12. RingInv
  BY <1>8, <1>9, <1>10, <1>11 DEF RingInv
<1> QED  BY <1>6, <1>12 DEF InputInv

LEMMA InputNext == ASSUME InputInv, Input!Next  PROVE InputInv'
<1> USE DEF InputInv
<1>1. CASE Input!serial_intr
  <2>1. UNCHANGED <<kbd, shift, rebooted, held, caps, asked, doubled>>
    BY <1>1 DEF Input!serial_intr, Input!cons_intr
  <2> QED  BY <1>1, <2>1, SerialRing, KeysAlone
<1>2. CASE Input!SerialEmpty
  <2>1. UNCHANGED <<kbd, shift, rebooted, held, caps, asked, doubled, cons, waiting, com, lost>>
    BY <1>2 DEF Input!SerialEmpty
  <2> QED  BY <2>1, RingAlone, KeysAlone
<1>3. CASE Input!kbd_intr
  <2>1. Input!cons_intr(Input!kbd_proc_data(shift, kbd[1]), kbd[1].means) /\ com' = com
    BY <1>3 DEF Input!kbd_intr
  <2>2. /\ com' \in Seq(ComBytes)
        /\ \A i \in 1 .. Len(com') : com'[i].means = Input!serial_proc_data(com'[i].c) /\ com'[i].means # "NO"
    BY <2>1 DEF RingInv
  <2>3. RingInv'
    BY <1>3, <2>1, <2>2, ReadKeys, PushRing
  <2> QED  BY <1>3, <2>3, ReadKeys
<1>4. CASE Input!GrabChar
  <2>1. UNCHANGED <<kbd, shift, rebooted, held, caps, asked, doubled>>
    BY <1>4 DEF Input!GrabChar
  <2> QED  BY <1>4, <2>1, GrabRing, KeysAlone
<1>5. ASSUME NEW key \in Input!Keys, Input!Press(key)  PROVE InputInv'
  <2>1. UNCHANGED <<cons, waiting, com, lost>> /\ (doubled => doubled')
    BY <1>5 DEF Input!Press
  <2> QED  BY <1>5, <2>1, PressKeys, RingAlone
<1>6. ASSUME NEW key \in Input!Keys, Input!Release(key)  PROVE InputInv'
  <2>1. UNCHANGED <<cons, waiting, com, lost>> /\ (doubled => doubled')
    BY <1>6 DEF Input!Release
  <2> QED  BY <1>6, <2>1, ReleaseKeys, RingAlone
<1>7. ASSUME NEW c \in {"s", "127"}, Input!SerialArrives(c)  PROVE InputInv'
  <2>1. UNCHANGED <<kbd, shift, rebooted, held, caps, asked, doubled>>
    BY <1>7 DEF Input!SerialArrives
  <2> QED  BY <1>7, <2>1, ArrivesRing, KeysAlone
<1> QED  BY <1>1, <1>2, <1>3, <1>4, <1>5, <1>6, <1>7 DEF Input!Next, Input!cons_getc

LEMMA InputStep == Next => [Input!Next]_ivars
BY DEF Next, RunHeap, RunPaging, RunDisk, RunChat, RunShared, RunInput, RunTools, ivars

LEMMA InputInvariant == Spec => []InputInv
<1>1. Init => InputInv
  BY InputInit DEF Init
<1>2. InputInv /\ [Next]_<<prog, hvars, pvars, dvars, tvars, kvars, ivars, lvars>> => InputInv'
  <2> SUFFICES ASSUME InputInv, [Input!Next]_ivars  PROVE InputInv'
    BY InputStep DEF ivars
  <2>1. CASE UNCHANGED ivars
    BY <2>1, RingAlone, KeysAlone DEF ivars, InputInv
  <2> QED  BY <2>1, InputNext
<1> QED  BY <1>1, <1>2, PTL DEF Spec

\* console.c: unless the ring overflowed or two keys with one flag were held together,
\* the ring holds, oldest first, exactly the characters meant by the bytes read so far
\* and not yet taken; no modifier and no E0 is left on once its keys are up and the
\* bytes are read; and the machine is reset only on Ctrl-Alt-Del.  For every size of
\* the ring, every number of key strokes and every order of the interrupts.
THEOREM TypedComesOut == Spec => []InputSound
<1>1. InputInv => InputSound
  <2> SUFFICES ASSUME InputInv  PROVE Input!InputSound
    BY DEF InputSound
  <2>1. KeysInv /\ RingInv
    BY DEF InputInv
  <2>2. ASSUME ~lost, ~doubled  PROVE Input!InRing = waiting
    <3>1. /\ waiting \in Seq(Chars) /\ Len(waiting) = Input!Around(cons.wpos + CONSBUFSIZE - cons.rpos)
          /\ \A i \in 1 .. Len(waiting) : cons.buf[Input!Around(cons.rpos + i - 1)] = waiting[i]
      BY <2>1, <2>2 DEF RingInv
    <3>2. PICK k : k = Len(waiting)
      OBVIOUS
    <3>3. Input!InRing = [i \in 1 .. k |-> waiting[i]]
      BY <3>1, <3>2 DEF Input!InRing
    <3>4. waiting = [i \in 1 .. k |-> waiting[i]]
      BY <3>1, <3>2
    <3> QED  BY <3>3, <3>4
  <2>3. ASSUME kbd = <<>>  PROVE Agrees(shift)
    <3>1. PICK H : Decodes(H)
      BY <2>1 DEF KeysInv
    <3>2. Len(kbd) + 1 = 1
      BY <2>3
    <3> QED  BY <3>1, <3>2 DEF Decodes
  <2>4. Input!NoStuckModifier
    BY <2>3 DEF Input!NoStuckModifier, Agrees
  <2>5. Input!ResetMeant
    BY <2>1 DEF KeysInv, Input!ResetMeant
  <2> QED  BY <2>2, <2>4, <2>5 DEF Input!InputSound, Input!InputKept
<1> QED  BY <1>1, InputInvariant, PTL

-----------------------------------------------------------------------------
(***************************************************************************)
(* The list and the heap over the same slots, in the array version         *)
(* (Pointer = FALSE).                                                      *)
(***************************************************************************)
LEMMA HeapSizes == MAXSIZE \in Nat /\ Ids \subseteq Int
BY Sizes, Inputs

\* A slot and the structure.
LinkTo == Heap!Slots \cup {Heap!Nil}
AnyNode == [id : Ids \cup {0}, name : Names \cup {""}, preNode : LinkTo, nextNode : LinkTo]
Lists == [Heap!Slots -> AnyNode]
Structures == [list : Lists, headIndex : LinkTo, size : 0 .. MAXSIZE, unusedIndexs : Seq(Heap!Slots)]

\* The list runs through the slots below n, in the order w.
Links(l, w, n) ==
  /\ n \in 0 .. MAXSIZE
  /\ w \in [1 .. n -> 0 .. n - 1]
  /\ \A j, k \in 1 .. n : w[j] = w[k] => j = k
  /\ \A i \in 0 .. n - 1 : \E k \in 1 .. n : w[k] = i
  /\ \A k \in 1 .. n : l[w[k]].nextNode = IF k = n THEN Heap!Nil ELSE w[k + 1]
  /\ \A k \in 1 .. n : l[w[k]].preNode = IF k = 1 THEN Heap!Nil ELSE w[k - 1]

\* t is s with another link of slot x.
NextIs(t, s, x, v) ==
  /\ t \in Lists
  /\ \A i \in Heap!Slots : t[i].id = s[i].id /\ t[i].name = s[i].name /\ t[i].preNode = s[i].preNode
  /\ \A i \in Heap!Slots : t[i].nextNode = IF i = x THEN v ELSE s[i].nextNode

PreIs(t, s, x, v) ==
  /\ t \in Lists
  /\ \A i \in Heap!Slots : t[i].id = s[i].id /\ t[i].name = s[i].name /\ t[i].nextNode = s[i].nextNode
  /\ \A i \in Heap!Slots : t[i].preNode = IF i = x THEN v ELSE s[i].preNode

\* SetNext changes the forward link of one slot and nothing else.
LEMMA NextSet ==
  ASSUME NEW s, NEW x, NEW v, s \in Lists, x \in Heap!Slots, v \in LinkTo
  PROVE  NextIs(Heap!SetNext(s, x, v), s, x, v)
<1>0. PICK t : t = Heap!SetNext(s, x, v)
  OBVIOUS
<1>1. PICK y : y = [s[x] EXCEPT !.nextNode = v]
  OBVIOUS
<1>2. s[x] \in AnyNode
  BY DEF Lists
<1>3. y \in AnyNode /\ y.id = s[x].id /\ y.name = s[x].name /\ y.preNode = s[x].preNode /\ y.nextNode = v
  BY <1>1, <1>2 DEF AnyNode
<1>4. t = [s EXCEPT ![x] = y]
  BY <1>0, <1>1 DEF Heap!SetNext
<1>5. t \in Lists /\ t[x] = y /\ \A i \in Heap!Slots : i # x => t[i] = s[i]
  BY <1>3, <1>4 DEF Lists
<1>6. NextIs(t, s, x, v)
  BY <1>3, <1>5 DEF NextIs
<1> QED  BY <1>0, <1>6

\* SetPre changes the backward link of one slot and nothing else.
LEMMA PreSet ==
  ASSUME NEW s, NEW x, NEW v, s \in Lists, x \in Heap!Slots, v \in LinkTo
  PROVE  PreIs(Heap!SetPre(s, x, v), s, x, v)
<1>0. PICK t : t = Heap!SetPre(s, x, v)
  OBVIOUS
<1>1. PICK y : y = [s[x] EXCEPT !.preNode = v]
  OBVIOUS
<1>2. s[x] \in AnyNode
  BY DEF Lists
<1>3. y \in AnyNode /\ y.id = s[x].id /\ y.name = s[x].name /\ y.nextNode = s[x].nextNode /\ y.preNode = v
  BY <1>1, <1>2 DEF AnyNode
<1>4. t = [s EXCEPT ![x] = y]
  BY <1>0, <1>1 DEF Heap!SetPre
<1>5. t \in Lists /\ t[x] = y /\ \A i \in Heap!Slots : i # x => t[i] = s[i]
  BY <1>3, <1>4 DEF Lists
<1>6. PreIs(t, s, x, v)
  BY <1>3, <1>5 DEF PreIs
<1> QED  BY <1>0, <1>6

\* The neighbours of a slot in the list.
LEMMA Neighbours ==
  ASSUME NEW l, NEW w, NEW n, Links(l, w, n), NEW i \in 0 .. n - 1
  PROVE  /\ l[i].nextNode # i /\ l[i].preNode # i
         /\ l[i].nextNode # Heap!Nil => l[i].nextNode \in 0 .. n - 1 /\ l[l[i].nextNode].preNode = i
         /\ l[i].preNode # Heap!Nil => l[i].preNode \in 0 .. n - 1 /\ l[l[i].preNode].nextNode = i
         /\ l[i].nextNode # Heap!Nil => l[i].nextNode # l[i].preNode
<1>0. n \in Nat
  BY DEF Links
<1>1. PICK k \in 1 .. n : w[k] = i
  BY DEF Links
<1>2. l[i].nextNode = IF k = n THEN Heap!Nil ELSE w[k + 1]
  BY <1>1 DEF Links
<1>3. l[i].preNode = IF k = 1 THEN Heap!Nil ELSE w[k - 1]
  BY <1>1 DEF Links
<1>4. \A j \in 1 .. n : w[j] \in 0 .. n - 1 /\ w[j] # Heap!Nil
  BY <1>0 DEF Links, Heap!Nil
<1>5. CASE k # n
  <2>1. k + 1 \in 1 .. n /\ k + 1 # 1 /\ (k + 1) - 1 = k
    BY <1>0, <1>5
  <2>2. l[w[k + 1]].preNode = i /\ w[k + 1] # i
    <3>1. l[w[k + 1]].preNode = w[(k + 1) - 1]
      BY <2>1 DEF Links
    <3>2. w[k + 1] # w[k]
      BY <2>1, <1>0 DEF Links
    <3> QED  BY <1>1, <2>1, <3>1, <3>2
  <2>3. k # 1 => w[k + 1] # w[k - 1]
    BY <2>1, <1>0 DEF Links
  <2>4. k # 1 => w[k - 1] \in 0 .. n - 1 /\ l[w[k - 1]].nextNode = i /\ w[k - 1] # i
    <3> SUFFICES ASSUME k # 1  PROVE w[k - 1] \in 0 .. n - 1 /\ l[w[k - 1]].nextNode = i /\ w[k - 1] # i
      OBVIOUS
    <3>1. k - 1 \in 1 .. n /\ k - 1 # n /\ (k - 1) + 1 = k
      BY <1>0
    <3>2. l[w[k - 1]].nextNode = w[(k - 1) + 1]
      BY <3>1 DEF Links
    <3>3. w[k - 1] # w[k]
      BY <3>1, <1>0 DEF Links
    <3> QED  BY <1>1, <1>4, <3>1, <3>2, <3>3
  <2> QED  BY <1>0, <1>2, <1>3, <1>4, <1>5, <2>1, <2>2, <2>3, <2>4 DEF Heap!Nil
<1>6. CASE k = n
  <2>4. k # 1 => w[k - 1] \in 0 .. n - 1 /\ l[w[k - 1]].nextNode = i /\ w[k - 1] # i
    <3> SUFFICES ASSUME k # 1  PROVE w[k - 1] \in 0 .. n - 1 /\ l[w[k - 1]].nextNode = i /\ w[k - 1] # i
      OBVIOUS
    <3>1. k - 1 \in 1 .. n /\ k - 1 # n /\ (k - 1) + 1 = k
      BY <1>0
    <3>2. l[w[k - 1]].nextNode = w[(k - 1) + 1]
      BY <3>1 DEF Links
    <3>3. w[k - 1] # w[k]
      BY <3>1, <1>0 DEF Links
    <3> QED  BY <1>1, <1>4, <3>1, <3>2, <3>3
  <2> QED  BY <1>0, <1>2, <1>3, <1>4, <1>6, <2>4 DEF Heap!Nil
<1> QED  BY <1>5, <1>6

\* The other one of two slots.
Other(x, p, c) == IF x = p THEN c ELSE IF x = c THEN p ELSE x

\* What Exchange does: slot i has the student of the other slot, and its links lead to
\* the slots where its neighbours are now.
LEMMA ExchangeIs ==
  ASSUME NEW l \in Lists, NEW w, NEW n, Links(l, w, n), NEW p \in 0 .. n - 1, NEW c \in 0 .. n - 1, p # c,
         NEW e, e = Heap!Exchange(l, p, c)
  PROVE  /\ e \in Lists
         /\ \A i \in 0 .. n - 1 : /\ e[i].id = l[Other(i, p, c)].id /\ e[i].name = l[Other(i, p, c)].name
                                  /\ e[i].nextNode = Other(l[Other(i, p, c)].nextNode, p, c)
                                  /\ e[i].preNode = Other(l[Other(i, p, c)].preNode, p, c)
<1>1. n \in Nat /\ n <= MAXSIZE /\ 0 .. n - 1 \subseteq Heap!Slots /\ Heap!Nil \notin 0 .. n - 1 /\ p \in Heap!Slots /\ c \in Heap!Slots
  BY HeapSizes DEF Links, Heap!Slots, Heap!Nil
<1>2. PICK pPre : pPre = l[p].preNode
  OBVIOUS
<1>3. PICK pNext : pNext = l[p].nextNode
  OBVIOUS
<1>4. PICK cPre : cPre = l[c].preNode
  OBVIOUS
<1>5. PICK cNext : cNext = l[c].nextNode
  OBVIOUS
<1>6. PICK s0 : s0 = Heap!Swapped(l, p, c)
  OBVIOUS
<1>7. PICK s1 : s1 = IF pPre \notin {Heap!Nil, c} THEN Heap!SetNext(s0, pPre, c) ELSE s0
  OBVIOUS
<1>8. PICK s2 : s2 = IF pNext \notin {Heap!Nil, c} THEN Heap!SetPre(s1, pNext, c) ELSE s1
  OBVIOUS
<1>9. PICK s3 : s3 = IF cPre \notin {Heap!Nil, p} THEN Heap!SetNext(s2, cPre, p) ELSE s2
  OBVIOUS
<1>10. PICK s4 : s4 = IF cNext \notin {Heap!Nil, p} THEN Heap!SetPre(s3, cNext, p) ELSE s3
  OBVIOUS
<1>11. PICK s5 : s5 = IF pPre = c THEN Heap!SetPre(Heap!SetNext(s4, p, c), c, p) ELSE s4
  OBVIOUS
<1>12. e = IF pNext = c THEN Heap!SetNext(Heap!SetPre(s5, p, c), c, p) ELSE s5
  BY <1>2, <1>3, <1>4, <1>5, <1>6, <1>7, <1>8, <1>9, <1>10, <1>11 DEF Heap!Exchange
<1>13. /\ s0 \in Lists
       /\ \A i \in Heap!Slots : /\ s0[i].id = l[Other(i, p, c)].id /\ s0[i].name = l[Other(i, p, c)].name
                           /\ s0[i].nextNode = l[Other(i, p, c)].nextNode
                           /\ s0[i].preNode = l[Other(i, p, c)].preNode
  <2>1. s0 \in Lists
    BY <1>1, <1>6 DEF Lists, Heap!Swapped
  <2>2. \A i \in Heap!Slots : s0[i] = l[Other(i, p, c)]
    BY <1>1, <1>6 DEF Lists, Other, Heap!Swapped
  <2> QED  BY <2>1, <2>2
<1>14. /\ pPre # Heap!Nil => pPre \in Heap!Slots
       /\ pNext # Heap!Nil => pNext \in Heap!Slots
       /\ cPre # Heap!Nil => cPre \in Heap!Slots
       /\ cNext # Heap!Nil => cNext \in Heap!Slots
       /\ p \in LinkTo /\ c \in LinkTo
  BY <1>1, <1>2, <1>3, <1>4, <1>5, Neighbours DEF LinkTo
<1>15. /\ s1 \in Lists
       /\ \A i \in Heap!Slots : s1[i].id = s0[i].id /\ s1[i].name = s0[i].name /\ s1[i].preNode = s0[i].preNode
       /\ \A i \in Heap!Slots : s1[i].nextNode = IF i = pPre /\ pPre # c THEN c ELSE s0[i].nextNode
  <2>1. CASE pPre \notin {Heap!Nil, c}
    <3>1. NextIs(Heap!SetNext(s0, pPre, c), s0, pPre, c)
      BY <1>1, <1>13, <1>14, <2>1, NextSet
    <3> QED  BY <1>7, <2>1, <3>1 DEF NextIs
  <2>2. CASE pPre \in {Heap!Nil, c}
    BY <1>1, <1>7, <1>13, <2>2 DEF Heap!Slots, Heap!Nil
  <2> QED  BY <2>1, <2>2
<1>16. /\ s2 \in Lists
       /\ \A i \in Heap!Slots : s2[i].id = s1[i].id /\ s2[i].name = s1[i].name /\ s2[i].nextNode = s1[i].nextNode
       /\ \A i \in Heap!Slots : s2[i].preNode = IF i = pNext /\ pNext # c THEN c ELSE s1[i].preNode
  <2>1. CASE pNext \notin {Heap!Nil, c}
    <3>1. PreIs(Heap!SetPre(s1, pNext, c), s1, pNext, c)
      BY <1>1, <1>15, <1>14, <2>1, PreSet
    <3> QED  BY <1>8, <2>1, <3>1 DEF PreIs
  <2>2. CASE pNext \in {Heap!Nil, c}
    BY <1>1, <1>8, <1>15, <2>2 DEF Heap!Slots, Heap!Nil
  <2> QED  BY <2>1, <2>2
<1>17. /\ s3 \in Lists
       /\ \A i \in Heap!Slots : s3[i].id = s2[i].id /\ s3[i].name = s2[i].name /\ s3[i].preNode = s2[i].preNode
       /\ \A i \in Heap!Slots : s3[i].nextNode = IF i = cPre /\ cPre # p THEN p ELSE s2[i].nextNode
  <2>1. CASE cPre \notin {Heap!Nil, p}
    <3>1. NextIs(Heap!SetNext(s2, cPre, p), s2, cPre, p)
      BY <1>1, <1>16, <1>14, <2>1, NextSet
    <3> QED  BY <1>9, <2>1, <3>1 DEF NextIs
  <2>2. CASE cPre \in {Heap!Nil, p}
    BY <1>1, <1>9, <1>16, <2>2 DEF Heap!Slots, Heap!Nil
  <2> QED  BY <2>1, <2>2
<1>18. /\ s4 \in Lists
       /\ \A i \in Heap!Slots : s4[i].id = s3[i].id /\ s4[i].name = s3[i].name /\ s4[i].nextNode = s3[i].nextNode
       /\ \A i \in Heap!Slots : s4[i].preNode = IF i = cNext /\ cNext # p THEN p ELSE s3[i].preNode
  <2>1. CASE cNext \notin {Heap!Nil, p}
    <3>1. PreIs(Heap!SetPre(s3, cNext, p), s3, cNext, p)
      BY <1>1, <1>17, <1>14, <2>1, PreSet
    <3> QED  BY <1>10, <2>1, <3>1 DEF PreIs
  <2>2. CASE cNext \in {Heap!Nil, p}
    BY <1>1, <1>10, <1>17, <2>2 DEF Heap!Slots, Heap!Nil
  <2> QED  BY <2>1, <2>2
<1>19. /\ s5 \in Lists
       /\ \A i \in Heap!Slots : s5[i].id = s4[i].id /\ s5[i].name = s4[i].name
       /\ \A i \in Heap!Slots : s5[i].nextNode = IF i = p /\ pPre = c THEN c ELSE s4[i].nextNode
       /\ \A i \in Heap!Slots : s5[i].preNode = IF i = c /\ pPre = c THEN p ELSE s4[i].preNode
  <2>1. CASE pPre = c
    <3>1. PICK t : t = Heap!SetNext(s4, p, c)
      OBVIOUS
    <3>2. s5 = Heap!SetPre(t, c, p)
      BY <1>11, <2>1, <3>1
    <3>3. NextIs(t, s4, p, c)
      BY <1>1, <1>14, <1>18, <3>1, NextSet
    <3>4. t \in Lists
      BY <3>3 DEF NextIs
    <3>5. PreIs(s5, t, c, p)
      BY <1>1, <1>14, <3>2, <3>4, PreSet
    <3> QED  BY <2>1, <3>3, <3>5 DEF NextIs, PreIs
  <2>2. CASE pPre # c
    BY <1>11, <1>18, <2>2
  <2> QED  BY <2>1, <2>2
<1>20. /\ e \in Lists
       /\ \A i \in Heap!Slots : e[i].id = s5[i].id /\ e[i].name = s5[i].name
       /\ \A i \in Heap!Slots : e[i].preNode = IF i = p /\ pNext = c THEN c ELSE s5[i].preNode
       /\ \A i \in Heap!Slots : e[i].nextNode = IF i = c /\ pNext = c THEN p ELSE s5[i].nextNode
  <2>1. CASE pNext = c
    <3>1. PICK t : t = Heap!SetPre(s5, p, c)
      OBVIOUS
    <3>2. e = Heap!SetNext(t, c, p)
      BY <1>12, <2>1, <3>1
    <3>3. PreIs(t, s5, p, c)
      BY <1>1, <1>14, <1>19, <3>1, PreSet
    <3>4. t \in Lists
      BY <3>3 DEF PreIs
    <3>5. NextIs(e, t, c, p)
      BY <1>1, <1>14, <3>2, <3>4, NextSet
    <3> QED  BY <2>1, <3>3, <3>5 DEF NextIs, PreIs
  <2>2. CASE pNext # c
    BY <1>12, <1>19, <2>2
  <2> QED  BY <2>1, <2>2
<1>21. ASSUME NEW i \in 0 .. n - 1
       PROVE  /\ e[i].id = l[Other(i, p, c)].id /\ e[i].name = l[Other(i, p, c)].name
              /\ e[i].nextNode = Other(l[Other(i, p, c)].nextNode, p, c)
              /\ e[i].preNode = Other(l[Other(i, p, c)].preNode, p, c)
  <2>1. i \in Heap!Slots
    BY <1>1
  <2>2. e[i].id = l[Other(i, p, c)].id /\ e[i].name = l[Other(i, p, c)].name
    BY <1>13, <1>15, <1>16, <1>17, <1>18, <1>19, <1>20, <2>1
  <2>3. e[i].nextNode = IF i = c /\ pNext = c THEN p ELSE IF i = p /\ pPre = c THEN c
                        ELSE IF i = cPre /\ cPre # p THEN p ELSE IF i = pPre /\ pPre # c THEN c
                        ELSE l[Other(i, p, c)].nextNode
    BY <1>13, <1>15, <1>16, <1>17, <1>18, <1>19, <1>20, <2>1
  <2>4. e[i].preNode = IF i = p /\ pNext = c THEN c ELSE IF i = c /\ pPre = c THEN p
                       ELSE IF i = cNext /\ cNext # p THEN p ELSE IF i = pNext /\ pNext # c THEN c
                       ELSE l[Other(i, p, c)].preNode
    BY <1>13, <1>15, <1>16, <1>17, <1>18, <1>19, <1>20, <2>1
  <2>5. /\ pPre # p /\ pNext # p /\ cPre # c /\ cNext # c
        /\ pNext = c <=> cPre = p
        /\ pPre = c <=> cNext = p
        /\ ~ (pNext = c /\ pPre = c)
    BY <1>1, <1>2, <1>3, <1>4, <1>5, Neighbours
  <2>6. /\ l[i].nextNode = p <=> i = pPre
        /\ l[i].nextNode = c <=> i = cPre
        /\ l[i].preNode = p <=> i = pNext
        /\ l[i].preNode = c <=> i = cNext
    BY <1>1, <1>2, <1>3, <1>4, <1>5, Neighbours
  <2>7. CASE i = p
    <3>1. Other(i, p, c) = c
      BY <2>7 DEF Other
    <3> QED  BY <1>2, <1>3, <1>4, <1>5, <2>2, <2>3, <2>4, <2>5, <2>7, <3>1 DEF Other
  <2>8. CASE i = c
    <3>1. Other(i, p, c) = p
      BY <2>8 DEF Other
    <3> QED  BY <1>2, <1>3, <1>4, <1>5, <2>2, <2>3, <2>4, <2>5, <2>8, <3>1 DEF Other
  <2>9. CASE i # p /\ i # c
    <3>1. Other(i, p, c) = i
      BY <2>9 DEF Other
    <3> QED  BY <2>2, <2>3, <2>4, <2>5, <2>6, <2>9, <3>1 DEF Other
  <2> QED  BY <2>7, <2>8, <2>9
<1> QED  BY <1>20, <1>21

\* The places of the list when p and c have changed places.
Renumbered(w, p, c, n) == [k \in 1 .. n |-> Other(w[k], p, c)]

\* Exchanging two slots twice changes nothing, and keeps below n what is below n.
LEMMA OtherIs ==
  ASSUME NEW n \in Nat, NEW p \in 0 .. n - 1, NEW c \in 0 .. n - 1, p # c
  PROVE  /\ \A i \in 0 .. n - 1 : Other(i, p, c) \in 0 .. n - 1
         /\ \A i : Other(Other(i, p, c), p, c) = i
         /\ Other(Heap!Nil, p, c) = Heap!Nil
BY DEF Other, Heap!Nil

\* After an exchange the links run through the same slots, the two exchanged.
LEMMA ExchangeLinks ==
  ASSUME NEW l, NEW w, NEW n, NEW p, NEW c, l \in Lists, Links(l, w, n), p \in 0 .. n - 1, c \in 0 .. n - 1, p # c
  PROVE  Links(Heap!Exchange(l, p, c), Renumbered(w, p, c, n), n)
<1>1. PICK e : e = Heap!Exchange(l, p, c)
  OBVIOUS
<1>2. PICK v : v = Renumbered(w, p, c, n)
  OBVIOUS
<1>3. n \in Nat
  BY DEF Links
<1>4. /\ \A i \in 0 .. n - 1 : Other(i, p, c) \in 0 .. n - 1
      /\ \A i : Other(Other(i, p, c), p, c) = i
      /\ Other(Heap!Nil, p, c) = Heap!Nil
  BY <1>3, OtherIs
<1>5. \A i \in 0 .. n - 1 : /\ e[i].nextNode = Other(l[Other(i, p, c)].nextNode, p, c)
                            /\ e[i].preNode = Other(l[Other(i, p, c)].preNode, p, c)
  BY <1>1, ExchangeIs
<1>6. \A k \in 1 .. n : w[k] \in 0 .. n - 1 /\ v[k] = Other(w[k], p, c) /\ v[k] \in 0 .. n - 1
  BY <1>2, <1>4 DEF Links, Renumbered
<1>7. v \in [1 .. n -> 0 .. n - 1]
  BY <1>2, <1>6 DEF Renumbered
<1>8. ASSUME NEW j \in 1 .. n, NEW k \in 1 .. n, v[j] = v[k]  PROVE j = k
  <2>1. w[j] = w[k]
    BY <1>4, <1>6, <1>8
  <2> QED  BY <2>1 DEF Links
<1>9. ASSUME NEW i \in 0 .. n - 1  PROVE \E k \in 1 .. n : v[k] = i
  <2>1. PICK k \in 1 .. n : w[k] = Other(i, p, c)
    BY <1>4 DEF Links
  <2> QED  BY <1>4, <1>6, <2>1
<1>10. ASSUME NEW k \in 1 .. n  PROVE e[v[k]].nextNode = IF k = n THEN Heap!Nil ELSE v[k + 1]
  <2>1. e[v[k]].nextNode = Other(l[w[k]].nextNode, p, c)
    BY <1>4, <1>5, <1>6
  <2>2. l[w[k]].nextNode = IF k = n THEN Heap!Nil ELSE w[k + 1]
    BY DEF Links
  <2>3. k # n => k + 1 \in 1 .. n
    BY <1>3
  <2> QED  BY <1>4, <1>6, <2>1, <2>2, <2>3
<1>11. ASSUME NEW k \in 1 .. n  PROVE e[v[k]].preNode = IF k = 1 THEN Heap!Nil ELSE v[k - 1]
  <2>1. e[v[k]].preNode = Other(l[w[k]].preNode, p, c)
    BY <1>4, <1>5, <1>6
  <2>2. l[w[k]].preNode = IF k = 1 THEN Heap!Nil ELSE w[k - 1]
    BY DEF Links
  <2>3. k # 1 => k - 1 \in 1 .. n
    BY <1>3
  <2> QED  BY <1>4, <1>6, <2>1, <2>2, <2>3
<1>12. n \in 0 .. MAXSIZE
  BY DEF Links
<1>13. Links(e, v, n)
  BY <1>7, <1>8, <1>9, <1>10, <1>11, <1>12 DEF Links
<1> QED  BY <1>1, <1>2, <1>13

\* The list starts at first, runs through the slots below n and spells the students z.
Spells(l, w, n, z) == \A k \in 1 .. n : z[k].id = l[w[k]].id /\ z[k].name = l[w[k]].name
FirstOf(w, n) == IF n = 0 THEN Heap!Nil ELSE w[1]
ListIs(l, n, z, first) == \E w : Links(l, w, n) /\ Spells(l, w, n, z) /\ first = FirstOf(w, n)

\* The list starts at the slot that has no predecessor.
LEMMA FirstIs ==
  ASSUME NEW l, NEW n, NEW z, NEW first, ListIs(l, n, z, first)
  PROVE  /\ n \in Nat /\ n \in 0 .. MAXSIZE
         /\ n # 0 => first \in 0 .. n - 1
         /\ n = 0 => first = Heap!Nil
         /\ \A i \in 0 .. n - 1 : l[i].preNode = Heap!Nil <=> i = first
<1>1. PICK w : Links(l, w, n) /\ first = FirstOf(w, n)
  BY DEF ListIs
<1>2. n \in Nat /\ n \in 0 .. MAXSIZE
  BY <1>1, HeapSizes DEF Links
<1>3. n = 0 => first = Heap!Nil
  BY <1>1 DEF FirstOf
<1>4. n # 0 => 1 \in 1 .. n /\ first = w[1] /\ first \in 0 .. n - 1
  BY <1>1, <1>2 DEF FirstOf, Links
<1>5. ASSUME NEW i \in 0 .. n - 1  PROVE l[i].preNode = Heap!Nil <=> i = first
  <2>1. PICK k \in 1 .. n : w[k] = i
    BY <1>1 DEF Links
  <2>2. l[i].preNode = IF k = 1 THEN Heap!Nil ELSE w[k - 1]
    BY <1>1, <2>1 DEF Links
  <2>3. n # 0
    BY <1>2
  <2>4. k # 1 => w[k - 1] # Heap!Nil
    <3>1. k # 1 => k - 1 \in 1 .. n
      BY <1>2
    <3>2. \A j \in 1 .. n : w[j] \in 0 .. n - 1
      BY <1>1 DEF Links
    <3> QED  BY <1>2, <3>1, <3>2 DEF Heap!Nil
  <2>5. k = 1 <=> w[k] = w[1]
    BY <1>1, <1>4, <2>3 DEF Links
  <2> QED  BY <1>4, <2>1, <2>2, <2>3, <2>4, <2>5
<1> QED  BY <1>2, <1>3, <1>4, <1>5

\* After an exchange the list spells the same students.
LEMMA ExchangeKeeps ==
  ASSUME NEW l, NEW n, NEW z, NEW first, NEW p, NEW c,
         l \in Lists, ListIs(l, n, z, first), p \in 0 .. n - 1, c \in 0 .. n - 1, p # c
  PROVE  ListIs(Heap!Exchange(l, p, c), n, z, Other(first, p, c))
<1>1. PICK w : Links(l, w, n) /\ Spells(l, w, n, z) /\ first = FirstOf(w, n)
  BY DEF ListIs
<1>2. PICK e : e = Heap!Exchange(l, p, c)
  OBVIOUS
<1>3. PICK v : v = Renumbered(w, p, c, n)
  OBVIOUS
<1>4. Links(e, v, n)
  BY <1>1, <1>2, <1>3, ExchangeLinks
<1>5. n \in Nat /\ n # 0
  BY <1>1 DEF Links
<1>6. /\ \A i \in 0 .. n - 1 : Other(i, p, c) \in 0 .. n - 1
      /\ \A i : Other(Other(i, p, c), p, c) = i
  BY <1>5, OtherIs
<1>7. \A i \in 0 .. n - 1 : e[i].id = l[Other(i, p, c)].id /\ e[i].name = l[Other(i, p, c)].name
  BY <1>1, <1>2, ExchangeIs
<1>8. \A k \in 1 .. n : w[k] \in 0 .. n - 1 /\ v[k] = Other(w[k], p, c)
  BY <1>1, <1>3 DEF Links, Renumbered
<1>9. Spells(e, v, n, z)
  BY <1>1, <1>6, <1>7, <1>8 DEF Spells
<1>10. Other(first, p, c) = FirstOf(v, n)
  BY <1>1, <1>5, <1>8 DEF FirstOf
<1>11. ListIs(e, n, z, Other(first, p, c))
  BY <1>4, <1>9, <1>10 DEF ListIs
<1> QED  BY <1>2, <1>11

\* What swapHeapNode leaves: the same list of students, the two in each other's slot.
SwapIs(g, h, n, z, first, p, c) ==
  /\ g \in Structures /\ g.size = h.size /\ g.unusedIndexs = h.unusedIndexs
  /\ ListIs(g.list, n, z, Other(first, p, c))
  /\ h.headIndex = first => g.headIndex = Other(first, p, c)
  /\ \A i \in 0 .. n - 1 : /\ g.list[i].id = h.list[Other(i, p, c)].id
                           /\ g.list[i].name = h.list[Other(i, p, c)].name

\* swapHeapNode keeps the list, with the head where it now starts.
LEMMA SwapNode ==
  ASSUME NEW h, NEW n, NEW z, NEW first, NEW p, NEW c,
         h \in Structures, ListIs(h.list, n, z, first), p \in 0 .. n - 1, c \in 0 .. n - 1, p # c
  PROVE  SwapIs(Heap!swapHeapNode(h, p, c), h, n, z, first, p, c)
<1>1. PICK e : e = Heap!Exchange(h.list, p, c)
  OBVIOUS
<1>2. PICK s : s = [h EXCEPT !.list = e]
  OBVIOUS
<1>3. PICK g : g = [s EXCEPT !.headIndex = Heap!HeadOf(s, p, c)]
  OBVIOUS
<1>4. g = Heap!swapHeapNode(h, p, c)
  BY <1>1, <1>2, <1>3 DEF Heap!swapHeapNode
<1>5. h.list \in Lists /\ h.headIndex \in LinkTo
  BY DEF Structures
<1>6. ListIs(e, n, z, Other(first, p, c))
  BY <1>1, <1>5, ExchangeKeeps
<1>7. e \in Lists /\ \A i \in 0 .. n - 1 : e[i].id = h.list[Other(i, p, c)].id /\ e[i].name = h.list[Other(i, p, c)].name
  <2>1. PICK w : Links(h.list, w, n)
    BY DEF ListIs
  <2> QED  BY <1>1, <1>5, <2>1, ExchangeIs
<1>8. s \in Structures /\ s.list = e /\ s.size = h.size /\ s.unusedIndexs = h.unusedIndexs /\ s.headIndex = h.headIndex
  BY <1>2, <1>7 DEF Structures
<1>9. /\ e[c].preNode = Heap!Nil <=> c = Other(first, p, c)
      /\ e[p].preNode = Heap!Nil <=> p = Other(first, p, c)
      /\ n \in Nat /\ 0 .. n - 1 \subseteq Heap!Slots
  <2>1. n \in Nat /\ n \in 0 .. MAXSIZE
    BY FirstIs
  <2> QED  BY <1>6, <2>1, FirstIs, HeapSizes DEF Heap!Slots
<1>10. Heap!HeadOf(s, p, c) = IF c = Other(first, p, c) THEN c ELSE IF p = Other(first, p, c) THEN p ELSE h.headIndex
  BY <1>8, <1>9 DEF Heap!HeadOf
<1>11. Heap!HeadOf(s, p, c) \in LinkTo
  BY <1>5, <1>9, <1>10 DEF LinkTo
<1>12. g \in Structures /\ g.size = h.size /\ g.unusedIndexs = h.unusedIndexs /\ g.list = e /\ g.headIndex = Heap!HeadOf(s, p, c)
  BY <1>3, <1>8, <1>11 DEF Structures
<1>13. h.headIndex = first => g.headIndex = Other(first, p, c)
  BY <1>10, <1>12 DEF Other
<1>14. SwapIs(g, h, n, z, first, p, c)
  BY <1>6, <1>7, <1>12, <1>13 DEF SwapIs
<1> QED  BY <1>4, <1>14

-----------------------------------------------------------------------------
Child(c, p) == c = 2 * p + 1 \/ c = 2 * p + 2

\* Below the slots before lo, no child is smaller than its parent.
HeapFrom(l, lo, n) ==
  \A p \in lo .. n - 1, c \in 0 .. n - 1 : Child(c, p) => l[p].id <= l[c].id

\* The same, except that the student in slot at may be too large for its slot.
Sinking(l, lo, n, at) ==
  /\ \A p \in lo .. n - 1, c \in 0 .. n - 1 : Child(c, p) /\ p # at => l[p].id <= l[c].id
  /\ \A p \in lo .. n - 1, c \in 0 .. n - 1 : Child(at, p) /\ Child(c, at) => l[p].id <= l[c].id

\* Every slot holds an integer as its id.
LEMMA IdsAreInt ==
  ASSUME NEW l, l \in Lists  PROVE \A i \in Heap!Slots : l[i].id \in Int
<1> TAKE i \in Heap!Slots
<1>1. l[i] \in AnyNode
  BY DEF Lists
<1>2. l[i].id \in Ids \cup {0}
  BY <1>1 DEF AnyNode
<1>3. Ids \cup {0} \subseteq Int
  BY HeapSizes
<1> QED  BY <1>2, <1>3

\* One exchange on the way down.
LEMMA SinkOnce ==
  ASSUME NEW l, NEW m, NEW lo \in Nat, NEW n \in Nat, NEW at \in lo .. n - 1, NEW child \in 0 .. n - 1,
         \A i \in 0 .. n - 1 : l[i].id \in Int,
         \A i \in 0 .. n - 1 : m[i].id = l[Other(i, at, child)].id,
         Child(child, at), l[at].id > l[child].id,
         \A c \in 0 .. n - 1 : Child(c, at) => l[child].id <= l[c].id,
         Sinking(l, lo, n, at)
  PROVE  Sinking(m, lo, n, child)
<1>0. at # child /\ at \in 0 .. n - 1 /\ child > at
  BY DEF Child
<1>1. m[at].id = l[child].id /\ m[child].id = l[at].id
  BY <1>0 DEF Other
<1>2. \A i \in 0 .. n - 1 : i # at /\ i # child => m[i].id = l[i].id
  BY <1>0 DEF Other
<1>3. ASSUME NEW p \in lo .. n - 1, NEW c \in 0 .. n - 1, Child(c, p), p # child  PROVE m[p].id <= m[c].id
  <2>0. p \in 0 .. n - 1 /\ p # c
    BY <1>3 DEF Child
  <2>1. CASE p = at
    <3>1. CASE c = child
      BY <1>0, <1>1, <2>1, <3>1
    <3>2. CASE c # child
      <4>1. m[c].id = l[c].id
        BY <1>2, <2>0, <2>1, <3>2
      <4> QED  BY <1>1, <1>3, <2>1, <4>1
    <3> QED  BY <3>1, <3>2
  <2>2. CASE p # at /\ c = at
    <3>1. m[p].id = l[p].id
      BY <1>2, <1>3, <2>0, <2>2
    <3>2. l[p].id <= l[child].id
      BY <1>3, <2>2 DEF Sinking
    <3> QED  BY <1>1, <2>2, <3>1, <3>2
  <2>3. CASE p # at /\ c # at
    <3>1. c # child
      BY <1>3, <2>3 DEF Child
    <3>2. m[p].id = l[p].id /\ m[c].id = l[c].id
      BY <1>2, <1>3, <2>0, <2>3, <3>1
    <3>3. l[p].id <= l[c].id
      BY <1>3, <2>3 DEF Sinking
    <3> QED  BY <3>2, <3>3
  <2> QED  BY <2>1, <2>2, <2>3
<1>4. ASSUME NEW p \in lo .. n - 1, NEW c \in 0 .. n - 1, Child(child, p), Child(c, child)  PROVE m[p].id <= m[c].id
  <2>1. p = at /\ c # at /\ c # child
    BY <1>0, <1>4 DEF Child
  <2>2. m[c].id = l[c].id
    BY <1>2, <2>1
  <2>3. child \in lo .. n - 1
    BY <1>0
  <2>4. l[child].id <= l[c].id
    BY <1>0, <1>4, <2>3 DEF Sinking
  <2> QED  BY <1>1, <2>1, <2>2, <2>4
<1> QED  BY <1>3, <1>4 DEF Sinking

\* SmallerChild is a child, and no child is smaller.
LEMMA SmallerIs ==
  ASSUME NEW h, NEW i \in Nat, NEW n \in Nat, \A j \in 0 .. n - 1 : h.list[j].id \in Int, 2 * i + 1 < n
  PROVE  /\ Heap!SmallerChild(h, i, n) \in 0 .. n - 1 /\ Child(Heap!SmallerChild(h, i, n), i)
         /\ \A c \in 0 .. n - 1 : Child(c, i) => h.list[Heap!SmallerChild(h, i, n)].id <= h.list[c].id
<1>1. PICK left : left = 2 * i + 1
  OBVIOUS
<1>2. left \in 0 .. n - 1 /\ (left + 1 < n => left + 1 \in 0 .. n - 1)
  BY <1>1
<1>3. PICK s : s = Heap!SmallerChild(h, i, n)
  OBVIOUS
<1>4. s = IF left + 1 < n /\ h.list[left].id > h.list[left + 1].id THEN left + 1 ELSE left
  BY <1>1, <1>3 DEF Heap!SmallerChild
<1>5. CASE left + 1 < n /\ h.list[left].id > h.list[left + 1].id
  <2>1. s = left + 1
    BY <1>4, <1>5
  <2>2. ASSUME NEW c \in 0 .. n - 1, Child(c, i)  PROVE h.list[s].id <= h.list[c].id
    <3>1. c = left \/ c = left + 1
      BY <1>1, <2>2 DEF Child
    <3> QED  BY <1>2, <1>5, <2>1, <3>1
  <2> QED  BY <1>1, <1>2, <1>3, <1>5, <2>1, <2>2 DEF Child
<1>6. CASE ~(left + 1 < n /\ h.list[left].id > h.list[left + 1].id)
  <2>1. s = left
    BY <1>4, <1>6
  <2>2. ASSUME NEW c \in 0 .. n - 1, Child(c, i)  PROVE h.list[s].id <= h.list[c].id
    <3>1. c = left \/ c = left + 1
      BY <1>1, <2>2 DEF Child
    <3> QED  BY <1>2, <1>6, <2>1, <3>1
  <2> QED  BY <1>1, <1>2, <1>3, <2>1, <2>2 DEF Child
<1> QED  BY <1>5, <1>6

\* A round of the loop: the list below N is kept, and so are the students from n on.
DownInv(s, h, id, lo, n, N, z, ordered) ==
  /\ s = [h |-> s.h, at |-> s.at] /\ s.h \in Structures /\ s.at \in lo .. n - 1
  /\ s.h.size = h.size /\ s.h.unusedIndexs = h.unusedIndexs
  /\ ListIs(s.h.list, N, z, s.h.headIndex)
  /\ s.h.list[s.at].id = id
  /\ \A i \in n .. N - 1 : s.h.list[i].id = h.list[i].id /\ s.h.list[i].name = h.list[i].name
  /\ ordered => Sinking(s.h.list, lo, n, s.at)

\* The loop is left.
AtRest(s, id, n) == ~(2 * s.at + 1 < n /\ id > s.h.list[Heap!SmallerChild(s.h, s.at, n)].id)

\* A round of the loop downwards keeps DownInv, and moves down unless it is at rest.
LEMMA DownStep ==
  ASSUME NEW s, NEW h, NEW id, NEW lo \in Nat, NEW n \in Nat, NEW N \in Nat, NEW z, NEW ordered,
         n <= N, DownInv(s, h, id, lo, n, N, z, ordered)
  PROVE  /\ DownInv(Heap!Down(s, id, n), h, id, lo, n, N, z, ordered)
         /\ AtRest(s, id, n) => Heap!Down(s, id, n) = s
         /\ ~AtRest(s, id, n) => Heap!Down(s, id, n).at > s.at
<1>1. CASE AtRest(s, id, n)
  <2>1. Heap!Down(s, id, n) = s
    BY <1>1 DEF AtRest, Heap!Down
  <2> QED  BY <1>1, <2>1
<1>2. CASE ~AtRest(s, id, n)
  <2>1. PICK child : child = Heap!SmallerChild(s.h, s.at, n)
    OBVIOUS
  <2>2. PICK g : g = Heap!swapHeapNode(s.h, s.at, child)
    OBVIOUS
  <2>3. Heap!Down(s, id, n) = [h |-> g, at |-> child]
    BY <1>2, <2>1, <2>2 DEF AtRest, Heap!Down
  <2>4. /\ s.h \in Structures /\ s.at \in lo .. n - 1 /\ s.at \in 0 .. n - 1 /\ 2 * s.at + 1 < n
        /\ id > s.h.list[child].id /\ s.h.list[s.at].id = id
    BY <1>2, <2>1 DEF AtRest, DownInv
  <2>5. ListIs(s.h.list, N, z, s.h.headIndex) /\ 0 .. n - 1 \subseteq 0 .. N - 1
    BY DEF DownInv
  <2>6. \A i \in 0 .. N - 1 : s.h.list[i].id \in Int
    <3>1. N \in 0 .. MAXSIZE
      BY <2>5, FirstIs
    <3>2. 0 .. N - 1 \subseteq Heap!Slots
      BY <3>1, HeapSizes DEF Heap!Slots
    <3>3. s.h.list \in Lists
      BY <2>4 DEF Structures
    <3> QED  BY <3>2, <3>3, IdsAreInt
  <2>7. child \in 0 .. n - 1 /\ Child(child, s.at)
        /\ \A c \in 0 .. n - 1 : Child(c, s.at) => s.h.list[child].id <= s.h.list[c].id
    <3>1. s.at \in Nat /\ \A i \in 0 .. n - 1 : s.h.list[i].id \in Int
      BY <2>4, <2>5, <2>6
    <3> QED  BY <2>1, <2>4, <3>1, SmallerIs
  <2>8. child > s.at /\ child \in lo .. n - 1
    BY <2>4, <2>7 DEF Child
  <2>9. SwapIs(g, s.h, N, z, s.h.headIndex, s.at, child)
    BY <2>2, <2>4, <2>5, <2>7, <2>8, SwapNode
  <2>10. g.list[child].id = id
    BY <2>4, <2>5, <2>7, <2>8, <2>9 DEF SwapIs, Other
  <2>11. \A i \in n .. N - 1 : g.list[i].id = h.list[i].id /\ g.list[i].name = h.list[i].name
    <3> TAKE i \in n .. N - 1
    <3>1. i \in 0 .. N - 1 /\ i # s.at /\ i # child
      BY <2>4, <2>7
    <3>2. Other(i, s.at, child) = i
      BY <3>1 DEF Other
    <3> QED  BY <2>9, <3>1, <3>2 DEF SwapIs, DownInv
  <2>12. ASSUME ordered  PROVE Sinking(g.list, lo, n, child)
    <3>1. Sinking(s.h.list, lo, n, s.at)
      BY <2>12 DEF DownInv
    <3>2. \A i \in 0 .. n - 1 : g.list[i].id = s.h.list[Other(i, s.at, child)].id
      BY <2>5, <2>9 DEF SwapIs
    <3>3. \A i \in 0 .. n - 1 : s.h.list[i].id \in Int
      BY <2>5, <2>6
    <3>4. s.h.list[s.at].id > s.h.list[child].id
      BY <2>4
    <3> QED  BY <2>4, <2>7, <3>1, <3>2, <3>3, <3>4, SinkOnce
  <2>13. g \in Structures /\ g.size = h.size /\ g.unusedIndexs = h.unusedIndexs /\ ListIs(g.list, N, z, g.headIndex)
    BY <2>9 DEF SwapIs, DownInv
  <2>14. PICK t : t = [h |-> g, at |-> child]
    OBVIOUS
  <2>15. t.h = g /\ t.at = child /\ t = [h |-> t.h, at |-> t.at]
    BY <2>14
  <2>16. DownInv(t, h, id, lo, n, N, z, ordered)
    BY <2>8, <2>10, <2>11, <2>12, <2>13, <2>15 DEF DownInv
  <2> QED  BY <1>2, <2>3, <2>8, <2>14, <2>15, <2>16
<1> QED  BY <1>1, <1>2

\* Where the loop downwards rests, the heap is in order.
LEMMA RestIsHeap ==
  ASSUME NEW s, NEW h, NEW id, NEW lo \in Nat, NEW n \in Nat, NEW N \in Nat, NEW z, NEW ordered,
         n <= N, DownInv(s, h, id, lo, n, N, z, ordered), AtRest(s, id, n), ordered
  PROVE  HeapFrom(s.h.list, lo, n)
<1>1. Sinking(s.h.list, lo, n, s.at) /\ s.h \in Structures /\ s.at \in lo .. n - 1 /\ s.h.list[s.at].id = id
      /\ ListIs(s.h.list, N, z, s.h.headIndex)
  BY DEF DownInv
<1>2. \A i \in 0 .. n - 1 : s.h.list[i].id \in Int
  <2>1. N \in 0 .. MAXSIZE
    BY <1>1, FirstIs
  <2>2. 0 .. n - 1 \subseteq Heap!Slots
    BY <2>1, HeapSizes DEF Heap!Slots
  <2>3. s.h.list \in Lists
    BY <1>1 DEF Structures
  <2> QED  BY <2>2, <2>3, IdsAreInt
<1>3. ASSUME NEW p \in lo .. n - 1, NEW c \in 0 .. n - 1, Child(c, p)  PROVE s.h.list[p].id <= s.h.list[c].id
  <2>1. CASE p # s.at
    BY <1>1, <1>3, <2>1 DEF Sinking
  <2>2. CASE p = s.at
    <3>1. 2 * s.at + 1 < n /\ s.at \in Nat
      BY <1>3, <2>2 DEF Child
    <3>2. PICK child : child = Heap!SmallerChild(s.h, s.at, n)
      OBVIOUS
    <3>3. child \in 0 .. n - 1 /\ s.h.list[child].id <= s.h.list[c].id
      BY <1>2, <1>3, <2>2, <3>1, <3>2, SmallerIs
    <3>4. ~(id > s.h.list[child].id)
      BY <3>1, <3>2 DEF AtRest
    <3>5. s.h.list[child].id \in Int /\ s.h.list[c].id \in Int /\ id \in Int
      BY <1>1, <1>2, <3>3
    <3> QED  BY <1>1, <2>2, <3>3, <3>4, <3>5
  <2> QED  BY <2>1, <2>2
<1> QED  BY <1>3 DEF HeapFrom

\* The whole loop.
SiftIs(g, h, lo, n, N, z) ==
  /\ g \in Structures /\ g.size = h.size /\ g.unusedIndexs = h.unusedIndexs
  /\ ListIs(g.list, N, z, g.headIndex)
  /\ \A i \in n .. N - 1 : g.list[i].id = h.list[i].id /\ g.list[i].name = h.list[i].name
  /\ HeapFrom(h.list, lo + 1, n) => HeapFrom(g.list, lo, n)

\* All rounds of the loop downwards: n of them are enough to come to rest.
LEMMA SiftDownIs ==
  ASSUME NEW h, NEW id, NEW lo, NEW n, NEW N, NEW z,
         h \in Structures, n \in Nat, N \in Nat, n <= N, lo \in 0 .. n - 1,
         ListIs(h.list, N, z, h.headIndex), h.list[lo].id = id
  PROVE  SiftIs(Heap!SiftDown(h, id, lo, n), h, lo, n, N, z)
<1>1. PICK ordered : ordered = HeapFrom(h.list, lo + 1, n)
  OBVIOUS
<1>2. PICK s0 : s0 = [h |-> h, at |-> lo]
  OBVIOUS
<1> DEFINE Good(s) == DownInv(s, h, id, lo, n, N, z, ordered)
           A == {s \in [h : Structures, at : lo .. n - 1] : Good(s)}
           G == [k \in 1 .. n |-> [s \in A |-> Heap!Down(s, id, n)]]
           Body(f) == [k \in 0 .. n |-> IF k = 0 THEN s0 ELSE Heap!Down(f[k - 1], id, n)]
           d == CHOOSE f : f = Body(f)
<1>3. lo \in Nat
  OBVIOUS
<1>4. Good(s0)
  <2>1. s0.h = h /\ s0.at = lo /\ s0 = [h |-> s0.h, at |-> s0.at] /\ lo \in lo .. n - 1
    BY <1>2
  <2>2. ASSUME ordered  PROVE Sinking(h.list, lo, n, lo)
    <3>1. HeapFrom(h.list, lo + 1, n)
      BY <1>1, <2>2
    <3>2. ASSUME NEW p \in lo .. n - 1, NEW c \in 0 .. n - 1, Child(c, p), p # lo  PROVE h.list[p].id <= h.list[c].id
      <4>1. p \in lo + 1 .. n - 1
        BY <3>2
      <4> QED  BY <3>1, <3>2, <4>1 DEF HeapFrom
    <3>3. \A p \in lo .. n - 1 : ~Child(lo, p)
      BY DEF Child
    <3> QED  BY <3>2, <3>3 DEF Sinking
  <2> QED  BY <2>1, <2>2 DEF DownInv
<1>5. \A s : Good(s) => s \in A
  <2> SUFFICES ASSUME NEW s, Good(s)  PROVE s \in [h : Structures, at : lo .. n - 1]
    OBVIOUS
  <2>1. s = [h |-> s.h, at |-> s.at] /\ s.h \in Structures /\ s.at \in lo .. n - 1
    BY DEF DownInv
  <2> QED  BY <2>1
<1>6. \A s : Good(s) => Good(Heap!Down(s, id, n)) /\ (AtRest(s, id, n) => Heap!Down(s, id, n) = s)
                        /\ (~AtRest(s, id, n) => Heap!Down(s, id, n).at > s.at)
  BY <1>3, DownStep
<1>7. s0 \in A /\ \A s \in A : Heap!Down(s, id, n) \in A
  <2> HIDE DEF Good
  <2>1. \A s \in A : Good(s)
    OBVIOUS
  <2> HIDE DEF A
  <2> QED  BY <1>4, <1>5, <1>6, <2>1
<1>8. StepsOf(G, n, A)
  <2> HIDE DEF A
  <2> QED  BY <1>7 DEF StepsOf
<1>9. PICK e : Iterates(e, s0, G, n, A)
  <2> HIDE DEF G, A
  <2> QED  BY <1>7, <1>8, IterateExists
<1>10. e \in [0 .. n -> A] /\ e[0] = s0 /\ \A k \in 1 .. n : e[k] = Heap!Down(e[k - 1], id, n)
  <2>1. e \in [0 .. n -> A] /\ e[0] = s0 /\ \A k \in 1 .. n : e[k] = G[k][e[k - 1]]
    <3> HIDE DEF A, G
    <3> QED  BY <1>9 DEF Iterates
  <2>2. ASSUME NEW k \in 1 .. n  PROVE e[k] = Heap!Down(e[k - 1], id, n)
    <3>1. k - 1 \in 0 .. n
      OBVIOUS
    <3>2. e[k - 1] \in A
      BY <2>1, <3>1
    <3> HIDE DEF A
    <3>3. G[k][e[k - 1]] = Heap!Down(e[k - 1], id, n)
      BY <3>2
    <3> QED  BY <2>1, <3>3
  <2> QED  BY <2>1, <2>2
<1>11. e = Body(e)
  <2> HIDE DEF A
  <2> QED  BY <1>10
<1>12. Heap!SiftDown(h, id, lo, n) = d[n].h
  BY <1>2 DEF Heap!SiftDown
<1>13. d = Body(d)
  <2> HIDE DEF Body
  <2> QED  BY <1>11
<1> HIDE DEF d
<1>14. d[0] = s0 /\ \A k \in 0 .. n - 1 : d[k + 1] = Heap!Down(d[k], id, n)
  <2>1. d[0] = s0
    BY <1>13
  <2>2. ASSUME NEW k \in 0 .. n - 1  PROVE d[k + 1] = Heap!Down(d[k], id, n)
    <3>1. k + 1 \in 0 .. n /\ k + 1 # 0 /\ (k + 1) - 1 = k
      OBVIOUS
    <3>2. d[k + 1] = Heap!Down(d[(k + 1) - 1], id, n)
      BY <1>13, <3>1
    <3> QED  BY <3>1, <3>2
  <2> QED  BY <2>1, <2>2
<1> HIDE DEF A, G, Body
<1>15. 0 .. n \subseteq {k \in Nat : Good(d[k]) /\ (AtRest(d[k], id, n) \/ d[k].at >= k)}
  <2> DEFINE S == {k \in Nat : Good(d[k]) /\ (AtRest(d[k], id, n) \/ d[k].at >= k)}
  <2>1. 0 \in S
    <3>1. d[0].at >= 0
      BY <1>2, <1>14
    <3> HIDE DEF Good
    <3> QED  BY <1>4, <1>14, <3>1
  <2>2. ASSUME NEW k \in 0 .. n - 1, k \in S  PROVE k + 1 \in S
    <3>1. d[k + 1] = Heap!Down(d[k], id, n) /\ k + 1 \in Nat
      BY <1>14
    <3>2. Good(d[k]) /\ (AtRest(d[k], id, n) \/ d[k].at >= k)
      BY <2>2
    <3>3. d[k].at \in Int /\ d[k + 1].at \in Int
      <4>1. Good(d[k + 1])
        <5> HIDE DEF Good
        <5> QED  BY <1>6, <3>1, <3>2
      <4> QED  BY <3>2, <4>1 DEF DownInv
    <3> HIDE DEF Good
    <3>4. Good(d[k + 1]) /\ (AtRest(d[k], id, n) => d[k + 1] = d[k]) /\ (~AtRest(d[k], id, n) => d[k + 1].at > d[k].at)
      BY <1>6, <3>1, <3>2
    <3>5. AtRest(d[k + 1], id, n) \/ d[k + 1].at >= k + 1
      BY <3>2, <3>3, <3>4
    <3> QED  BY <3>1, <3>4, <3>5
  <2> HIDE DEF S
  <2>3. 0 .. n \subseteq S
    BY <2>1, <2>2, UpToInduction
  <2> QED  BY <2>3 DEF S
<1>16. Good(d[n]) /\ (AtRest(d[n], id, n) \/ d[n].at >= n)
  <2> HIDE DEF Good
  <2> QED  BY <1>15
<1>17. AtRest(d[n], id, n)
  <2>1. d[n].at \in lo .. n - 1
    BY <1>16 DEF DownInv
  <2> QED  BY <1>16, <2>1
<1>18. HeapFrom(h.list, lo + 1, n) => HeapFrom(d[n].h.list, lo, n)
  BY <1>1, <1>3, <1>16, <1>17, RestIsHeap
<1>19. SiftIs(d[n].h, h, lo, n, N, z)
  BY <1>16, <1>18 DEF DownInv, SiftIs
<1> QED  BY <1>12, <1>19

\* initialHeap keeps the list and leaves a heap.
KeepsList(g, h, z) ==
  /\ g \in Structures /\ g.size = h.size /\ g.unusedIndexs = h.unusedIndexs
  /\ ListIs(g.list, h.size, z, g.headIndex)

\* Every round of initialHeap puts one more slot in order.
LEMMA InitialHeapIs ==
  ASSUME NEW h, NEW z, h \in Structures, ListIs(h.list, h.size, z, h.headIndex)
  PROVE  KeepsList(Heap!initialHeap(h), h, z) /\ HeapFrom(Heap!initialHeap(h).list, 0, h.size)
<1>1. PICK n : n = h.size
  OBVIOUS
<1>2. PICK half : half = n \div 2
  OBVIOUS
<1>3. n \in Nat /\ half \in Nat /\ 2 * half <= n /\ n <= 2 * half + 1
  <2>1. n \in Nat
    BY <1>1, HeapSizes DEF Structures
  <2> QED  BY <1>2, <2>1
<1> DEFINE A == {g \in Structures : KeepsList(g, h, z)}
           G == [k \in 1 .. half |-> [g \in A |-> Heap!Heapify(g, half - k)]]
           Body(f) == [k \in 0 .. half |-> IF k = 0 THEN h ELSE Heap!Heapify(f[k - 1], half - k)]
           d == CHOOSE f : f = Body(f)
<1>4. ASSUME NEW g, KeepsList(g, h, z), NEW i \in 0 .. half - 1
      PROVE  /\ KeepsList(Heap!Heapify(g, i), h, z)
             /\ HeapFrom(g.list, i + 1, n) => HeapFrom(Heap!Heapify(g, i).list, i, n)
  <2>1. PICK f : f = Heap!Heapify(g, i)
    OBVIOUS
  <2>2. PICK id : id = g.list[i].id
    OBVIOUS
  <2>3. g \in Structures /\ g.size = n /\ g.unusedIndexs = h.unusedIndexs /\ ListIs(g.list, n, z, g.headIndex)
    BY <1>1, <1>4 DEF KeepsList
  <2>4. f = Heap!SiftDown(g, id, i, n)
    BY <2>1, <2>2, <2>3 DEF Heap!Heapify
  <2>5. i \in 0 .. n - 1 /\ n <= n
    BY <1>3
  <2>6. SiftIs(f, g, i, n, n, z)
    BY <1>3, <2>2, <2>3, <2>4, <2>5, SiftDownIs
  <2> QED  BY <1>1, <2>1, <2>3, <2>6 DEF SiftIs, KeepsList
<1>5. KeepsList(h, h, z) /\ \A g : KeepsList(g, h, z) => g \in Structures
  BY DEF KeepsList
<1>6. h \in A /\ \A k \in 1 .. half : \A g \in A : Heap!Heapify(g, half - k) \in A
  <2>1. \A k \in 1 .. half : half - k \in 0 .. half - 1
    BY <1>3
  <2> QED  BY <1>4, <1>5, <2>1
<1>7. StepsOf(G, half, A)
  <2> HIDE DEF A
  <2> QED  BY <1>6 DEF StepsOf
<1>8. PICK e : Iterates(e, h, G, half, A)
  <2> HIDE DEF G, A
  <2> QED  BY <1>3, <1>6, <1>7, IterateExists
<1>9. e \in [0 .. half -> A] /\ e[0] = h /\ \A k \in 1 .. half : e[k] = Heap!Heapify(e[k - 1], half - k)
  <2>1. e \in [0 .. half -> A] /\ e[0] = h /\ \A k \in 1 .. half : e[k] = G[k][e[k - 1]]
    <3> HIDE DEF A, G
    <3> QED  BY <1>8 DEF Iterates
  <2>2. ASSUME NEW k \in 1 .. half  PROVE e[k] = Heap!Heapify(e[k - 1], half - k)
    <3>1. k - 1 \in 0 .. half
      BY <1>3
    <3>2. e[k - 1] \in A
      BY <2>1, <3>1
    <3> HIDE DEF A
    <3>3. G[k][e[k - 1]] = Heap!Heapify(e[k - 1], half - k)
      BY <3>2
    <3> QED  BY <2>1, <3>3
  <2> QED  BY <2>1, <2>2
<1>10. e = Body(e)
  <2> HIDE DEF A
  <2> QED  BY <1>3, <1>9
<1>11. Heap!initialHeap(h) = d[half]
  BY <1>1, <1>2 DEF Heap!initialHeap
<1>12. d = Body(d)
  <2> HIDE DEF Body
  <2> QED  BY <1>10
<1> HIDE DEF d
<1>13. d[0] = h /\ \A k \in 0 .. half - 1 : d[k + 1] = Heap!Heapify(d[k], half - (k + 1))
  <2>1. d[0] = h
    BY <1>3, <1>12
  <2>2. ASSUME NEW k \in 0 .. half - 1  PROVE d[k + 1] = Heap!Heapify(d[k], half - (k + 1))
    <3>1. k + 1 \in 0 .. half /\ k + 1 # 0 /\ (k + 1) - 1 = k
      BY <1>3
    <3>2. d[k + 1] = Heap!Heapify(d[(k + 1) - 1], half - (k + 1))
      BY <1>12, <3>1
    <3> QED  BY <3>1, <3>2
  <2> QED  BY <2>1, <2>2
<1> HIDE DEF A, G, Body
<1>14. 0 .. half \subseteq {k \in Nat : KeepsList(d[k], h, z) /\ HeapFrom(d[k].list, half - k, n)}
  <2> DEFINE S == {k \in Nat : KeepsList(d[k], h, z) /\ HeapFrom(d[k].list, half - k, n)}
  <2>1. 0 \in S
    <3>1. HeapFrom(h.list, half - 0, n)
      BY <1>3 DEF HeapFrom, Child
    <3> QED  BY <1>5, <1>13, <3>1
  <2>2. ASSUME NEW k \in 0 .. half - 1, k \in S  PROVE k + 1 \in S
    <3>1. d[k + 1] = Heap!Heapify(d[k], half - (k + 1)) /\ k + 1 \in Nat /\ half - (k + 1) \in 0 .. half - 1
          /\ (half - (k + 1)) + 1 = half - k
      BY <1>3, <1>13
    <3>2. KeepsList(d[k], h, z) /\ HeapFrom(d[k].list, (half - (k + 1)) + 1, n)
      BY <2>2, <3>1
    <3> QED  BY <1>4, <3>1, <3>2
  <2> HIDE DEF S
  <2>3. 0 .. half \subseteq S
    BY <1>3, <2>1, <2>2, UpToInduction
  <2> QED  BY <2>3 DEF S
<1>15. KeepsList(d[half], h, z) /\ HeapFrom(d[half].list, 0, n)
  <2>1. half \in 0 .. half /\ half - half = 0
    BY <1>3
  <2> QED  BY <1>14, <2>1
<1> QED  BY <1>1, <1>11, <1>15

-----------------------------------------------------------------------------
\* The stack of unused slots when n are used.
StackFor(n) == [i \in 1 .. MAXSIZE - n |-> MAXSIZE - i]

\* The stack hands out the next slot, and takes the last one back.
LEMMA StackIs ==
  ASSUME NEW n, n \in 0 .. MAXSIZE
  PROVE  /\ StackFor(n) \in Seq(Heap!Slots)
         /\ n < MAXSIZE => Heap!topStack(StackFor(n)) = n /\ Heap!popStack(StackFor(n)) = StackFor(n + 1)
         /\ n > 0 => Heap!pushStack(StackFor(n), n - 1) = StackFor(n - 1)
<1>1. PICK s : s = StackFor(n)
  OBVIOUS
<1>2. MAXSIZE \in Nat /\ n \in Nat /\ MAXSIZE - n \in Nat
  BY HeapSizes
<1>3. s \in Seq(Heap!Slots) /\ Len(s) = MAXSIZE - n /\ DOMAIN s = 1 .. MAXSIZE - n
  BY <1>1, <1>2 DEF StackFor, Heap!Slots
<1>4. \A i \in 1 .. MAXSIZE - n : s[i] = MAXSIZE - i
  BY <1>1 DEF StackFor
<1>5. ASSUME n < MAXSIZE  PROVE Heap!topStack(s) = n /\ Heap!popStack(s) = StackFor(n + 1)
  <2>1. Len(s) \in Nat \ {0} /\ Len(s) \in 1 .. MAXSIZE - n
    BY <1>2, <1>3, <1>5
  <2>2. s # <<>>
    BY <2>1
  <2>3. Heap!topStack(s) = n
    BY <1>2, <1>3, <1>4, <2>1, <2>2 DEF Heap!topStack
  <2>4. Heap!popStack(s) = SubSeq(s, 1, Len(s) - 1)
    BY <2>2 DEF Heap!popStack
  <2>5. SubSeq(s, 1, Len(s) - 1) = [i \in 1 .. Len(s) - 1 |-> s[i]]
    BY <1>3, <2>1
  <2>6. \A i \in 1 .. Len(s) - 1 : s[i] = MAXSIZE - i
    BY <1>2, <1>3, <1>4
  <2>7. Len(s) - 1 = MAXSIZE - (n + 1)
    BY <1>2, <1>3
  <2> QED  BY <2>3, <2>4, <2>5, <2>6, <2>7 DEF StackFor
<1>6. ASSUME n > 0  PROVE Heap!pushStack(s, n - 1) = StackFor(n - 1)
  <2>1. PICK t : t = Append(s, n - 1)
    OBVIOUS
  <2>2. PICK u : u = StackFor(n - 1)
    OBVIOUS
  <2>3. n - 1 \in Heap!Slots
    BY <1>2, <1>6 DEF Heap!Slots
  <2>4. t \in Seq(Heap!Slots) /\ Len(t) = Len(s) + 1 /\ t[Len(s) + 1] = n - 1 /\ \A i \in 1 .. Len(s) : t[i] = s[i]
    BY <1>3, <2>1, <2>3
  <2>5. u \in Seq(Heap!Slots) /\ Len(u) = MAXSIZE - (n - 1) /\ \A i \in 1 .. MAXSIZE - (n - 1) : u[i] = MAXSIZE - i
    BY <1>2, <1>6, <2>2 DEF StackFor, Heap!Slots
  <2>6. ASSUME NEW i \in 1 .. Len(t)  PROVE t[i] = u[i]
    <3>1. i \in 1 .. Len(s) \/ i = Len(s) + 1
      BY <1>2, <1>3, <2>4
    <3>2. CASE i \in 1 .. Len(s)
      <4>1. t[i] = MAXSIZE - i
        BY <1>3, <1>4, <2>4, <3>2
      <4>2. i \in 1 .. MAXSIZE - (n - 1)
        BY <1>2, <1>3, <3>2
      <4> QED  BY <2>5, <4>1, <4>2
    <3>3. CASE i = Len(s) + 1
      <4>1. i \in 1 .. MAXSIZE - (n - 1) /\ MAXSIZE - i = n - 1
        BY <1>2, <1>3, <3>3
      <4> QED  BY <2>4, <2>5, <3>3, <4>1
    <3> QED  BY <3>1, <3>2, <3>3
  <2>7. Len(t) = Len(u)
    BY <1>2, <1>3, <2>4, <2>5
  <2>8. t = u
    BY <2>4, <2>5, <2>6, <2>7, SeqEqual
  <2> QED  BY <2>1, <2>2, <2>8 DEF Heap!pushStack
<1> QED  BY <1>1, <1>3, <1>5, <1>6

\* A new student in front.
LinkedIs(g, h, n, z, stu) ==
  /\ g \in Structures /\ g.size = n + 1 /\ g.unusedIndexs = StackFor(n + 1)
  /\ ListIs(g.list, n + 1, <<stu>> \o z, n)
  /\ g.list[n].id = stu.id
  /\ \A i \in 0 .. n - 1 : g.list[i].id = h.list[i].id

\* Linked keeps the list behind the new student, in the next free slot.
LEMMA LinkedKeeps ==
  ASSUME NEW h, NEW n, NEW z, NEW stu,
         h \in Structures, n = h.size, n < MAXSIZE, ListIs(h.list, n, z, h.headIndex),
         h.unusedIndexs = StackFor(n), z \in Seq(Heap!Student), Len(z) = n, stu \in Heap!Student
  PROVE  LinkedIs(Heap!Linked(h, stu), h, n, z, stu)
<1>1. n \in Nat /\ n \in 0 .. MAXSIZE /\ n \in Heap!Slots /\ n + 1 \in 0 .. MAXSIZE /\ 0 .. n - 1 \subseteq Heap!Slots
  BY HeapSizes DEF Structures, Heap!Slots
<1>2. Heap!topStack(h.unusedIndexs) = n /\ Heap!popStack(h.unusedIndexs) = StackFor(n + 1) /\ StackFor(n + 1) \in Seq(Heap!Slots)
  BY <1>1, StackIs
<1>3. PICK w : Links(h.list, w, n) /\ Spells(h.list, w, n, z) /\ h.headIndex = FirstOf(w, n)
  BY DEF ListIs
<1>4. PICK l : l = h.list
  OBVIOUS
<1>5. PICK first : first = h.headIndex
  OBVIOUS
<1>6. PICK node : node = [id |-> stu.id, name |-> stu.name, preNode |-> Heap!Nil, nextNode |-> first]
  OBVIOUS
<1>7. PICK old : old = IF first = Heap!Nil THEN l ELSE Heap!SetPre(l, first, n)
  OBVIOUS
<1>8. PICK m : m = [old EXCEPT ![n] = node]
  OBVIOUS
<1>9. PICK g : g = [h EXCEPT !.list = m, !.size = n + 1, !.unusedIndexs = StackFor(n + 1)]
  OBVIOUS
<1>10. Heap!Linked(h, stu) = g
  BY <1>2, <1>4, <1>5, <1>6, <1>7, <1>8, <1>9 DEF Heap!Linked
<1>11. l \in Lists /\ first \in LinkTo /\ n \in LinkTo
  BY <1>1, <1>4, <1>5 DEF Structures, LinkTo
<1>12. /\ n = 0 => first = Heap!Nil
       /\ n # 0 => first = w[1] /\ first \in 0 .. n - 1 /\ first # Heap!Nil /\ first # n
  <2>1. n # 0 => first \in 0 .. n - 1
    BY <1>5, FirstIs
  <2> QED  BY <1>1, <1>3, <1>5, <2>1 DEF FirstOf, Heap!Nil
<1>13. /\ old \in Lists
       /\ \A i \in Heap!Slots : old[i].id = l[i].id /\ old[i].name = l[i].name /\ old[i].nextNode = l[i].nextNode
       /\ \A i \in Heap!Slots : old[i].preNode = IF i = first THEN n ELSE l[i].preNode
  <2>1. CASE first = Heap!Nil
    BY <1>7, <1>11, <2>1 DEF Heap!Slots, Heap!Nil
  <2>2. CASE first # Heap!Nil
    <3>1. first \in Heap!Slots
      BY <1>11, <2>2 DEF LinkTo
    <3>2. PreIs(Heap!SetPre(l, first, n), l, first, n)
      BY <1>11, <3>1, PreSet
    <3> QED  BY <1>7, <2>2, <3>2 DEF PreIs
  <2> QED  BY <2>1, <2>2
<1>14. node \in AnyNode /\ node.id = stu.id /\ node.name = stu.name /\ node.preNode = Heap!Nil /\ node.nextNode = first
  BY <1>6, <1>11 DEF AnyNode, Heap!Student, LinkTo
<1>15. m \in Lists /\ m[n] = node /\ \A i \in Heap!Slots : i # n => m[i] = old[i]
  BY <1>1, <1>8, <1>13, <1>14 DEF Lists
<1>16. g \in Structures /\ g.list = m /\ g.size = n + 1 /\ g.unusedIndexs = StackFor(n + 1)
  BY <1>1, <1>2, <1>9, <1>15 DEF Structures
<1>17. PICK v : v = [k \in 1 .. n + 1 |-> IF k = 1 THEN n ELSE w[k - 1]]
  OBVIOUS
<1>18. v[1] = n /\ \A k \in 1 .. n : v[k + 1] = w[k] /\ w[k] \in 0 .. n - 1 /\ w[k] # n /\ w[k] \in Heap!Slots
  <2>1. v[1] = n
    BY <1>1, <1>17
  <2>2. ASSUME NEW k \in 1 .. n  PROVE v[k + 1] = w[k]
    <3>1. k + 1 \in 1 .. n + 1 /\ k + 1 # 1 /\ (k + 1) - 1 = k
      BY <1>1
    <3> QED  BY <1>17, <3>1
  <2>3. \A k \in 1 .. n : w[k] \in 0 .. n - 1
    BY <1>3 DEF Links
  <2> QED  BY <1>1, <2>1, <2>2, <2>3
<1>19. \A j \in 1 .. n + 1 : j = 1 \/ \E k \in 1 .. n : j = k + 1
  <2> TAKE j \in 1 .. n + 1
  <2>1. j # 1 => j - 1 \in 1 .. n /\ j = (j - 1) + 1
    BY <1>1
  <2> QED  BY <2>1
<1>20. Links(m, v, n + 1)
  <2>1. v \in [1 .. n + 1 -> 0 .. (n + 1) - 1]
    <3>1. ASSUME NEW k \in 1 .. n + 1  PROVE v[k] \in 0 .. (n + 1) - 1
      <4>1. CASE k = 1
        BY <1>1, <1>18, <4>1
      <4>2. CASE k # 1
        <5>1. PICK a \in 1 .. n : k = a + 1
          BY <1>19, <4>2
        <5>2. v[k] \in 0 .. n - 1
          BY <1>18, <5>1
        <5> QED  BY <1>1, <5>2
      <4> QED  BY <4>1, <4>2
    <3> QED  BY <1>17, <3>1
  <2>2. ASSUME NEW j \in 1 .. n + 1, NEW k \in 1 .. n + 1, v[j] = v[k]  PROVE j = k
    <3>1. CASE j = 1 \/ k = 1
      BY <1>18, <1>19, <2>2, <3>1
    <3>2. CASE j # 1 /\ k # 1
      <4>1. PICK a \in 1 .. n, b \in 1 .. n : j = a + 1 /\ k = b + 1
        BY <1>19, <3>2
      <4>2. w[a] = w[b]
        BY <1>18, <2>2, <4>1
      <4>3. a = b
        BY <1>3, <4>2 DEF Links
      <4> QED  BY <4>1, <4>3
    <3> QED  BY <3>1, <3>2
  <2>3. ASSUME NEW i \in 0 .. (n + 1) - 1  PROVE \E k \in 1 .. n + 1 : v[k] = i
    <3>1. CASE i = n
      BY <1>1, <1>18, <3>1
    <3>2. CASE i # n
      <4>1. i \in 0 .. n - 1
        BY <1>1, <3>2
      <4>2. PICK k \in 1 .. n : w[k] = i
        BY <1>3, <4>1 DEF Links
      <4>3. k + 1 \in 1 .. n + 1 /\ v[k + 1] = i
        BY <1>1, <1>18, <4>2
      <4> QED  BY <4>3
    <3> QED  BY <3>1, <3>2
  <2>4. ASSUME NEW k \in 1 .. n + 1  PROVE m[v[k]].nextNode = IF k = n + 1 THEN Heap!Nil ELSE v[k + 1]
    <3>1. CASE k = 1
      <4>1. m[v[k]].nextNode = first
        BY <1>14, <1>15, <1>18, <3>1
      <4>2. CASE n = 0
        BY <1>12, <3>1, <4>1, <4>2
      <4>3. CASE n # 0
        <5>1. 1 \in 1 .. n /\ k # n + 1
          BY <1>1, <3>1, <4>3
        <5>2. v[1 + 1] = w[1]
          BY <1>18, <5>1
        <5> QED  BY <1>12, <3>1, <4>1, <4>3, <5>1, <5>2
      <4> QED  BY <4>2, <4>3
    <3>2. CASE k # 1
      <4>1. PICK a \in 1 .. n : k = a + 1
        BY <1>19, <3>2
      <4>2. m[v[k]].nextNode = l[w[a]].nextNode
        BY <1>13, <1>15, <1>18, <4>1
      <4>3. l[w[a]].nextNode = IF a = n THEN Heap!Nil ELSE w[a + 1]
        BY <1>3, <1>4 DEF Links
      <4>4. a # n => a + 1 \in 1 .. n
        BY <1>1
      <4>5. a # n => v[k + 1] = w[a + 1]
        BY <1>18, <4>1, <4>4
      <4> QED  BY <1>1, <4>1, <4>2, <4>3, <4>5
    <3> QED  BY <3>1, <3>2
  <2>5. ASSUME NEW k \in 1 .. n + 1  PROVE m[v[k]].preNode = IF k = 1 THEN Heap!Nil ELSE v[k - 1]
    <3>1. CASE k = 1
      BY <1>14, <1>15, <1>18, <3>1
    <3>2. CASE k # 1
      <4>1. PICK a \in 1 .. n : k = a + 1 /\ k - 1 = a
        <5>1. PICK a \in 1 .. n : k = a + 1
          BY <1>19, <3>2
        <5> QED  BY <5>1
      <4>2. m[v[k]].preNode = IF w[a] = first THEN n ELSE l[w[a]].preNode
        <5>1. v[k] = w[a] /\ w[a] \in Heap!Slots /\ w[a] # n
          BY <1>18, <4>1
        <5>2. m[w[a]] = old[w[a]]
          BY <1>15, <5>1
        <5> QED  BY <1>13, <5>1, <5>2
      <4>3. l[w[a]].preNode = IF a = 1 THEN Heap!Nil ELSE w[a - 1]
        BY <1>3, <1>4 DEF Links
      <4>4. w[a] = first <=> a = 1
        <5>1. n # 0 /\ 1 \in 1 .. n
          BY <1>1
        <5>2. w[a] = w[1] => a = 1
          BY <1>3, <5>1 DEF Links
        <5> QED  BY <1>12, <5>1, <5>2
      <4>5. a # 1 => v[a] = w[a - 1]
        <5>1. a # 1 => a - 1 \in 1 .. n /\ (a - 1) + 1 = a
          BY <1>1
        <5> QED  BY <1>18, <5>1
      <4> QED  BY <1>18, <3>2, <4>1, <4>2, <4>3, <4>4, <4>5
    <3> QED  BY <3>1, <3>2
  <2> QED  BY <1>1, <2>1, <2>2, <2>3, <2>4, <2>5 DEF Links
<1>21. PICK y : y = <<stu>> \o z
  OBVIOUS
<1>22. y[1] = stu /\ \A k \in 1 .. n : y[k + 1] = z[k]
  <2>1. <<stu>> \in Seq(Heap!Student) /\ Len(<<stu>>) = 1 /\ <<stu>>[1] = stu
    OBVIOUS
  <2>2. y[1] = stu
    BY <1>21, <2>1
  <2>3. ASSUME NEW k \in 1 .. n  PROVE y[k + 1] = z[k]
    <3>1. k + 1 \in Len(<<stu>>) + 1 .. Len(<<stu>>) + Len(z) /\ (k + 1) - Len(<<stu>>) = k
      BY <1>1, <2>1
    <3>2. (<<stu>> \o z)[k + 1] = z[(k + 1) - Len(<<stu>>)]
      BY <2>1, <3>1, ConcatAt
    <3> QED  BY <1>21, <3>1, <3>2
  <2> QED  BY <2>2, <2>3
<1>23. Spells(m, v, n + 1, y)
  <2> SUFFICES ASSUME NEW k \in 1 .. n + 1  PROVE y[k].id = m[v[k]].id /\ y[k].name = m[v[k]].name
    BY DEF Spells
  <2>1. CASE k = 1
    BY <1>14, <1>15, <1>18, <1>22, <2>1
  <2>2. CASE k # 1
    <3>1. PICK a \in 1 .. n : k = a + 1
      BY <1>19, <2>2
    <3>2. m[v[k]].id = l[w[a]].id /\ m[v[k]].name = l[w[a]].name
      BY <1>13, <1>15, <1>18, <3>1
    <3> QED  BY <1>3, <1>4, <1>22, <3>1, <3>2 DEF Spells
  <2> QED  BY <2>1, <2>2
<1>24. ListIs(m, n + 1, y, n)
  <2>1. FirstOf(v, n + 1) = n
    BY <1>1, <1>18 DEF FirstOf
  <2> QED  BY <1>20, <1>23, <2>1 DEF ListIs
<1>25. \A i \in 0 .. n - 1 : m[i].id = l[i].id
  BY <1>1, <1>13, <1>15
<1>26. LinkedIs(g, h, n, z, stu)
  BY <1>4, <1>14, <1>15, <1>16, <1>21, <1>24, <1>25 DEF LinkedIs
<1> QED  BY <1>10, <1>26

\* A heap, except that the student in slot at may be too small for its slot.
Rising(l, n, at) ==
  /\ \A p \in 0 .. n - 1, c \in 0 .. n - 1 : Child(c, p) /\ c # at => l[p].id <= l[c].id
  /\ \A p \in 0 .. n - 1, c \in 0 .. n - 1 : Child(at, p) /\ Child(c, at) => l[p].id <= l[c].id

\* One exchange on the way up.
LEMMA RiseOnce ==
  ASSUME NEW l, NEW m, NEW n \in Nat, NEW at \in 0 .. n - 1, NEW parent \in 0 .. n - 1,
         \A i \in 0 .. n - 1 : l[i].id \in Int,
         \A i \in 0 .. n - 1 : m[i].id = l[Other(i, parent, at)].id,
         Child(at, parent), l[at].id < l[parent].id,
         Rising(l, n, at)
  PROVE  Rising(m, n, parent)
<1>0. at # parent /\ at > parent
  BY DEF Child
<1>1. m[at].id = l[parent].id /\ m[parent].id = l[at].id
  BY <1>0 DEF Other
<1>2. \A i \in 0 .. n - 1 : i # at /\ i # parent => m[i].id = l[i].id
  BY <1>0 DEF Other
<1>3. ASSUME NEW p \in 0 .. n - 1, NEW c \in 0 .. n - 1, Child(c, p), c # parent  PROVE m[p].id <= m[c].id
  <2>1. CASE c = at
    <3>1. p = parent
      BY <1>3, <2>1 DEF Child
    <3> QED  BY <1>1, <2>1, <3>1
  <2>2. CASE c # at /\ p = parent
    <3>1. m[c].id = l[c].id
      BY <1>2, <1>3, <2>2
    <3>2. l[parent].id <= l[c].id
      BY <1>3, <2>2 DEF Rising
    <3> QED  BY <1>1, <2>2, <3>1, <3>2
  <2>3. CASE c # at /\ p = at
    <3>1. m[c].id = l[c].id
      BY <1>2, <1>3, <2>3
    <3>2. l[parent].id <= l[c].id
      BY <1>3, <2>3 DEF Rising
    <3> QED  BY <1>1, <2>3, <3>1, <3>2
  <2>4. CASE c # at /\ p # at /\ p # parent
    <3>1. m[c].id = l[c].id /\ m[p].id = l[p].id
      BY <1>2, <1>3, <2>4
    <3>2. l[p].id <= l[c].id
      BY <1>3, <2>4 DEF Rising
    <3> QED  BY <3>1, <3>2
  <2> QED  BY <2>1, <2>2, <2>3, <2>4
<1>4. ASSUME NEW p \in 0 .. n - 1, NEW c \in 0 .. n - 1, Child(parent, p), Child(c, parent)  PROVE m[p].id <= m[c].id
  <2>1. p # at /\ p # parent /\ c # parent
    BY <1>0, <1>4 DEF Child
  <2>2. m[p].id = l[p].id /\ l[p].id <= l[parent].id
    BY <1>0, <1>2, <1>4, <2>1 DEF Rising
  <2>3. CASE c = at
    BY <1>1, <2>2, <2>3
  <2>4. CASE c # at
    <3>1. m[c].id = l[c].id /\ l[parent].id <= l[c].id
      BY <1>2, <1>4, <2>1, <2>4 DEF Rising
    <3> QED  BY <2>2, <3>1
  <2> QED  BY <2>3, <2>4
<1> QED  BY <1>3, <1>4 DEF Rising

\* The slot above.
LEMMA ParentIs ==
  ASSUME NEW i \in Nat, i > 0
  PROVE  /\ (i - 1) \div 2 \in 0 .. i - 1 /\ Child(i, (i - 1) \div 2)
         /\ \A p \in Nat : Child(i, p) => p = (i - 1) \div 2
<1>1. PICK q : q = (i - 1) \div 2
  OBVIOUS
<1>2. q \in Int /\ 2 * q <= i - 1 /\ i - 1 <= 2 * q + 1
  BY <1>1
<1>3. q \in 0 .. i - 1 /\ Child(i, q)
  BY <1>2 DEF Child
<1>4. \A p \in Nat : Child(i, p) => p = q
  BY <1>2 DEF Child
<1> QED  BY <1>1, <1>3, <1>4

UpInv(s, g, id, n, y, ordered) ==
  /\ s = [h |-> s.h, at |-> s.at] /\ s.h \in Structures /\ s.at \in 0 .. n - 1
  /\ s.h.size = g.size /\ s.h.unusedIndexs = g.unusedIndexs
  /\ ListIs(s.h.list, n, y, s.at)
  /\ s.h.list[s.at].id = id
  /\ ordered => Rising(s.h.list, n, s.at)

UpAtRest(s, id) == ~(s.at > 0 /\ id < s.h.list[(s.at - 1) \div 2].id)

\* A round of the loop upwards keeps UpInv, and moves up unless it is at rest.
LEMMA UpStep ==
  ASSUME NEW s, NEW g, NEW id, NEW n \in Nat, NEW y, NEW ordered, UpInv(s, g, id, n, y, ordered)
  PROVE  /\ UpInv(Heap!Up(s, id), g, id, n, y, ordered)
         /\ UpAtRest(s, id) => Heap!Up(s, id) = s
         /\ ~UpAtRest(s, id) => Heap!Up(s, id).at < s.at
<1>1. CASE UpAtRest(s, id)
  <2>1. Heap!Up(s, id) = s
    BY <1>1 DEF UpAtRest, Heap!Up
  <2> QED  BY <1>1, <2>1
<1>2. CASE ~UpAtRest(s, id)
  <2>1. PICK parent : parent = (s.at - 1) \div 2
    OBVIOUS
  <2>2. PICK f : f = Heap!swapHeapNode(s.h, parent, s.at)
    OBVIOUS
  <2>3. Heap!Up(s, id) = [h |-> f, at |-> parent]
    BY <1>2, <2>1, <2>2 DEF UpAtRest, Heap!Up
  <2>4. /\ s.h \in Structures /\ s.at \in 0 .. n - 1 /\ s.at > 0 /\ s.at \in Nat
        /\ id < s.h.list[parent].id /\ s.h.list[s.at].id = id
        /\ ListIs(s.h.list, n, y, s.at)
    BY <1>2, <2>1 DEF UpAtRest, UpInv
  <2>5. parent \in 0 .. s.at - 1 /\ Child(s.at, parent)
    BY <2>1, <2>4, ParentIs
  <2>6. parent \in 0 .. n - 1 /\ parent # s.at /\ parent < s.at
    BY <2>4, <2>5
  <2>7. \A i \in 0 .. n - 1 : s.h.list[i].id \in Int
    <3>1. n \in 0 .. MAXSIZE
      BY <2>4, FirstIs
    <3>2. 0 .. n - 1 \subseteq Heap!Slots
      BY <3>1, HeapSizes DEF Heap!Slots
    <3>3. s.h.list \in Lists
      BY <2>4 DEF Structures
    <3> QED  BY <3>2, <3>3, IdsAreInt
  <2>8. SwapIs(f, s.h, n, y, s.at, parent, s.at)
    BY <2>2, <2>4, <2>6, SwapNode
  <2>9. Other(s.at, parent, s.at) = parent /\ Other(parent, parent, s.at) = s.at
    BY DEF Other
  <2>10. /\ f \in Structures /\ f.size = g.size /\ f.unusedIndexs = g.unusedIndexs
         /\ ListIs(f.list, n, y, parent) /\ f.list[parent].id = id
    BY <2>4, <2>6, <2>8, <2>9 DEF SwapIs, UpInv
  <2>11. ASSUME ordered  PROVE Rising(f.list, n, parent)
    <3>1. Rising(s.h.list, n, s.at)
      BY <2>11 DEF UpInv
    <3>2. \A i \in 0 .. n - 1 : f.list[i].id = s.h.list[Other(i, parent, s.at)].id
      BY <2>8 DEF SwapIs
    <3>3. s.h.list[s.at].id < s.h.list[parent].id
      BY <2>4
    <3> QED  BY <2>4, <2>5, <2>6, <2>7, <3>1, <3>2, <3>3, RiseOnce
  <2>12. PICK t : t = [h |-> f, at |-> parent]
    OBVIOUS
  <2>13. t.h = f /\ t.at = parent /\ t = [h |-> t.h, at |-> t.at]
    BY <2>12
  <2>14. UpInv(t, g, id, n, y, ordered)
    BY <2>6, <2>10, <2>11, <2>13 DEF UpInv
  <2> QED  BY <1>2, <2>3, <2>6, <2>12, <2>13, <2>14
<1> QED  BY <1>1, <1>2

\* Where the loop upwards rests, the heap is in order.
LEMMA UpRestIsHeap ==
  ASSUME NEW s, NEW g, NEW id, NEW n \in Nat, NEW y, NEW ordered,
         UpInv(s, g, id, n, y, ordered), UpAtRest(s, id), ordered
  PROVE  HeapFrom(s.h.list, 0, n)
<1>1. Rising(s.h.list, n, s.at) /\ s.h \in Structures /\ s.at \in 0 .. n - 1 /\ s.h.list[s.at].id = id
      /\ ListIs(s.h.list, n, y, s.at)
  BY DEF UpInv
<1>2. \A i \in 0 .. n - 1 : s.h.list[i].id \in Int
  <2>1. n \in 0 .. MAXSIZE
    BY <1>1, FirstIs
  <2>2. 0 .. n - 1 \subseteq Heap!Slots
    BY <2>1, HeapSizes DEF Heap!Slots
  <2>3. s.h.list \in Lists
    BY <1>1 DEF Structures
  <2> QED  BY <2>2, <2>3, IdsAreInt
<1>3. ASSUME NEW p \in 0 .. n - 1, NEW c \in 0 .. n - 1, Child(c, p)  PROVE s.h.list[p].id <= s.h.list[c].id
  <2>1. CASE c # s.at
    BY <1>1, <1>3, <2>1 DEF Rising
  <2>2. CASE c = s.at
    <3>1. s.at > 0 /\ s.at \in Nat /\ p \in Nat
      BY <1>3, <2>2 DEF Child
    <3>2. p = (s.at - 1) \div 2
      BY <1>3, <2>2, <3>1, ParentIs
    <3>3. ~(id < s.h.list[p].id)
      BY <3>1, <3>2 DEF UpAtRest
    <3> QED  BY <1>1, <1>2, <2>2, <3>3
  <2> QED  BY <2>1, <2>2
<1> QED  BY <1>3 DEF HeapFrom

\* The whole loop, with headIndex where it ends.
RiseIs(f, g, n, y, ordered) ==
  /\ f \in Structures /\ f.size = g.size /\ f.unusedIndexs = g.unusedIndexs
  /\ ListIs(f.list, n, y, f.headIndex)
  /\ ordered => HeapFrom(f.list, 0, n)

\* All rounds of the loop upwards; the new student ends up at the head of the list.
LEMMA SiftUpIs ==
  ASSUME NEW g, NEW id, NEW b, NEW n, NEW y, NEW ordered,
         g \in Structures, b \in Nat, n = b + 1, ListIs(g.list, n, y, b), g.list[b].id = id,
         ordered => Rising(g.list, n, b)
  PROVE  RiseIs(Heap!SiftUp(g, id, b), g, n, y, ordered)
<1>2. PICK s0 : s0 = [h |-> g, at |-> b]
  OBVIOUS
<1> DEFINE Good(s) == UpInv(s, g, id, n, y, ordered)
           A == {s \in [h : Structures, at : 0 .. n - 1] : Good(s)}
           G == [k \in 1 .. b |-> [s \in A |-> Heap!Up(s, id)]]
           Body(f) == [k \in 0 .. b |-> IF k = 0 THEN s0 ELSE Heap!Up(f[k - 1], id)]
           d == CHOOSE f : f = Body(f)
<1>3. n \in Nat /\ b \in 0 .. n - 1
  OBVIOUS
<1>4. Good(s0)
  <2>1. s0.h = g /\ s0.at = b /\ s0 = [h |-> s0.h, at |-> s0.at]
    BY <1>2
  <2> QED  BY <1>3, <2>1 DEF UpInv
<1>5. \A s : Good(s) => s \in A
  <2> SUFFICES ASSUME NEW s, Good(s)  PROVE s \in [h : Structures, at : 0 .. n - 1]
    OBVIOUS
  <2>1. s = [h |-> s.h, at |-> s.at] /\ s.h \in Structures /\ s.at \in 0 .. n - 1
    BY DEF UpInv
  <2> QED  BY <2>1
<1>6. \A s : Good(s) => Good(Heap!Up(s, id)) /\ (UpAtRest(s, id) => Heap!Up(s, id) = s)
                        /\ (~UpAtRest(s, id) => Heap!Up(s, id).at < s.at)
  BY <1>3, UpStep
<1>7. s0 \in A /\ \A s \in A : Heap!Up(s, id) \in A
  <2> HIDE DEF Good
  <2>1. \A s \in A : Good(s)
    OBVIOUS
  <2> HIDE DEF A
  <2> QED  BY <1>4, <1>5, <1>6, <2>1
<1>8. StepsOf(G, b, A)
  <2> HIDE DEF A
  <2> QED  BY <1>7 DEF StepsOf
<1>9. PICK e : Iterates(e, s0, G, b, A)
  <2> HIDE DEF G, A
  <2> QED  BY <1>7, <1>8, IterateExists
<1>10. e \in [0 .. b -> A] /\ e[0] = s0 /\ \A k \in 1 .. b : e[k] = Heap!Up(e[k - 1], id)
  <2>1. e \in [0 .. b -> A] /\ e[0] = s0 /\ \A k \in 1 .. b : e[k] = G[k][e[k - 1]]
    <3> HIDE DEF A, G
    <3> QED  BY <1>9 DEF Iterates
  <2>2. ASSUME NEW k \in 1 .. b  PROVE e[k] = Heap!Up(e[k - 1], id)
    <3>1. k - 1 \in 0 .. b
      OBVIOUS
    <3>2. e[k - 1] \in A
      BY <2>1, <3>1
    <3> HIDE DEF A
    <3>3. G[k][e[k - 1]] = Heap!Up(e[k - 1], id)
      BY <3>2
    <3> QED  BY <2>1, <3>3
  <2> QED  BY <2>1, <2>2
<1>11. e = Body(e)
  <2> HIDE DEF A
  <2> QED  BY <1>10
<1>12. Heap!SiftUp(g, id, b) = [d[b].h EXCEPT !.headIndex = d[b].at]
  BY <1>2 DEF Heap!SiftUp
<1>13. d = Body(d)
  <2> HIDE DEF Body
  <2> QED  BY <1>11
<1> HIDE DEF d
<1>14. d[0] = s0 /\ \A k \in 0 .. b - 1 : d[k + 1] = Heap!Up(d[k], id)
  <2>1. d[0] = s0
    BY <1>13
  <2>2. ASSUME NEW k \in 0 .. b - 1  PROVE d[k + 1] = Heap!Up(d[k], id)
    <3>1. k + 1 \in 0 .. b /\ k + 1 # 0 /\ (k + 1) - 1 = k
      OBVIOUS
    <3>2. d[k + 1] = Heap!Up(d[(k + 1) - 1], id)
      BY <1>13, <3>1
    <3> QED  BY <3>1, <3>2
  <2> QED  BY <2>1, <2>2
<1> HIDE DEF A, G, Body
<1>15. 0 .. b \subseteq {k \in Nat : Good(d[k]) /\ (UpAtRest(d[k], id) \/ d[k].at + k <= b)}
  <2> DEFINE S == {k \in Nat : Good(d[k]) /\ (UpAtRest(d[k], id) \/ d[k].at + k <= b)}
  <2>1. 0 \in S
    <3>1. d[0].at + 0 <= b
      BY <1>2, <1>14
    <3> HIDE DEF Good
    <3> QED  BY <1>4, <1>14, <3>1
  <2>2. ASSUME NEW k \in 0 .. b - 1, k \in S  PROVE k + 1 \in S
    <3>1. d[k + 1] = Heap!Up(d[k], id) /\ k + 1 \in Nat
      BY <1>14
    <3>2. Good(d[k]) /\ (UpAtRest(d[k], id) \/ d[k].at + k <= b)
      BY <2>2
    <3>3. d[k].at \in Int /\ d[k + 1].at \in Int
      <4>1. Good(d[k + 1])
        <5> HIDE DEF Good
        <5> QED  BY <1>6, <3>1, <3>2
      <4> QED  BY <3>2, <4>1 DEF UpInv
    <3> HIDE DEF Good
    <3>4. Good(d[k + 1]) /\ (UpAtRest(d[k], id) => d[k + 1] = d[k]) /\ (~UpAtRest(d[k], id) => d[k + 1].at < d[k].at)
      BY <1>6, <3>1, <3>2
    <3>5. UpAtRest(d[k + 1], id) \/ d[k + 1].at + (k + 1) <= b
      BY <3>2, <3>3, <3>4
    <3> QED  BY <3>1, <3>4, <3>5
  <2> HIDE DEF S
  <2>3. 0 .. b \subseteq S
    BY <2>1, <2>2, UpToInduction
  <2> QED  BY <2>3 DEF S
<1>16. Good(d[b]) /\ (UpAtRest(d[b], id) \/ d[b].at + b <= b)
  <2> HIDE DEF Good
  <2> QED  BY <1>15
<1>17. UpAtRest(d[b], id)
  <2>1. d[b].at \in 0 .. n - 1
    BY <1>16 DEF UpInv
  <2> QED  BY <1>16, <2>1 DEF UpAtRest
<1>18. ordered => HeapFrom(d[b].h.list, 0, n)
  BY <1>3, <1>16, <1>17, UpRestIsHeap
<1>19. PICK f : f = [d[b].h EXCEPT !.headIndex = d[b].at]
  OBVIOUS
<1>20. d[b].h \in Structures /\ d[b].at \in LinkTo /\ ListIs(d[b].h.list, n, y, d[b].at)
       /\ d[b].h.size = g.size /\ d[b].h.unusedIndexs = g.unusedIndexs
  <2>1. n \in 0 .. MAXSIZE
    BY FirstIs
  <2> QED  BY <1>16, <2>1, HeapSizes DEF UpInv, LinkTo, Heap!Slots
<1>21. f \in Structures /\ f.size = g.size /\ f.unusedIndexs = g.unusedIndexs /\ f.list = d[b].h.list /\ f.headIndex = d[b].at
  BY <1>19, <1>20 DEF Structures
<1>22. RiseIs(f, g, n, y, ordered)
  BY <1>18, <1>20, <1>21 DEF RiseIs
<1> QED  BY <1>12, <1>19, <1>22

-----------------------------------------------------------------------------
\* The structure h holds the students z, in the order of its list.
Holds(h, z) ==
  /\ h \in Structures /\ h.unusedIndexs = StackFor(h.size)
  /\ z \in Seq(Heap!Student) /\ Len(z) = h.size
  /\ ListIs(h.list, h.size, z, h.headIndex)

\* A sequence of students with one more in front.
LEMMA InFront ==
  ASSUME NEW z, NEW stu, z \in Seq(Heap!Student), stu \in Heap!Student
  PROVE  <<stu>> \o z \in Seq(Heap!Student) /\ Len(<<stu>> \o z) = Len(z) + 1
OBVIOUS

\* insertListAtHead
LEMMA InsertIs ==
  ASSUME NEW h, NEW z, NEW stu, Holds(h, z), h.size < MAXSIZE, stu \in Heap!Student
  PROVE  Holds(Heap!insertListAtHead(h, stu), <<stu>> \o z)
<1>1. PICK n : n = h.size
  OBVIOUS
<1>2. PICK g : g = Heap!Linked(h, stu)
  OBVIOUS
<1>3. h \in Structures /\ n \in Nat /\ n < MAXSIZE /\ ListIs(h.list, n, z, h.headIndex) /\ h.unusedIndexs = StackFor(n)
      /\ z \in Seq(Heap!Student) /\ Len(z) = n /\ n \in Heap!Slots
  BY <1>1, HeapSizes DEF Holds, Structures, Heap!Slots
<1>4. LinkedIs(g, h, n, z, stu)
  BY <1>1, <1>2, <1>3, LinkedKeeps
<1>5. PICK f : f = [g EXCEPT !.headIndex = n]
  OBVIOUS
<1>6. Heap!topStack(h.unusedIndexs) = n
  <2>1. n \in 0 .. MAXSIZE
    BY <1>3, HeapSizes
  <2> QED  BY <1>3, <2>1, StackIs
<1>7. Heap!insertListAtHead(h, stu) = f
  BY <1>2, <1>5, <1>6 DEF Heap!insertListAtHead
<1>8. f \in Structures /\ f.size = n + 1 /\ f.unusedIndexs = StackFor(n + 1) /\ f.list = g.list /\ f.headIndex = n
  BY <1>3, <1>4, <1>5 DEF LinkedIs, Structures, LinkTo
<1>9. <<stu>> \o z \in Seq(Heap!Student) /\ Len(<<stu>> \o z) = n + 1
  BY <1>3, InFront
<1>10. Holds(f, <<stu>> \o z)
  BY <1>4, <1>8, <1>9 DEF Holds, LinkedIs
<1> QED  BY <1>7, <1>10

\* pushHeap
LEMMA PushIs ==
  ASSUME NEW h, NEW z, NEW stu, Holds(h, z), h.size < MAXSIZE, stu \in Heap!Student, HeapFrom(h.list, 0, h.size)
  PROVE  Holds(Heap!pushHeap(h, stu), <<stu>> \o z) /\ HeapFrom(Heap!pushHeap(h, stu).list, 0, Heap!pushHeap(h, stu).size)
<1>1. PICK n : n = h.size
  OBVIOUS
<1>2. PICK g : g = Heap!Linked(h, stu)
  OBVIOUS
<1>3. h \in Structures /\ n \in Nat /\ n < MAXSIZE /\ ListIs(h.list, n, z, h.headIndex) /\ h.unusedIndexs = StackFor(n)
      /\ z \in Seq(Heap!Student) /\ Len(z) = n /\ n \in Heap!Slots
  BY <1>1, HeapSizes DEF Holds, Structures, Heap!Slots
<1>4. LinkedIs(g, h, n, z, stu)
  BY <1>1, <1>2, <1>3, LinkedKeeps
<1>5. PICK f : f = Heap!SiftUp(g, stu.id, n)
  OBVIOUS
<1>6. Heap!topStack(h.unusedIndexs) = n
  <2>1. n \in 0 .. MAXSIZE
    BY <1>3, HeapSizes
  <2> QED  BY <1>3, <2>1, StackIs
<1>7. Heap!pushHeap(h, stu) = f
  BY <1>2, <1>5, <1>6 DEF Heap!pushHeap
<1>8. Rising(g.list, n + 1, n)
  <2>1. ASSUME NEW p \in 0 .. (n + 1) - 1, NEW c \in 0 .. (n + 1) - 1, Child(c, p), c # n
        PROVE  g.list[p].id <= g.list[c].id
    <3>1. c \in 0 .. n - 1 /\ p \in 0 .. n - 1
      BY <1>3, <2>1 DEF Child
    <3>2. h.list[p].id <= h.list[c].id
      BY <1>1, <2>1, <3>1 DEF HeapFrom
    <3> QED  BY <1>4, <3>1, <3>2 DEF LinkedIs
  <2>2. \A c \in 0 .. (n + 1) - 1 : ~Child(c, n)
    BY <1>3 DEF Child
  <2> QED  BY <2>1, <2>2 DEF Rising
<1>9. PICK y : y = <<stu>> \o z
  OBVIOUS
<1>10. RiseIs(f, g, n + 1, y, TRUE)
  <2>1. g \in Structures /\ ListIs(g.list, n + 1, y, n) /\ g.list[n].id = stu.id
    BY <1>4, <1>9 DEF LinkedIs
  <2> QED  BY <1>3, <1>5, <1>8, <2>1, SiftUpIs
<1>11. y \in Seq(Heap!Student) /\ Len(y) = n + 1
  BY <1>3, <1>9, InFront
<1>12. Holds(f, y) /\ HeapFrom(f.list, 0, f.size)
  BY <1>4, <1>10, <1>11 DEF Holds, LinkedIs, RiseIs
<1> QED  BY <1>7, <1>9, <1>12

-----------------------------------------------------------------------------
\* z without its k-th student.
Without(z, k) == SubSeq(z, 1, k - 1) \o SubSeq(z, k + 1, Len(z))

Removed(y, z, k) ==
  /\ y \in Seq(Heap!Student) /\ Len(y) = Len(z) - 1
  /\ \A j \in 1 .. Len(z) - 1 : y[j] = IF j < k THEN z[j] ELSE z[j + 1]

\* Without leaves the other students in their order.
LEMMA WithoutIs ==
  ASSUME NEW z, NEW k, z \in Seq(Heap!Student), k \in 1 .. Len(z)
  PROVE  Removed(Without(z, k), z, k)
<1>1. PICK a : a = SubSeq(z, 1, k - 1)
  OBVIOUS
<1>2. PICK b : b = SubSeq(z, k + 1, Len(z))
  OBVIOUS
<1>3. Without(z, k) = a \o b
  BY <1>1, <1>2 DEF Without
<1>4. a \in Seq(Heap!Student) /\ Len(a) = k - 1 /\ \A j \in 1 .. k - 1 : a[j] = z[j]
  BY <1>1
<1>5. b \in Seq(Heap!Student) /\ Len(b) = Len(z) - k /\ \A j \in 1 .. Len(z) - k : b[j] = z[k + j]
  BY <1>2
<1>6. Len(z) \in Nat /\ Len(a \o b) = Len(z) - 1 /\ a \o b \in Seq(Heap!Student)
  BY <1>4, <1>5
<1>7. ASSUME NEW j \in 1 .. Len(z) - 1  PROVE (a \o b)[j] = IF j < k THEN z[j] ELSE z[j + 1]
  <2>1. CASE j < k
    BY <1>4, <1>5, <1>6, <2>1
  <2>2. CASE ~(j < k)
    <3>1. j \in Len(a) + 1 .. Len(a) + Len(b) /\ j - Len(a) \in 1 .. Len(z) - k /\ k + (j - Len(a)) = j + 1
      BY <1>4, <1>5, <1>6, <2>2
    <3>2. (a \o b)[j] = b[j - Len(a)]
      BY <1>4, <1>5, <3>1, ConcatAt
    <3> QED  BY <1>5, <2>2, <3>1, <3>2
  <2> QED  BY <2>1, <2>2
<1> QED  BY <1>3, <1>6, <1>7 DEF Removed

\* Taking the slot behind the last live one out of the list.
UnlinkIs(g, h, n, z, k) ==
  /\ g \in Structures /\ g.size = h.size /\ g.unusedIndexs = h.unusedIndexs
  /\ k \in 1 .. n + 1 /\ z[k].id = h.list[n].id
  /\ ListIs(g.list, n, Without(z, k), g.headIndex)
  /\ \A i \in 0 .. n - 1 : g.list[i].id = h.list[i].id

\* Unlink takes one student out of the list and keeps the others in order.
LEMMA UnlinkKeeps ==
  ASSUME NEW h, NEW n, NEW z,
         h \in Structures, n = h.size, n < MAXSIZE, ListIs(h.list, n + 1, z, h.headIndex),
         z \in Seq(Heap!Student), Len(z) = n + 1
  PROVE  \E k : UnlinkIs(Heap!Unlink(h), h, n, z, k)
<1>1. n \in Nat /\ n \in Heap!Slots /\ 0 .. n - 1 \subseteq Heap!Slots /\ 0 .. (n + 1) - 1 \subseteq Heap!Slots
      /\ n \in 0 .. (n + 1) - 1 /\ n \in 0 .. MAXSIZE
  BY HeapSizes DEF Structures, Heap!Slots
<1>2. PICK l : l = h.list
  OBVIOUS
<1>3. PICK w : Links(l, w, n + 1) /\ Spells(l, w, n + 1, z) /\ h.headIndex = FirstOf(w, n + 1)
  BY <1>2 DEF ListIs
<1>4. PICK x \in 1 .. n + 1 : w[x] = n
  BY <1>1, <1>3 DEF Links
<1>5. PICK pre : pre = l[n].preNode
  OBVIOUS
<1>6. PICK next : next = l[n].nextNode
  OBVIOUS
<1>7. PICK s1 : s1 = IF pre # Heap!Nil THEN Heap!SetNext(l, pre, next) ELSE l
  OBVIOUS
<1>8. PICK s2 : s2 = IF next # Heap!Nil THEN Heap!SetPre(s1, next, pre) ELSE s1
  OBVIOUS
<1>9. PICK m : m = [s2 EXCEPT ![n] = Heap!Unused]
  OBVIOUS
<1>10. PICK g : g = [h EXCEPT !.list = m, !.headIndex = IF pre = Heap!Nil THEN next ELSE h.headIndex]
  OBVIOUS
<1>11. Heap!Unlink(h) = g
  BY <1>2, <1>5, <1>6, <1>7, <1>8, <1>9, <1>10 DEF Heap!Unlink
<1>12. l \in Lists /\ pre \in LinkTo /\ next \in LinkTo /\ h.headIndex \in LinkTo
  <2>1. l \in Lists /\ h.headIndex \in LinkTo
    BY <1>2 DEF Structures
  <2>2. l[n] \in AnyNode
    BY <1>1, <2>1 DEF Lists
  <2> QED  BY <1>5, <1>6, <2>1, <2>2 DEF AnyNode
<1>13. /\ s1 \in Lists
       /\ \A i \in Heap!Slots : s1[i].id = l[i].id /\ s1[i].name = l[i].name /\ s1[i].preNode = l[i].preNode
       /\ \A i \in Heap!Slots : s1[i].nextNode = IF i = pre THEN next ELSE l[i].nextNode
  <2>1. CASE pre = Heap!Nil
    BY <1>7, <1>12, <2>1 DEF Heap!Slots, Heap!Nil
  <2>2. CASE pre # Heap!Nil
    <3>1. pre \in Heap!Slots
      BY <1>12, <2>2 DEF LinkTo
    <3>2. NextIs(Heap!SetNext(l, pre, next), l, pre, next)
      BY <1>12, <3>1, NextSet
    <3> QED  BY <1>7, <2>2, <3>2 DEF NextIs
  <2> QED  BY <2>1, <2>2
<1>14. /\ s2 \in Lists
       /\ \A i \in Heap!Slots : s2[i].id = s1[i].id /\ s2[i].name = s1[i].name /\ s2[i].nextNode = s1[i].nextNode
       /\ \A i \in Heap!Slots : s2[i].preNode = IF i = next THEN pre ELSE s1[i].preNode
  <2>1. CASE next = Heap!Nil
    BY <1>8, <1>13, <2>1 DEF Heap!Slots, Heap!Nil
  <2>2. CASE next # Heap!Nil
    <3>1. next \in Heap!Slots
      BY <1>12, <2>2 DEF LinkTo
    <3>2. PreIs(Heap!SetPre(s1, next, pre), s1, next, pre)
      BY <1>12, <1>13, <3>1, PreSet
    <3> QED  BY <1>8, <2>2, <3>2 DEF PreIs
  <2> QED  BY <2>1, <2>2
<1>15. m \in Lists /\ \A i \in Heap!Slots : i # n => m[i] = s2[i]
  <2>1. Heap!Unused \in AnyNode
    BY DEF Heap!Unused, AnyNode, LinkTo
  <2> QED  BY <1>1, <1>9, <1>14, <2>1 DEF Lists
<1>16. \A i \in 0 .. n - 1 : /\ m[i].id = l[i].id /\ m[i].name = l[i].name
                             /\ m[i].nextNode = IF i = pre THEN next ELSE l[i].nextNode
                             /\ m[i].preNode = IF i = next THEN pre ELSE l[i].preNode
  <2> TAKE i \in 0 .. n - 1
  <2>1. i \in Heap!Slots /\ i # n
    BY <1>1
  <2>2. m[i] = s2[i]
    BY <1>15, <2>1
  <2> QED  BY <1>13, <1>14, <2>1, <2>2
<1>17. g \in Structures /\ g.size = h.size /\ g.unusedIndexs = h.unusedIndexs /\ g.list = m
       /\ g.headIndex = IF pre = Heap!Nil THEN next ELSE h.headIndex
  BY <1>10, <1>12, <1>15 DEF Structures
<1> DEFINE J(k) == IF k < x THEN k ELSE k + 1
<1>18. PICK v : v = [k \in 1 .. n |-> w[J(k)]]
  OBVIOUS
<1>19. \A k \in 1 .. n : J(k) \in 1 .. n + 1 /\ J(k) # x /\ v[k] = w[J(k)] /\ v[k] \in 0 .. n - 1
  <2> TAKE k \in 1 .. n
  <2>1. J(k) \in 1 .. n + 1 /\ J(k) # x
    BY <1>1
  <2>2. v[k] = w[J(k)]
    BY <1>18
  <2> HIDE DEF J
  <2>3. w[J(k)] \in 0 .. (n + 1) - 1 /\ w[J(k)] # n
    BY <1>3, <1>4, <2>1 DEF Links
  <2> QED  BY <1>1, <2>1, <2>2, <2>3
<1>20. /\ pre = IF x = 1 THEN Heap!Nil ELSE w[x - 1]
       /\ next = IF x = n + 1 THEN Heap!Nil ELSE w[x + 1]
  BY <1>3, <1>4, <1>5, <1>6 DEF Links
<1>21. \A j \in 1 .. n + 1 : w[j] # Heap!Nil /\ \A k \in 1 .. n + 1 : w[j] = w[k] => j = k
  <2>1. ASSUME NEW j \in 1 .. n + 1  PROVE w[j] # Heap!Nil
    <3>1. w[j] \in 0 .. (n + 1) - 1
      BY <1>3 DEF Links
    <3> QED  BY <3>1 DEF Heap!Nil
  <2>2. \A j, k \in 1 .. n + 1 : w[j] = w[k] => j = k
    BY <1>3 DEF Links
  <2> QED  BY <2>1, <2>2
<1>22. /\ \A j \in 1 .. n + 1 : w[j] = pre <=> j + 1 = x
       /\ \A j \in 1 .. n + 1 : w[j] = next <=> j = x + 1
  <2>1. x # 1 => x - 1 \in 1 .. n + 1
    BY <1>1
  <2>2. x # n + 1 => x + 1 \in 1 .. n + 1
    BY <1>1
  <2>3. ASSUME NEW j \in 1 .. n + 1  PROVE w[j] = pre <=> j + 1 = x
    <3>1. CASE x = 1
      <4>1. w[j] # pre
        BY <1>20, <1>21, <3>1
      <4> QED  BY <3>1, <4>1
    <3>2. CASE x # 1
      <4>1. w[j] = pre <=> j = x - 1
        BY <1>20, <1>21, <2>1, <3>2
      <4> QED  BY <4>1
    <3> QED  BY <3>1, <3>2
  <2>4. ASSUME NEW j \in 1 .. n + 1  PROVE w[j] = next <=> j = x + 1
    <3>1. CASE x = n + 1
      <4>1. w[j] # next
        BY <1>20, <1>21, <3>1
      <4> QED  BY <1>1, <3>1, <4>1
    <3>2. CASE x # n + 1
      BY <1>20, <1>21, <2>2, <3>2
    <3> QED  BY <3>1, <3>2
  <2> QED  BY <2>3, <2>4
<1>23. Links(m, v, n)
  <2>1. v \in [1 .. n -> 0 .. n - 1]
    <3> HIDE DEF J
    <3> QED  BY <1>18, <1>19
  <2>2. ASSUME NEW j \in 1 .. n, NEW k \in 1 .. n, v[j] = v[k]  PROVE j = k
    <3>1. J(j) = J(k)
      <4> HIDE DEF J
      <4> QED  BY <1>19, <1>21, <2>2
    <3> QED  BY <3>1
  <2>3. ASSUME NEW i \in 0 .. n - 1  PROVE \E k \in 1 .. n : v[k] = i
    <3>1. PICK j \in 1 .. n + 1 : w[j] = i
      BY <1>1, <1>3 DEF Links
    <3>2. j # x
      BY <1>1, <1>4, <3>1
    <3>3. PICK k : k = IF j < x THEN j ELSE j - 1
      OBVIOUS
    <3>4. k \in 1 .. n /\ J(k) = j
      BY <1>1, <3>2, <3>3
    <3> HIDE DEF J
    <3> QED  BY <1>19, <3>1, <3>4
  <2>4. ASSUME NEW k \in 1 .. n  PROVE m[v[k]].nextNode = IF k = n THEN Heap!Nil ELSE v[k + 1]
    <3>1. m[v[k]].nextNode = IF w[J(k)] = pre THEN next ELSE l[w[J(k)]].nextNode
      <4> HIDE DEF J
      <4> QED  BY <1>16, <1>19
    <3>2. w[J(k)] = pre <=> J(k) + 1 = x
      <4> HIDE DEF J
      <4> QED  BY <1>19, <1>22
    <3>3. l[w[J(k)]].nextNode = IF J(k) = n + 1 THEN Heap!Nil ELSE w[J(k) + 1]
      <4> HIDE DEF J
      <4> QED  BY <1>3, <1>19 DEF Links
    <3>4. k # n => k + 1 \in 1 .. n /\ v[k + 1] = w[J(k + 1)]
      <4>1. k # n => k + 1 \in 1 .. n
        BY <1>1
      <4> HIDE DEF J
      <4> QED  BY <1>19, <4>1
    <3>5. CASE J(k) + 1 = x
      <4>1. k + 1 = x /\ J(k + 1) = x + 1
        BY <1>1, <3>5
      <4>2. k = n <=> x = n + 1
        BY <1>1, <4>1
      <4> HIDE DEF J
      <4> QED  BY <1>20, <3>1, <3>2, <3>4, <3>5, <4>1, <4>2
    <3>6. CASE J(k) + 1 # x
      <4>1. J(k + 1) = J(k) + 1 /\ (J(k) = n + 1 <=> k = n)
        BY <1>1, <3>6
      <4> HIDE DEF J
      <4> QED  BY <3>1, <3>2, <3>3, <3>4, <3>6, <4>1
    <3> QED  BY <3>5, <3>6
  <2>5. ASSUME NEW k \in 1 .. n  PROVE m[v[k]].preNode = IF k = 1 THEN Heap!Nil ELSE v[k - 1]
    <3>1. m[v[k]].preNode = IF w[J(k)] = next THEN pre ELSE l[w[J(k)]].preNode
      <4> HIDE DEF J
      <4> QED  BY <1>16, <1>19
    <3>2. w[J(k)] = next <=> J(k) = x + 1
      <4> HIDE DEF J
      <4> QED  BY <1>19, <1>22
    <3>3. l[w[J(k)]].preNode = IF J(k) = 1 THEN Heap!Nil ELSE w[J(k) - 1]
      <4> HIDE DEF J
      <4> QED  BY <1>3, <1>19 DEF Links
    <3>4. k # 1 => k - 1 \in 1 .. n /\ v[k - 1] = w[J(k - 1)]
      <4>1. k # 1 => k - 1 \in 1 .. n
        BY <1>1
      <4> HIDE DEF J
      <4> QED  BY <1>19, <4>1
    <3>5. CASE J(k) = x + 1
      <4>1. k = x /\ (k # 1 => J(k - 1) = x - 1)
        BY <1>1, <3>5
      <4> HIDE DEF J
      <4> QED  BY <1>20, <3>1, <3>2, <3>4, <3>5, <4>1
    <3>6. CASE J(k) # x + 1
      <4>1. (k # 1 => J(k - 1) = J(k) - 1) /\ (J(k) = 1 <=> k = 1)
        BY <1>1, <3>6
      <4> HIDE DEF J
      <4> QED  BY <3>1, <3>2, <3>3, <3>4, <3>6, <4>1
    <3> QED  BY <3>5, <3>6
  <2> HIDE DEF J
  <2> QED  BY <1>1, <2>1, <2>2, <2>3, <2>4, <2>5 DEF Links
<1>24. PICK y : y = Without(z, x)
  OBVIOUS
<1>25. \A k \in 1 .. n : y[k] = z[J(k)]
  <2>0. z \in Seq(Heap!Student) /\ x \in 1 .. Len(z)
    OBVIOUS
  <2>1. \A j \in 1 .. Len(z) - 1 : y[j] = IF j < x THEN z[j] ELSE z[j + 1]
    BY <1>24, <2>0, WithoutIs DEF Removed
  <2>2. Len(z) - 1 = n
    BY <1>1
  <2> QED  BY <2>1, <2>2
<1> HIDE DEF J
<1>26. Spells(m, v, n, y)
  <2> SUFFICES ASSUME NEW k \in 1 .. n  PROVE y[k].id = m[v[k]].id /\ y[k].name = m[v[k]].name
    BY DEF Spells
  <2>1. m[v[k]].id = l[w[J(k)]].id /\ m[v[k]].name = l[w[J(k)]].name
    BY <1>16, <1>19
  <2> QED  BY <1>3, <1>19, <1>25, <2>1 DEF Spells
<1>27. g.headIndex = FirstOf(v, n)
  <2>1. h.headIndex = w[1] /\ 1 \in 1 .. n + 1
    BY <1>1, <1>3 DEF FirstOf
  <2>2. pre = Heap!Nil <=> x = 1
    <3>1. x # 1 => x - 1 \in 1 .. n + 1
      BY <1>1
    <3> QED  BY <1>20, <1>21, <3>1
  <2>3. CASE n = 0
    <3>1. x = 1 /\ x = n + 1
      BY <2>3
    <3> QED  BY <1>17, <1>20, <2>2, <2>3, <3>1 DEF FirstOf
  <2>4. CASE n # 0
    <3>1. 1 \in 1 .. n
      BY <1>1, <2>4
    <3>2. v[1] = w[J(1)]
      BY <1>19, <3>1
    <3>3. J(1) = IF x = 1 THEN 2 ELSE 1
      BY <1>1 DEF J
    <3>4. x = 1 => next = w[2]
      BY <1>1, <1>20, <2>4
    <3> QED  BY <1>17, <2>1, <2>2, <2>4, <3>2, <3>3, <3>4 DEF FirstOf
  <2> QED  BY <2>3, <2>4
<1>28. ListIs(m, n, y, g.headIndex)
  BY <1>23, <1>26, <1>27 DEF ListIs
<1>29. z[x].id = l[n].id
  BY <1>3, <1>4 DEF Spells
<1>30. UnlinkIs(g, h, n, z, x)
  BY <1>2, <1>16, <1>17, <1>24, <1>28, <1>29 DEF UnlinkIs
<1> QED  BY <1>11, <1>30

\* The root of a heap is its least member.
LEMMA RootLeast ==
  ASSUME NEW l, NEW n \in Nat, HeapFrom(l, 0, n), \A i \in 0 .. n - 1 : l[i].id \in Int
  PROVE  \A i \in 0 .. n - 1 : l[0].id <= l[i].id
<1> DEFINE T == {i \in 0 .. n - 1 : ~(l[0].id <= l[i].id)}
<1> SUFFICES ASSUME T # {}  PROVE FALSE
  OBVIOUS
<1>1. T \in SUBSET Nat
  OBVIOUS
<1>2. PICK m \in T : \A i \in T : m <= i
  <2> HIDE DEF T
  <2> QED  BY <1>1, SmallestInSet
<1>3. m \in 0 .. n - 1 /\ ~(l[0].id <= l[m].id) /\ m \in Nat
  BY <1>2
<1>4. m > 0
  BY <1>3
<1>5. PICK p \in 0 .. m - 1 : Child(m, p)
  BY <1>3, <1>4, ParentIs
<1>6. p \in 0 .. n - 1 /\ ~(m <= p)
  BY <1>3, <1>5
<1>7. p \notin T
  BY <1>2, <1>6
<1>8. l[0].id <= l[p].id
  BY <1>6, <1>7
<1>9. l[p].id <= l[m].id
  BY <1>3, <1>5, <1>6 DEF HeapFrom
<1>10. 0 \in 0 .. n - 1
  BY <1>3
<1> QED  BY <1>3, <1>6, <1>8, <1>9, <1>10

\* The students of the list are those of the live slots.
LEMMA EverySlot ==
  ASSUME NEW h, NEW z, Holds(h, z)
  PROVE  /\ h.size \in Nat /\ h.size \in 0 .. MAXSIZE
         /\ h.list \in Lists /\ \A i \in 0 .. h.size - 1 : i \in Heap!Slots /\ h.list[i].id \in Int
         /\ \A k \in 1 .. h.size : \E i \in 0 .. h.size - 1 : z[k].id = h.list[i].id
<1>1. h \in Structures /\ ListIs(h.list, h.size, z, h.headIndex)
  BY DEF Holds
<1>2. h.size \in Nat /\ h.size \in 0 .. MAXSIZE /\ h.list \in Lists
  BY <1>1, HeapSizes DEF Structures
<1>3. \A i \in 0 .. h.size - 1 : i \in Heap!Slots
  BY <1>2, HeapSizes DEF Heap!Slots
<1>4. PICK w : Links(h.list, w, h.size) /\ Spells(h.list, w, h.size, z)
  BY <1>1 DEF ListIs
<1>5. \A k \in 1 .. h.size : w[k] \in 0 .. h.size - 1 /\ z[k].id = h.list[w[k]].id
  BY <1>4 DEF Links, Spells
<1> QED  BY <1>2, <1>3, <1>5, IdsAreInt

\* popHeap takes a student with the smallest id out of the list and leaves a heap.
PopIs(g, z, k) ==
  /\ k \in 1 .. Len(z) /\ \A j \in 1 .. Len(z) : z[k].id <= z[j].id
  /\ Holds(g, Without(z, k)) /\ HeapFrom(g.list, 0, g.size)

\* popHeap with one student.
LEMMA PopOne ==
  ASSUME NEW h, NEW z, Pointer = FALSE, Holds(h, z), HeapFrom(h.list, 0, h.size), h.size = 1
  PROVE  PopIs(Heap!popHeap(h), z, 1)
<1>1. PICK shrunk : shrunk = [h EXCEPT !.size = 0, !.unusedIndexs = Heap!pushStack(@, 0)]
  OBVIOUS
<1>2. PICK m : m = [h.list EXCEPT ![0] = Heap!Unused]
  OBVIOUS
<1>3. PICK g : g = [shrunk EXCEPT !.list = m, !.headIndex = Heap!Nil]
  OBVIOUS
<1>4. /\ h \in Structures /\ h.unusedIndexs = StackFor(1) /\ h.list \in Lists
      /\ z \in Seq(Heap!Student) /\ Len(z) = 1
      /\ 1 \in 0 .. MAXSIZE /\ MAXSIZE \in Nat
  BY HeapSizes DEF Holds, Structures
<1>5. Heap!pushStack(h.unusedIndexs, 0) = StackFor(0) /\ StackFor(0) \in Seq(Heap!Slots)
  <2>1. Heap!pushStack(StackFor(1), 1 - 1) = StackFor(1 - 1)
    BY <1>4, StackIs
  <2>2. StackFor(0) \in Seq(Heap!Slots)
    BY <1>4, StackIs
  <2> QED  BY <1>4, <2>1, <2>2
<1>6. shrunk.list = h.list /\ shrunk.headIndex = h.headIndex /\ shrunk = [h EXCEPT !.size = 0, !.unusedIndexs = StackFor(0)]
  BY <1>1, <1>4, <1>5 DEF Structures
<1>7. Heap!popHeap(h) = [shrunk EXCEPT !.list[0] = Heap!Unused, !.headIndex = Heap!Nil]
  BY <1>1 DEF Heap!popHeap
<1>8. Heap!popHeap(h) = g
  BY <1>2, <1>3, <1>4, <1>6, <1>7 DEF Structures
<1>9. m \in Lists
  <2>1. Heap!Unused \in AnyNode
    BY DEF Heap!Unused, AnyNode, LinkTo
  <2> QED  BY <1>2, <1>4, <2>1 DEF Lists
<1>10. g \in Structures /\ g.size = 0 /\ g.unusedIndexs = StackFor(0) /\ g.list = m /\ g.headIndex = Heap!Nil
  <2>0. 0 \in 0 .. MAXSIZE
    BY <1>4
  <2>1. shrunk \in Structures /\ shrunk.size = 0 /\ shrunk.unusedIndexs = StackFor(0)
    BY <1>4, <1>5, <1>6, <2>0 DEF Structures
  <2>2. Heap!Nil \in LinkTo
    BY DEF LinkTo
  <2> QED  BY <1>3, <1>9, <2>1, <2>2 DEF Structures
<1>11. Removed(Without(z, 1), z, 1)
  <2>1. 1 \in 1 .. Len(z)
    BY <1>4
  <2> QED  BY <1>4, <2>1, WithoutIs
<1>12. ListIs(m, 0, Without(z, 1), Heap!Nil)
  <2>1. PICK w : w = [k \in 1 .. 0 |-> 0]
    OBVIOUS
  <2>2. Links(m, w, 0) /\ Spells(m, w, 0, Without(z, 1)) /\ Heap!Nil = FirstOf(w, 0)
    BY <1>4, <2>1 DEF Links, Spells, FirstOf
  <2> QED  BY <2>2 DEF ListIs
<1>13. Holds(g, Without(z, 1)) /\ HeapFrom(g.list, 0, g.size)
  <2>1. Holds(g, Without(z, 1))
    BY <1>4, <1>10, <1>11, <1>12 DEF Holds, Removed
  <2> QED  BY <1>10, <2>1 DEF HeapFrom
<1>14. 1 \in 1 .. Len(z) /\ \A j \in 1 .. Len(z) : z[1].id <= z[j].id
  <2>1. z[1].id \in Int
    BY <1>4, EverySlot
  <2> QED  BY <1>4, <2>1
<1> QED  BY <1>8, <1>13, <1>14 DEF PopIs

\* popHeap with more than one: exchange, sift down, unlink.
LEMMA PopMany ==
  ASSUME NEW h, NEW z, Pointer = FALSE, Holds(h, z), HeapFrom(h.list, 0, h.size), h.size > 1
  PROVE  \E k : PopIs(Heap!popHeap(h), z, k)
<1>1. PICK n : n = h.size - 1
  OBVIOUS
<1>2. /\ h \in Structures /\ h.unusedIndexs = StackFor(n + 1) /\ h.list \in Lists /\ h.size = n + 1
      /\ z \in Seq(Heap!Student) /\ Len(z) = n + 1 /\ n \in Nat /\ n >= 1 /\ n < MAXSIZE /\ n + 1 \in 0 .. MAXSIZE
      /\ MAXSIZE \in Nat /\ ListIs(h.list, n + 1, z, h.headIndex)
  BY <1>1, HeapSizes DEF Holds, Structures
<1>3. Heap!pushStack(h.unusedIndexs, n) = StackFor(n) /\ StackFor(n) \in Seq(Heap!Slots)
  <2>1. Heap!pushStack(StackFor(n + 1), (n + 1) - 1) = StackFor((n + 1) - 1)
    BY <1>2, StackIs
  <2>2. (n + 1) - 1 = n /\ n \in 0 .. MAXSIZE
    BY <1>2
  <2> QED  BY <1>2, <2>1, <2>2, StackIs
<1>4. PICK shrunk : shrunk = [h EXCEPT !.size = n, !.unusedIndexs = StackFor(n)]
  OBVIOUS
<1>5. PICK e : e = Heap!swapHeapNode(shrunk, 0, n)
  OBVIOUS
<1>6. PICK id : id = h.list[n].id
  OBVIOUS
<1>7. PICK s : s = Heap!SiftDown(e, id, 0, n)
  OBVIOUS
<1>8. Heap!popHeap(h) = Heap!Unlink(s)
  <2>1. h.size # 0 /\ h.size # 1 /\ h.size - 1 = n
    BY <1>1, <1>2
  <2>2. [h EXCEPT !.size = n, !.unusedIndexs = Heap!pushStack(@, n)] = shrunk
    BY <1>2, <1>3, <1>4 DEF Structures
  <2> QED  BY <1>5, <1>6, <1>7, <2>1, <2>2 DEF Heap!popHeap
<1>9. shrunk \in Structures /\ shrunk.list = h.list /\ shrunk.size = n /\ shrunk.unusedIndexs = StackFor(n)
      /\ shrunk.headIndex = h.headIndex
  <2>0. n \in 0 .. MAXSIZE
    BY <1>2
  <2>1. PICK t : t = [h EXCEPT !.size = n]
    OBVIOUS
  <2>2. t \in Structures /\ t.list = h.list /\ t.size = n /\ t.headIndex = h.headIndex
    BY <1>2, <2>0, <2>1 DEF Structures
  <2>3. shrunk = [t EXCEPT !.unusedIndexs = StackFor(n)]
    BY <1>2, <1>4, <2>1 DEF Structures
  <2> QED  BY <1>3, <2>2, <2>3 DEF Structures
<1>10. 0 \in 0 .. (n + 1) - 1 /\ n \in 0 .. (n + 1) - 1 /\ 0 # n /\ n + 1 \in Nat /\ 0 \in 0 .. n - 1
  BY <1>2
<1>11. SwapIs(e, shrunk, n + 1, z, h.headIndex, 0, n)
  BY <1>2, <1>5, <1>9, <1>10, SwapNode
<1>12. /\ e \in Structures /\ e.size = n /\ e.unusedIndexs = StackFor(n) /\ ListIs(e.list, n + 1, z, e.headIndex)
       /\ e.list[0].id = id /\ e.list[n].id = h.list[0].id
       /\ \A i \in 1 .. n - 1 : e.list[i].id = h.list[i].id
  <2>1. \A i \in 0 .. (n + 1) - 1 : e.list[i].id = h.list[Other(i, 0, n)].id
    BY <1>9, <1>11 DEF SwapIs
  <2>2. Other(0, 0, n) = n /\ Other(n, 0, n) = 0 /\ \A i \in 1 .. n - 1 : i \in 0 .. (n + 1) - 1 /\ Other(i, 0, n) = i
    BY <1>2 DEF Other
  <2>3. \A i \in 1 .. n - 1 : e.list[i].id = h.list[i].id
    BY <2>1, <2>2
  <2>4. e.list[0].id = id /\ e.list[n].id = h.list[0].id
    BY <1>6, <1>10, <2>1, <2>2
  <2> QED  BY <1>9, <1>11, <2>3, <2>4 DEF SwapIs
<1>13. HeapFrom(e.list, 0 + 1, n)
  <2> SUFFICES ASSUME NEW p \in 0 + 1 .. n - 1, NEW c \in 0 .. n - 1, Child(c, p)  PROVE e.list[p].id <= e.list[c].id
    BY DEF HeapFrom
  <2>1. p \in 1 .. n - 1 /\ c \in 1 .. n - 1 /\ p \in 0 .. h.size - 1 /\ c \in 0 .. h.size - 1
    BY <1>2 DEF Child
  <2>2. h.list[p].id <= h.list[c].id
    BY <2>1 DEF HeapFrom
  <2> QED  BY <1>12, <2>1, <2>2
<1>14. SiftIs(s, e, 0, n, n + 1, z)
  <2>1. n <= n + 1
    BY <1>2
  <2> QED  BY <1>2, <1>7, <1>10, <1>12, <2>1, SiftDownIs
<1>15. /\ s \in Structures /\ s.size = n /\ s.unusedIndexs = StackFor(n) /\ ListIs(s.list, n + 1, z, s.headIndex)
       /\ HeapFrom(s.list, 0, n) /\ s.list[n].id = h.list[0].id
  <2>1. n \in n .. (n + 1) - 1
    BY <1>2
  <2> QED  BY <1>12, <1>13, <1>14, <2>1 DEF SiftIs
<1>16. PICK g : g = Heap!Unlink(s)
  OBVIOUS
<1>17. PICK k : UnlinkIs(g, s, n, z, k)
  BY <1>2, <1>15, <1>16, UnlinkKeeps
<1>18. k \in 1 .. Len(z) /\ z[k].id = h.list[0].id
  BY <1>2, <1>15, <1>17 DEF UnlinkIs
<1>19. \A j \in 1 .. Len(z) : z[k].id <= z[j].id
  <2> TAKE j \in 1 .. Len(z)
  <2>1. j \in 1 .. h.size
    BY <1>2
  <2>2. PICK i \in 0 .. h.size - 1 : z[j].id = h.list[i].id
    BY <2>1, EverySlot
  <2>3. h.list[0].id <= h.list[i].id
    <3>1. h.size \in Nat /\ \A q \in 0 .. h.size - 1 : h.list[q].id \in Int
      BY EverySlot
    <3> QED  BY <3>1, RootLeast
  <2> QED  BY <1>18, <2>2, <2>3
<1>20. Removed(Without(z, k), z, k)
  BY <1>2, <1>18, WithoutIs
<1>21. Holds(g, Without(z, k))
  <2>1. g \in Structures /\ g.size = n /\ g.unusedIndexs = StackFor(n) /\ ListIs(g.list, n, Without(z, k), g.headIndex)
    BY <1>15, <1>17 DEF UnlinkIs
  <2>2. Without(z, k) \in Seq(Heap!Student) /\ Len(Without(z, k)) = n
    BY <1>2, <1>20 DEF Removed
  <2> QED  BY <2>1, <2>2 DEF Holds
<1>22. HeapFrom(g.list, 0, g.size)
  <2>1. g.size = n /\ \A i \in 0 .. n - 1 : g.list[i].id = s.list[i].id
    BY <1>15, <1>17 DEF UnlinkIs
  <2> QED  BY <1>15, <2>1 DEF HeapFrom
<1>23. PopIs(g, z, k)
  BY <1>18, <1>19, <1>21, <1>22 DEF PopIs
<1> QED  BY <1>8, <1>16, <1>23

-----------------------------------------------------------------------------
\* The value of the search at slot i, when f are its values further down.
SearchAt(f, i, n, wanted) ==
  CASE i >= n -> Heap!Nil
    [] i < n /\ i \in wanted -> i
    [] OTHER -> IF f[2 * i + 1] # Heap!Nil THEN f[2 * i + 1] ELSE f[2 * i + 2]

\* The recursive definition of the search describes a function.
LEMMA SearchExists ==
  ASSUME NEW n \in Nat, NEW wanted
  PROVE  \E f \in [Nat -> Int] : \A i \in Nat : f[i] = SearchAt(f, i, n, wanted)
<1> DEFINE A == [Nat -> Int]
           Once(f) == [i \in Nat |-> SearchAt(f, i, n, wanted)]
           G == [k \in 1 .. n |-> [f \in A |-> Once(f)]]
<1>1. PICK c : c = [i \in Nat |-> Heap!Nil]
  OBVIOUS
<1>2. c \in A
  BY <1>1 DEF Heap!Nil
<1>3. \A f \in A : Once(f) \in A
  <2> SUFFICES ASSUME NEW f \in A, NEW i \in Nat  PROVE SearchAt(f, i, n, wanted) \in Int
    OBVIOUS
  <2>1. 2 * i + 1 \in Nat /\ 2 * i + 2 \in Nat
    OBVIOUS
  <2>2. f[2 * i + 1] \in Int /\ f[2 * i + 2] \in Int
    BY <2>1
  <2> QED  BY <2>2 DEF SearchAt, Heap!Nil
<1>4. StepsOf(G, n, A)
  <2> HIDE DEF A, Once
  <2> QED  BY <1>3 DEF StepsOf
<1>5. PICK e : Iterates(e, c, G, n, A)
  <2> HIDE DEF G, A
  <2> QED  BY <1>2, <1>4, IterateExists
<1>6. e \in [0 .. n -> A] /\ e[0] = c /\ \A k \in 0 .. n - 1 : e[k + 1] = Once(e[k])
  <2>1. e \in [0 .. n -> A] /\ e[0] = c /\ \A k \in 1 .. n : e[k] = G[k][e[k - 1]]
    <3> HIDE DEF A, G
    <3> QED  BY <1>5 DEF Iterates
  <2>2. ASSUME NEW k \in 0 .. n - 1  PROVE e[k + 1] = Once(e[k])
    <3>1. k + 1 \in 1 .. n /\ k \in 0 .. n /\ (k + 1) - 1 = k
      OBVIOUS
    <3>2. e[k] \in A
      BY <2>1, <3>1
    <3> HIDE DEF A, Once
    <3>3. G[k + 1][e[k]] = Once(e[k])
      BY <3>1, <3>2
    <3> QED  BY <2>1, <3>1, <3>3
  <2> QED  BY <2>1, <2>2
<1> DEFINE S == {k \in 0 .. n : \A i \in Nat : i >= n - k => e[k][i] = SearchAt(e[k], i, n, wanted)}
<1>7. 0 \in S
  <2> SUFFICES ASSUME NEW i \in Nat, i >= n - 0  PROVE e[0][i] = SearchAt(e[0], i, n, wanted)
    OBVIOUS
  <2>1. e[0][i] = Heap!Nil
    BY <1>1, <1>6
  <2> QED  BY <2>1 DEF SearchAt
<1>8. ASSUME NEW k \in 0 .. n - 1, k \in S  PROVE k + 1 \in S
  <2> SUFFICES ASSUME NEW i \in Nat, i >= n - (k + 1)
               PROVE  e[k + 1][i] = SearchAt(e[k + 1], i, n, wanted)
    OBVIOUS
  <2>1. \A j \in Nat : e[k + 1][j] = SearchAt(e[k], j, n, wanted)
    BY <1>6
  <2>2. \A j \in Nat : j >= n - k => e[k][j] = SearchAt(e[k], j, n, wanted)
    BY <1>8
  <2>3. \A j \in Nat : j >= n - k => e[k + 1][j] = e[k][j]
    BY <2>1, <2>2
  <2>4. /\ 2 * i + 1 \in Nat /\ 2 * i + 2 \in Nat /\ 2 * i + 1 >= n - k /\ 2 * i + 2 >= n - k
    OBVIOUS
  <2>5. e[k + 1][2 * i + 1] = e[k][2 * i + 1] /\ e[k + 1][2 * i + 2] = e[k][2 * i + 2]
    BY <2>3, <2>4
  <2>6. SearchAt(e[k + 1], i, n, wanted) = SearchAt(e[k], i, n, wanted)
    BY <2>5 DEF SearchAt
  <2> QED  BY <2>1, <2>6
<1>9. 0 .. n \subseteq S
  <2> HIDE DEF S
  <2> QED  BY <1>7, <1>8, UpToInduction
<1>10. \A i \in Nat : e[n][i] = SearchAt(e[n], i, n, wanted)
  <2>1. n \in S
    BY <1>9
  <2> QED  BY <2>1
<1>11. e[n] \in A
  BY <1>6
<1> QED  BY <1>10, <1>11

\* A search from the root finds one of the wanted live slots if there is one.
LEMMA SearchIs ==
  ASSUME NEW h, NEW wanted, h.size \in Nat
  PROVE  \/ Heap!Search(h, wanted, 0) \in wanted /\ Heap!Search(h, wanted, 0) \in 0 .. h.size - 1
         \/ Heap!Search(h, wanted, 0) = Heap!Nil /\ \A i \in 0 .. h.size - 1 : i \notin wanted
<1>1. PICK n : n = h.size
  OBVIOUS
<1> DEFINE Body(f) == [i \in Nat |-> CASE i >= h.size -> Heap!Nil
                                       [] i < h.size /\ i \in wanted -> i
                                       [] OTHER -> LET left == f[2 * i + 1]
                                                   IN  IF left # Heap!Nil THEN left ELSE f[2 * i + 2]]
           s == CHOOSE f : f = Body(f)
<1>2. n \in Nat
  BY <1>1
<1>3. \A f : Body(f) = [i \in Nat |-> SearchAt(f, i, n, wanted)]
  BY <1>1 DEF SearchAt
<1>4. Heap!Search(h, wanted, 0) = s[0]
  BY DEF Heap!Search
<1> HIDE DEF Body
<1>5. PICK e \in [Nat -> Int] : \A i \in Nat : e[i] = SearchAt(e, i, n, wanted)
  BY <1>2, SearchExists
<1>6. e = Body(e)
  BY <1>3, <1>5
<1>7. s = Body(s)
  BY <1>6
<1> HIDE DEF s
<1>8. \A i \in Nat : s[i] = SearchAt(s, i, n, wanted)
  BY <1>3, <1>7
<1>9. \A i \in Nat : i >= n => s[i] = Heap!Nil
  BY <1>2, <1>8 DEF SearchAt
<1>10. \A i \in Nat : i < n /\ i \in wanted => s[i] = i
  BY <1>2, <1>8 DEF SearchAt
<1>11. \A i \in Nat : i < n /\ i \notin wanted => s[i] = IF s[2 * i + 1] # Heap!Nil THEN s[2 * i + 1] ELSE s[2 * i + 2]
  BY <1>2, <1>8 DEF SearchAt
<1> DEFINE Fine(x) == x = Heap!Nil \/ (x \in wanted /\ x \in 0 .. n - 1)
           S == {d \in 0 .. n : \A i \in Nat : i >= n - d => Fine(s[i])}
<1>12. 0 .. n \subseteq S
  <2>1. 0 \in S
    BY <1>2, <1>9
  <2>2. ASSUME NEW d \in 0 .. n - 1, d \in S  PROVE d + 1 \in S
    <3> SUFFICES ASSUME NEW i \in Nat, i >= n - (d + 1)  PROVE Fine(s[i])
      BY <1>2
    <3>1. 2 * i + 1 \in Nat /\ 2 * i + 2 \in Nat /\ 2 * i + 1 >= n - d /\ 2 * i + 2 >= n - d
      BY <1>2
    <3>2. Fine(s[2 * i + 1]) /\ Fine(s[2 * i + 2])
      <4>1. \A j \in Nat : j >= n - d => Fine(s[j])
        BY <2>2
      <4> HIDE DEF Fine
      <4> QED  BY <3>1, <4>1
    <3>3. CASE i >= n
      BY <1>9, <3>3
    <3>4. CASE i < n /\ i \in wanted
      BY <1>2, <1>10, <3>4
    <3>5. CASE i < n /\ i \notin wanted
      <4>1. s[i] = s[2 * i + 1] \/ s[i] = s[2 * i + 2]
        BY <1>11, <3>5
      <4> HIDE DEF Fine
      <4> QED  BY <3>2, <4>1
    <3> QED  BY <1>2, <3>3, <3>4, <3>5
  <2> HIDE DEF S
  <2> QED  BY <1>2, <2>1, <2>2, UpToInduction
<1>13. Fine(s[0])
  <2>1. n \in S
    BY <1>2, <1>12
  <2> HIDE DEF Fine
  <2> QED  BY <1>2, <2>1
<1>14. ASSUME NEW i \in 0 .. n - 1, i \in wanted  PROVE s[0] # Heap!Nil
  <2> DEFINE T == {j \in 0 .. n - 1 : s[j] # Heap!Nil}
  <2>1. i \in T
    BY <1>2, <1>10, <1>14 DEF Heap!Nil
  <2>2. T \in SUBSET Nat /\ T # {}
    BY <1>2, <2>1
  <2>3. PICK m \in T : \A j \in T : m <= j
    <3> HIDE DEF T
    <3> QED  BY <2>2, SmallestInSet
  <2>4. m \in 0 .. n - 1 /\ s[m] # Heap!Nil /\ m \in Nat
    BY <1>2, <2>3
  <2>5. CASE m = 0
    BY <2>4, <2>5
  <2>6. CASE m # 0
    <3>1. m > 0
      BY <2>4, <2>6
    <3>2. PICK p \in 0 .. m - 1 : Child(m, p)
      BY <2>4, <3>1, ParentIs
    <3>3. p \in 0 .. n - 1 /\ p \in Nat /\ p < n /\ ~(m <= p)
      BY <1>2, <2>4, <3>2
    <3>4. s[p] # Heap!Nil
      <4>1. CASE p \in wanted
        BY <1>10, <3>3, <4>1 DEF Heap!Nil
      <4>2. CASE p \notin wanted
        <5>1. s[p] = IF s[2 * p + 1] # Heap!Nil THEN s[2 * p + 1] ELSE s[2 * p + 2]
          BY <1>11, <3>3, <4>2
        <5>2. m = 2 * p + 1 \/ m = 2 * p + 2
          BY <3>2 DEF Child
        <5> QED  BY <2>4, <5>1, <5>2
      <4> QED  BY <4>1, <4>2
    <3>5. p \in T
      BY <3>3, <3>4
    <3> QED  BY <2>3, <3>3, <3>5
  <2> QED  BY <2>5, <2>6
<1> QED  BY <1>1, <1>4, <1>13, <1>14

-----------------------------------------------------------------------------
\* m is l with the student of slot index changed.
Changed(m, l, index, id, name) ==
  /\ m \in Lists
  /\ \A i \in Heap!Slots : m[i].nextNode = l[i].nextNode /\ m[i].preNode = l[i].preNode
  /\ \A i \in Heap!Slots : m[i].id = IF i = index THEN id ELSE l[i].id
  /\ \A i \in Heap!Slots : m[i].name = IF i = index THEN name ELSE l[i].name

\* Assigning the id of a slot.
LEMMA IdSet ==
  ASSUME NEW l, NEW index, NEW id, l \in Lists, index \in Heap!Slots, id \in Ids
  PROVE  Changed([l EXCEPT ![index].id = id], l, index, id, l[index].name)
<1>0. PICK m : m = [l EXCEPT ![index].id = id]
  OBVIOUS
<1>1. PICK x : x = [l[index] EXCEPT !.id = id]
  OBVIOUS
<1>2. l[index] \in AnyNode
  BY DEF Lists
<1>3. /\ x \in AnyNode /\ x.id = id /\ x.name = l[index].name
      /\ x.preNode = l[index].preNode /\ x.nextNode = l[index].nextNode
  BY <1>1, <1>2 DEF AnyNode
<1>4. m = [l EXCEPT ![index] = x]
  BY <1>0, <1>1
<1>5. m \in Lists /\ m[index] = x /\ \A i \in Heap!Slots : i # index => m[i] = l[i]
  BY <1>3, <1>4 DEF Lists
<1>6. Changed(m, l, index, id, l[index].name)
  BY <1>3, <1>5 DEF Changed
<1> QED  BY <1>0, <1>6

\* Assigning the name of a slot.
LEMMA NameSet ==
  ASSUME NEW l, NEW index, NEW name, l \in Lists, index \in Heap!Slots, name \in Names
  PROVE  Changed([l EXCEPT ![index].name = name], l, index, l[index].id, name)
<1>0. PICK m : m = [l EXCEPT ![index].name = name]
  OBVIOUS
<1>1. PICK x : x = [l[index] EXCEPT !.name = name]
  OBVIOUS
<1>2. l[index] \in AnyNode
  BY DEF Lists
<1>3. /\ x \in AnyNode /\ x.id = l[index].id /\ x.name = name
      /\ x.preNode = l[index].preNode /\ x.nextNode = l[index].nextNode
  BY <1>1, <1>2 DEF AnyNode
<1>4. m = [l EXCEPT ![index] = x]
  BY <1>0, <1>1
<1>5. m \in Lists /\ m[index] = x /\ \A i \in Heap!Slots : i # index => m[i] = l[i]
  BY <1>3, <1>4 DEF Lists
<1>6. Changed(m, l, index, l[index].id, name)
  BY <1>3, <1>5 DEF Changed
<1> QED  BY <1>0, <1>6

\* Every live slot holds a student.
LEMMA LiveStudent ==
  ASSUME NEW h, NEW z, NEW i, Holds(h, z), i \in 0 .. h.size - 1
  PROVE  h.list[i].id \in Ids /\ h.list[i].name \in Names
<1>1. PICK w : Links(h.list, w, h.size) /\ Spells(h.list, w, h.size, z)
  BY DEF Holds, ListIs
<1>2. PICK k \in 1 .. h.size : w[k] = i
  BY <1>1 DEF Links
<1>3. z[k] \in Heap!Student
  BY DEF Holds
<1>4. z[k].id \in Ids /\ z[k].name \in Names
  BY <1>3 DEF Heap!Student
<1> QED  BY <1>1, <1>2, <1>4 DEF Spells

\* Changing the student of a live slot changes one student of the list.
ChangeOf(y, z) == \E k \in 1 .. Len(z), stu \in Heap!Student : y = [z EXCEPT ![k] = stu]

\* The list with the student of one live slot changed.
LEMMA ChangeIs ==
  ASSUME NEW h, NEW z, NEW index, NEW id, NEW name, NEW m, NEW g, Holds(h, z), index \in 0 .. h.size - 1,
         id \in Ids, name \in Names, Changed(m, h.list, index, id, name), g = [h EXCEPT !.list = m]
  PROVE  \E y : Holds(g, y) /\ ChangeOf(y, z)
<1>1. PICK n : n = h.size
  OBVIOUS
<1>2. PICK stu : stu = [id |-> id, name |-> name]
  OBVIOUS
<1>3. stu \in Heap!Student /\ stu.id = id /\ stu.name = name
  BY <1>2 DEF Heap!Student
<1>4. h \in Structures /\ h.unusedIndexs = StackFor(n) /\ z \in Seq(Heap!Student) /\ Len(z) = n /\ n \in 0 .. MAXSIZE /\ n \in Nat
  BY <1>1, HeapSizes DEF Holds, Structures
<1>5. PICK w : Links(h.list, w, n) /\ Spells(h.list, w, n, z) /\ h.headIndex = FirstOf(w, n)
  BY <1>1 DEF Holds, ListIs
<1>6. PICK k \in 1 .. n : w[k] = index
  BY <1>1, <1>5 DEF Links
<1>7. PICK y : y = [z EXCEPT ![k] = stu]
  OBVIOUS
<1>8. y \in Seq(Heap!Student) /\ Len(y) = n /\ \A j \in 1 .. n : y[j] = IF j = k THEN stu ELSE z[j]
  BY <1>3, <1>4, <1>6, <1>7
<1>9. g \in Structures /\ g.list = m /\ g.size = n /\ g.unusedIndexs = StackFor(n) /\ g.headIndex = h.headIndex
  BY <1>1, <1>4 DEF Changed, Structures
<1>10. \A j \in 1 .. n : w[j] \in Heap!Slots /\ (w[j] = index <=> j = k)
  <2>1. \A j \in 1 .. n : w[j] \in 0 .. n - 1
    BY <1>5 DEF Links
  <2>2. 0 .. n - 1 \subseteq Heap!Slots
    BY <1>4, HeapSizes DEF Heap!Slots
  <2> QED  BY <1>5, <1>6, <2>1, <2>2 DEF Links
<1>11. Links(m, w, n)
  <2>1. \A j \in 1 .. n : m[w[j]].nextNode = h.list[w[j]].nextNode /\ m[w[j]].preNode = h.list[w[j]].preNode
    BY <1>10 DEF Changed
  <2> QED  BY <1>5, <2>1 DEF Links
<1>12. Spells(m, w, n, y)
  <2> SUFFICES ASSUME NEW j \in 1 .. n  PROVE y[j].id = m[w[j]].id /\ y[j].name = m[w[j]].name
    BY DEF Spells
  <2>1. CASE j = k
    BY <1>3, <1>8, <1>10, <2>1 DEF Changed
  <2>2. CASE j # k
    BY <1>5, <1>8, <1>10, <2>2 DEF Changed, Spells
  <2> QED  BY <2>1, <2>2
<1>13. Holds(g, y)
  BY <1>5, <1>8, <1>9, <1>11, <1>12 DEF Holds, ListIs
<1> QED  BY <1>3, <1>4, <1>7, <1>13 DEF ChangeOf

\* What a change of a student comes to.
ModifyIs(g, z) ==
  \E y : Holds(g, y) /\ HeapFrom(g.list, 0, g.size) /\ (y = z \/ ChangeOf(y, z))

\* initialHeap again, after an id has changed.
LEMMA RebuildIs ==
  ASSUME NEW h, NEW y, Holds(h, y)
  PROVE  Holds(Heap!initialHeap(h), y) /\ HeapFrom(Heap!initialHeap(h).list, 0, Heap!initialHeap(h).size)
<1>1. h \in Structures /\ ListIs(h.list, h.size, y, h.headIndex)
  BY DEF Holds
<1>2. KeepsList(Heap!initialHeap(h), h, y) /\ HeapFrom(Heap!initialHeap(h).list, 0, h.size)
  BY <1>1, InitialHeapIs
<1> QED  BY <1>2 DEF KeepsList, Holds

\* The three functions that change the student of a given slot.
LEMMA ByIndexIs ==
  ASSUME NEW h, NEW z, NEW index, NEW id, NEW name, Holds(h, z), HeapFrom(h.list, 0, h.size),
         index \in Heap!Slots, id \in Ids, name \in Names
  PROVE  /\ ModifyIs(Heap!modifyIdByIndex(h, index, id), z)
         /\ ModifyIs(Heap!modifyNameByIndex(h, index, name), z)
         /\ ModifyIs(Heap!modifyIdAndNameByIndex(h, index, id, name), z)
<1>0. h.size \in Nat /\ index \in Int /\ h.list \in Lists /\ h \in Structures
  BY HeapSizes DEF Holds, Structures, Heap!Slots
<1>1. CASE index >= h.size
  <2>1. ModifyIs(h, z)
    BY DEF ModifyIs
  <2> QED  BY <1>1, <2>1 DEF Heap!modifyIdByIndex, Heap!modifyNameByIndex, Heap!modifyIdAndNameByIndex
<1>2. CASE ~(index >= h.size)
  <2>1. index \in 0 .. h.size - 1
    BY <1>0, <1>2 DEF Heap!Slots
  <2>2. h.list[index].id \in Ids /\ h.list[index].name \in Names
    BY <2>1, LiveStudent
  <2>3. ModifyIs(Heap!modifyIdByIndex(h, index, id), z)
    <3>1. PICK m : m = [h.list EXCEPT ![index].id = id]
      OBVIOUS
    <3>2. PICK g : g = [h EXCEPT !.list = m]
      OBVIOUS
    <3>3. Changed(m, h.list, index, id, h.list[index].name)
      BY <1>0, <3>1, IdSet
    <3>4. PICK y : Holds(g, y) /\ ChangeOf(y, z)
      BY <2>1, <2>2, <3>2, <3>3, ChangeIs
    <3>5. Heap!modifyIdByIndex(h, index, id) = Heap!initialHeap(g)
      BY <1>2, <3>1, <3>2 DEF Heap!modifyIdByIndex
    <3> QED  BY <3>4, <3>5, RebuildIs DEF ModifyIs
  <2>4. ModifyIs(Heap!modifyNameByIndex(h, index, name), z)
    <3>1. PICK m : m = [h.list EXCEPT ![index].name = name]
      OBVIOUS
    <3>2. PICK g : g = [h EXCEPT !.list = m]
      OBVIOUS
    <3>3. Changed(m, h.list, index, h.list[index].id, name)
      BY <1>0, <3>1, NameSet
    <3>4. PICK y : Holds(g, y) /\ ChangeOf(y, z)
      BY <2>1, <2>2, <3>2, <3>3, ChangeIs
    <3>5. Heap!modifyNameByIndex(h, index, name) = g
      BY <1>2, <3>1, <3>2 DEF Heap!modifyNameByIndex
    <3>6. g.list = m /\ g.size = h.size
      BY <1>0, <3>2 DEF Structures
    <3>7. \A i \in 0 .. h.size - 1 : m[i].id = h.list[i].id
      <4>1. 0 .. h.size - 1 \subseteq Heap!Slots
        BY <1>0, HeapSizes DEF Heap!Slots, Structures
      <4> QED  BY <3>3, <4>1 DEF Changed
    <3>8. HeapFrom(g.list, 0, g.size)
      BY <3>6, <3>7 DEF HeapFrom
    <3> QED  BY <3>4, <3>5, <3>8 DEF ModifyIs
  <2>5. ModifyIs(Heap!modifyIdAndNameByIndex(h, index, id, name), z)
    <3>1. PICK l : l = [h.list EXCEPT ![index].id = id]
      OBVIOUS
    <3>2. PICK m : m = [l EXCEPT ![index].name = name]
      OBVIOUS
    <3>3. PICK g : g = [h EXCEPT !.list = m]
      OBVIOUS
    <3>4. Changed(l, h.list, index, id, h.list[index].name)
      BY <1>0, <3>1, IdSet
    <3>5. Changed(m, l, index, l[index].id, name)
      <4>1. l \in Lists
        BY <3>4 DEF Changed
      <4> QED  BY <3>2, <4>1, NameSet
    <3>6. Changed(m, h.list, index, id, name)
      BY <3>4, <3>5 DEF Changed
    <3>7. PICK y : Holds(g, y) /\ ChangeOf(y, z)
      BY <2>1, <3>3, <3>6, ChangeIs
    <3>8. Heap!modifyIdAndNameByIndex(h, index, id, name) = Heap!initialHeap(g)
      <4>1. [h EXCEPT !.list[index].id = id, !.list[index].name = name] = g
        <5>1. PICK f : f = [h EXCEPT !.list = l]
          OBVIOUS
        <5>2. f.list = l /\ [f EXCEPT !.list = m] = g
          BY <1>0, <3>3, <5>1 DEF Structures
        <5>3. [f EXCEPT !.list[index].name = name] = g
          BY <3>2, <5>2
        <5> QED  BY <3>1, <5>1, <5>3
      <4> QED  BY <1>2, <4>1 DEF Heap!modifyIdAndNameByIndex
    <3> QED  BY <3>7, <3>8, RebuildIs DEF ModifyIs
  <2> QED  BY <2>3, <2>4, <2>5
<1> QED  BY <1>1, <1>2

\* The three functions that search for the student first.
LEMMA ByStudentIs ==
  ASSUME NEW h, NEW z, NEW stu, NEW id, NEW name, Holds(h, z), HeapFrom(h.list, 0, h.size),
         id \in Ids, name \in Names
  PROVE  /\ ModifyIs(Heap!modifyId(h, stu, id), z)
         /\ ModifyIs(Heap!modifyName(h, stu, name), z)
         /\ ModifyIs(Heap!modifyIdAndName(h, stu, id, name), z)
<1>0. h.size \in Nat /\ 0 .. h.size - 1 \subseteq Heap!Slots
  BY HeapSizes DEF Holds, Structures, Heap!Slots
<1>1. CASE Heap!Found(h, stu)
  <2>1. PICK index : index = Heap!findHeap(h, stu, 0)
    OBVIOUS
  <2>2. index # Heap!Nil
    BY <1>1, <2>1 DEF Heap!Found
  <2>3. PICK wanted : wanted = {i \in Heap!Slots : h.list[i].id = stu.id /\ h.list[i].name = stu.name}
    OBVIOUS
  <2>4. index = Heap!Search(h, wanted, 0)
    BY <2>1, <2>3 DEF Heap!findHeap
  <2>5. index \in Heap!Slots
    BY <1>0, <2>2, <2>4, SearchIs
  <2>6. /\ ModifyIs(Heap!modifyIdByIndex(h, index, id), z)
        /\ ModifyIs(Heap!modifyNameByIndex(h, index, name), z)
        /\ ModifyIs(Heap!modifyIdAndNameByIndex(h, index, id, name), z)
    BY <2>5, ByIndexIs
  <2> QED  BY <1>1, <2>1, <2>6 DEF Heap!modifyId, Heap!modifyName, Heap!modifyIdAndName
<1>2. CASE ~Heap!Found(h, stu)
  <2>1. ModifyIs(h, z)
    BY DEF ModifyIs
  <2> QED  BY <1>2, <2>1 DEF Heap!modifyId, Heap!modifyName, Heap!modifyIdAndName
<1> QED  BY <1>1, <1>2

-----------------------------------------------------------------------------
\* A step of the walk, and the walk after k of them.
Onward(h, v) == IF v = <<>> THEN h.headIndex ELSE h.list[v[Len(v)]].nextNode
WalkOn(h, v) == IF Onward(h, v) = Heap!Nil THEN v ELSE Append(v, Onward(h, v))
Part(w, n, k) == [j \in 1 .. (IF k <= n THEN k ELSE n) |-> w[j]]

\* A step of the walk goes to the next slot of the list, or nowhere at its end.
LEMMA WalkStep ==
  ASSUME NEW h, NEW w, NEW n, Links(h.list, w, n), h.headIndex = FirstOf(w, n), NEW k \in Nat
  PROVE  WalkOn(h, Part(w, n, k)) = Part(w, n, k + 1)
<1>0. n \in Nat
  BY HeapSizes DEF Links
<1>1. \A j \in 1 .. n : w[j] \in 0 .. n - 1 /\ w[j] # Heap!Nil /\ w[j] \in Int
  BY <1>0 DEF Links, Heap!Nil
<1>2. PICK p : p = Part(w, n, k)
  OBVIOUS
<1>3. PICK b : b = IF k <= n THEN k ELSE n
  OBVIOUS
<1>4. b \in Nat /\ b \in 0 .. n
  BY <1>0, <1>3
<1>5. p = [j \in 1 .. b |-> w[j]]
  BY <1>2, <1>3 DEF Part
<1>6. p \in Seq(Int) /\ Len(p) = b
  <2>1. \A j \in 1 .. b : j \in 1 .. n
    BY <1>0, <1>4
  <2> QED  BY <1>1, <1>4, <1>5, <2>1
<1>7. CASE b = 0
  <2>1. p = <<>>
    BY <1>6, <1>7
  <2>2. CASE n = 0
    <3>1. WalkOn(h, p) = p
      BY <2>1, <2>2 DEF WalkOn, Onward, FirstOf
    <3>2. Part(w, n, k + 1) = [j \in 1 .. 0 |-> w[j]]
      BY <1>0, <2>2 DEF Part
    <3> QED  BY <1>2, <1>5, <1>7, <3>1, <3>2
  <2>3. CASE n # 0
    <3>1. k = 0 /\ 1 \in 1 .. n
      BY <1>0, <1>3, <1>7, <2>3
    <3>2. WalkOn(h, p) = Append(p, w[1])
      BY <1>1, <2>1, <2>3, <3>1 DEF WalkOn, Onward, FirstOf
    <3>3. Part(w, n, k + 1) = [j \in 1 .. 1 |-> w[j]]
      BY <1>0, <3>1 DEF Part
    <3>4. Append(<<>>, w[1]) = [j \in 1 .. 1 |-> w[j]]
      OBVIOUS
    <3> QED  BY <1>2, <2>1, <3>2, <3>3, <3>4
  <2> QED  BY <2>2, <2>3
<1>8. CASE b # 0
  <2>1. p # <<>> /\ b \in 1 .. n /\ b \in 1 .. b
    BY <1>4, <1>6, <1>8
  <2>2. p[Len(p)] = w[b]
    BY <1>5, <1>6, <2>1
  <2>3. Onward(h, p) = IF b = n THEN Heap!Nil ELSE w[b + 1]
    BY <2>1, <2>2 DEF Onward, Links
  <2>4. CASE b = n
    <3>1. WalkOn(h, p) = p
      BY <2>3, <2>4 DEF WalkOn
    <3>2. Part(w, n, k + 1) = [j \in 1 .. b |-> w[j]]
      BY <1>0, <1>3, <2>4 DEF Part
    <3> QED  BY <1>2, <1>5, <3>1, <3>2
  <2>5. CASE b # n
    <3>1. b = k /\ k < n /\ b + 1 \in 1 .. n
      BY <1>0, <1>3, <1>4, <2>5
    <3>2. WalkOn(h, p) = Append(p, w[b + 1])
      BY <1>1, <2>3, <2>5, <3>1 DEF WalkOn
    <3>3. Part(w, n, k + 1) = [j \in 1 .. b + 1 |-> w[j]]
      BY <1>0, <3>1 DEF Part
    <3>4. Append(p, w[b + 1]) = [j \in 1 .. b + 1 |-> w[j]]
      <4>1. \A j \in 1 .. b : p[j] = w[j]
        BY <1>5
      <4>2. PICK q : q = [j \in 1 .. b + 1 |-> w[j]]
        OBVIOUS
      <4>3. Append(p, w[b + 1]) = [j \in 1 .. b + 1 |-> IF j = b + 1 THEN w[b + 1] ELSE p[j]]
        BY <1>1, <1>4, <1>6, <3>1
      <4>4. \A j \in 1 .. b + 1 : j # b + 1 => j \in 1 .. b
        BY <1>4
      <4> QED  BY <4>1, <4>3, <4>4
    <3> QED  BY <1>2, <3>2, <3>3, <3>4
  <2> QED  BY <2>4, <2>5
<1> QED  BY <1>7, <1>8

\* The walk meets the slots in the order of the list.
LEMMA WalkIs ==
  ASSUME NEW h, NEW w, NEW n, Links(h.list, w, n), h.headIndex = FirstOf(w, n)
  PROVE  Heap!Walk(h) = w
<1>0. n \in Nat /\ n <= MAXSIZE /\ MAXSIZE + 1 \in Nat /\ w = [j \in 1 .. n |-> w[j]]
  BY HeapSizes DEF Links
<1>1. PICK b : b = MAXSIZE + 1
  OBVIOUS
<1> DEFINE Further(v, i) == IF i = Heap!Nil THEN v ELSE Append(v, i)
           Body(f) == [k \in 0 .. MAXSIZE + 1 |->
                         IF k = 0 THEN <<>>
                         ELSE LET v == f[k - 1]
                              IN  Further(v, IF v = <<>> THEN h.headIndex ELSE h.list[v[Len(v)]].nextNode)]
           d == CHOOSE f : f = Body(f)
<1>2. Heap!Walk(h) = d[b]
  BY <1>1 DEF Heap!Walk
<1>3. \A f : Body(f) = [k \in 0 .. b |-> IF k = 0 THEN <<>> ELSE WalkOn(h, f[k - 1])]
  BY <1>1 DEF WalkOn, Onward
<1> HIDE DEF Body
<1>4. b \in Nat /\ n < b
  BY <1>0, <1>1, HeapSizes
<1>5. Part(w, n, 0) = <<>>
  <2>1. Part(w, n, 0) = [j \in 1 .. 0 |-> w[j]]
    BY <1>0 DEF Part
  <2> QED  BY <2>1
<1>6. PICK e : e = [k \in 0 .. b |-> Part(w, n, k)]
  OBVIOUS
<1>7. e = Body(e)
  <2>1. ASSUME NEW k \in 0 .. b  PROVE e[k] = IF k = 0 THEN <<>> ELSE WalkOn(h, e[k - 1])
    <3>1. CASE k = 0
      BY <1>5, <1>6, <3>1
    <3>2. CASE k # 0
      <4>1. k - 1 \in 0 .. b /\ k - 1 \in Nat /\ (k - 1) + 1 = k
        BY <1>4, <3>2
      <4>2. WalkOn(h, Part(w, n, k - 1)) = Part(w, n, (k - 1) + 1)
        BY <4>1, WalkStep
      <4>3. e[k - 1] = Part(w, n, k - 1) /\ e[k] = Part(w, n, k)
        BY <1>6, <4>1
      <4> QED  BY <3>2, <4>1, <4>2, <4>3
    <3> QED  BY <3>1, <3>2
  <2> QED  BY <1>3, <1>6, <2>1
<1>8. d = Body(d)
  BY <1>7
<1> HIDE DEF d
<1>9. d[0] = <<>> /\ \A k \in 0 .. b - 1 : d[k + 1] = WalkOn(h, d[k])
  <2>0. d = [k \in 0 .. b |-> IF k = 0 THEN <<>> ELSE WalkOn(h, d[k - 1])]
    BY <1>3, <1>8
  <2>1. d[0] = <<>>
    BY <1>4, <2>0
  <2>2. ASSUME NEW k \in 0 .. b - 1  PROVE d[k + 1] = WalkOn(h, d[k])
    <3>1. k + 1 \in 0 .. b /\ k + 1 # 0 /\ (k + 1) - 1 = k
      BY <1>4
    <3>2. d[k + 1] = WalkOn(h, d[(k + 1) - 1])
      BY <2>0, <3>1
    <3> QED  BY <3>1, <3>2
  <2> QED  BY <2>1, <2>2
<1> DEFINE S == {k \in Nat : d[k] = Part(w, n, k)}
<1>10. 0 \in S
  BY <1>5, <1>9
<1>11. ASSUME NEW k \in 0 .. b - 1, k \in S  PROVE k + 1 \in S
  <2>1. k \in Nat /\ d[k] = Part(w, n, k) /\ d[k + 1] = WalkOn(h, d[k])
    BY <1>9, <1>11
  <2>2. d[k + 1] = Part(w, n, k + 1)
    BY <2>1, WalkStep
  <2> QED  BY <2>1, <2>2
<1>12. 0 .. b \subseteq S
  <2> HIDE DEF S
  <2> QED  BY <1>4, <1>10, <1>11, UpToInduction
<1>13. d[b] = Part(w, n, b)
  <2>1. b \in S
    BY <1>4, <1>12
  <2> QED  BY <2>1
<1>14. Part(w, n, b) = w
  BY <1>0, <1>4 DEF Part
<1> QED  BY <1>2, <1>13, <1>14

\* printStaticLinkList prints the students of the list in order.
LEMMA ListedIs ==
  ASSUME NEW h, NEW z, Holds(h, z)
  PROVE  Heap!Listed(h) = z
<1>1. PICK n : n = h.size
  OBVIOUS
<1>2. PICK w : Links(h.list, w, n) /\ Spells(h.list, w, n, z) /\ h.headIndex = FirstOf(w, n)
  BY <1>1 DEF Holds, ListIs
<1>3. Heap!Walk(h) = w
  BY <1>2, WalkIs
<1>4. DOMAIN w = 1 .. n /\ n \in Nat
  BY <1>2, HeapSizes DEF Links
<1>5. Heap!Listed(h) = [k \in 1 .. n |-> [id |-> h.list[w[k]].id, name |-> h.list[w[k]].name]]
  BY <1>3, <1>4 DEF Heap!Listed
<1>6. ASSUME NEW k \in 1 .. n  PROVE z[k] = [id |-> h.list[w[k]].id, name |-> h.list[w[k]].name]
  <2>1. z[k] \in Heap!Student
    BY <1>1, <1>6 DEF Holds
  <2>2. z[k] = [id |-> z[k].id, name |-> z[k].name]
    BY <2>1 DEF Heap!Student
  <2> QED  BY <1>2, <2>2 DEF Spells
<1>7. z \in Seq(Heap!Student) /\ Len(z) = n
  BY <1>1 DEF Holds
<1>8. z = [k \in 1 .. n |-> z[k]]
  BY <1>4, <1>7
<1> QED  BY <1>5, <1>6, <1>8

-----------------------------------------------------------------------------
\* The state of the heap program.
HeapInv ==
  /\ phase \in {"list", "heap"}
  /\ \E z : Holds(heap, z)
  /\ phase = "heap" => HeapFrom(heap.list, 0, heap.size)

\* What a step does to the students of the list.
StepIs(y, z) ==
  \/ y = z
  \/ \E stu \in Heap!Student : y = <<stu>> \o z
  \/ \E k \in 1 .. Len(z) : /\ y = Without(z, k)
                            /\ \A j \in 1 .. Len(z) : z[k].id <= z[j].id
  \/ ChangeOf(y, z)

\* The empty list.
LEMMA HeapInit ==
  Heap!Init => HeapInv
<1> SUFFICES ASSUME Heap!Init  PROVE HeapInv
  OBVIOUS
<1>1. PICK l : l = [i \in Heap!Slots |-> Heap!Unused]
  OBVIOUS
<1>2. l \in Lists
  <2>1. Heap!Unused \in AnyNode
    BY DEF Heap!Unused, AnyNode, LinkTo
  <2> QED  BY <1>1, <2>1 DEF Lists
<1>3. 0 \in 0 .. MAXSIZE /\ Heap!Nil \in LinkTo /\ MAXSIZE \in Nat
  BY HeapSizes DEF LinkTo
<1>4. Heap!initiateStack = StackFor(0) /\ StackFor(0) \in Seq(Heap!Slots)
  <2>1. StackFor(0) \in Seq(Heap!Slots)
    BY <1>3, StackIs
  <2>2. MAXSIZE - 0 = MAXSIZE
    BY <1>3
  <2> QED  BY <2>1, <2>2 DEF StackFor, Heap!initiateStack
<1>5. heap = [list |-> l, headIndex |-> Heap!Nil, size |-> 0, unusedIndexs |-> StackFor(0)]
  BY <1>1, <1>4 DEF Heap!Init, Heap!initialStaticLinkList
<1>6. heap \in Structures /\ heap.list = l /\ heap.headIndex = Heap!Nil /\ heap.size = 0 /\ heap.unusedIndexs = StackFor(0)
  BY <1>2, <1>3, <1>4, <1>5 DEF Structures
<1>7. ListIs(l, 0, <<>>, Heap!Nil)
  <2>1. PICK w : w = [k \in 1 .. 0 |-> 0]
    OBVIOUS
  <2>2. Links(l, w, 0) /\ Spells(l, w, 0, <<>>) /\ Heap!Nil = FirstOf(w, 0)
    BY <1>3, <2>1 DEF Links, Spells, FirstOf
  <2> QED  BY <2>2 DEF ListIs
<1>8. <<>> \in Seq(Heap!Student) /\ Len(<<>>) = 0
  OBVIOUS
<1>9. Holds(heap, <<>>)
  BY <1>6, <1>7, <1>8 DEF Holds
<1>10. phase = "list"
  BY DEF Heap!Init
<1> QED  BY <1>9, <1>10 DEF HeapInv

\* popHeap, whatever the size.
LEMMA PopIsStep ==
  ASSUME NEW h, NEW z, Pointer = FALSE, Holds(h, z), HeapFrom(h.list, 0, h.size)
  PROVE  \E y : Holds(Heap!popHeap(h), y) /\ HeapFrom(Heap!popHeap(h).list, 0, Heap!popHeap(h).size) /\ StepIs(y, z)
<1>0. h.size \in Nat
  BY EverySlot
<1>1. CASE h.size = 0
  <2>1. Heap!popHeap(h) = h
    BY <1>1 DEF Heap!popHeap
  <2> QED  BY <2>1 DEF StepIs
<1>2. CASE h.size # 0
  <2>1. \E k : PopIs(Heap!popHeap(h), z, k)
    <3>1. CASE h.size = 1
      BY <3>1, PopOne
    <3>2. CASE h.size # 1
      <4>1. h.size > 1
        BY <1>0, <1>2, <3>2
      <4> QED  BY <4>1, PopMany
    <3> QED  BY <3>1, <3>2
  <2>2. PICK k : PopIs(Heap!popHeap(h), z, k)
    BY <2>1
  <2>3. PICK g : g = Heap!popHeap(h)
    OBVIOUS
  <2>4. Holds(g, Without(z, k)) /\ HeapFrom(g.list, 0, g.size) /\ StepIs(Without(z, k), z)
    BY <2>2, <2>3 DEF PopIs, StepIs
  <2> QED  BY <2>3, <2>4
<1> QED  BY <1>1, <1>2

\* One step of the heap program.
LEMMA HeapNext ==
  ASSUME Pointer = FALSE, NEW z, Holds(heap, z), HeapInv, [Heap!Next]_hvars
  PROVE  HeapInv' /\ \E y : Holds(heap', y) /\ StepIs(y, z)
<1> DEFINE Done == HeapInv' /\ \E y : Holds(heap', y) /\ StepIs(y, z)
<1>0. ASSUME NEW y, Holds(heap', y), StepIs(y, z), phase' \in {"list", "heap"},
             phase' = "heap" => HeapFrom(heap'.list, 0, heap'.size)
      PROVE  Done
  BY <1>0 DEF HeapInv, Holds
<1>1. ASSUME NEW stu \in Heap!Student, Heap!InsertAtHead(stu)  PROVE Done
  <2>1. heap' = Heap!insertListAtHead(heap, stu) /\ heap.size < MAXSIZE /\ phase' = "list"
    BY <1>1 DEF Heap!InsertAtHead, Heap!Room
  <2>2. Holds(heap', <<stu>> \o z)
    BY <2>1, InsertIs
  <2>3. StepIs(<<stu>> \o z, z)
    BY DEF StepIs
  <2> HIDE DEF Done
  <2> QED  BY <1>0, <2>1, <2>2, <2>3
<1>2. ASSUME NEW stu \in Heap!Student, Heap!Push(stu)  PROVE Done
  <2>1. heap' = Heap!pushHeap(heap, stu) /\ heap.size < MAXSIZE /\ phase = "heap" /\ phase' = "heap"
    BY <1>2 DEF Heap!Push, Heap!Room
  <2>2. Holds(heap', <<stu>> \o z) /\ HeapFrom(heap'.list, 0, heap'.size)
    BY <2>1, PushIs DEF HeapInv
  <2>3. StepIs(<<stu>> \o z, z)
    BY DEF StepIs
  <2> HIDE DEF Done
  <2> QED  BY <1>0, <2>1, <2>2, <2>3
<1>3. ASSUME Heap!InitialHeap  PROVE Done
  <2>1. heap' = Heap!initialHeap(heap) /\ phase' = "heap"
    BY <1>3 DEF Heap!InitialHeap
  <2>2. Holds(heap', z) /\ HeapFrom(heap'.list, 0, heap'.size)
    BY <2>1, RebuildIs
  <2>3. StepIs(z, z)
    BY DEF StepIs
  <2> HIDE DEF Done
  <2> QED  BY <1>0, <2>1, <2>2, <2>3
<1>4. ASSUME Heap!Pop  PROVE Done
  <2>1. heap' = Heap!popHeap(heap) /\ phase = "heap" /\ phase' = "heap"
    BY <1>4 DEF Heap!Pop
  <2>2. PICK y : Holds(heap', y) /\ HeapFrom(heap'.list, 0, heap'.size) /\ StepIs(y, z)
    BY <2>1, PopIsStep DEF HeapInv
  <2> HIDE DEF Done
  <2> QED  BY <1>0, <2>1, <2>2
<1>5. ASSUME ModifyIs(heap', z), phase' = "heap"  PROVE Done
  <2>1. PICK y : Holds(heap', y) /\ HeapFrom(heap'.list, 0, heap'.size) /\ (y = z \/ ChangeOf(y, z))
    BY <1>5 DEF ModifyIs
  <2>2. StepIs(y, z)
    BY <2>1 DEF StepIs
  <2> HIDE DEF Done
  <2> QED  BY <1>0, <1>5, <2>1, <2>2
<1>6. ASSUME NEW id \in Ids, NEW name \in Names, NEW stu \in Heap!Student, Heap!ModifyStudent(stu, id, name)
      PROVE  Done
  <2>1. phase = "heap" /\ phase' = "heap" /\ HeapFrom(heap.list, 0, heap.size)
    BY <1>6 DEF Heap!ModifyStudent, HeapInv
  <2>2. heap' = Heap!modifyId(heap, stu, id) \/ heap' = Heap!modifyName(heap, stu, name)
        \/ heap' = Heap!modifyIdAndName(heap, stu, id, name)
    BY <1>6 DEF Heap!ModifyStudent
  <2>3. ModifyIs(heap', z)
    <3>1. /\ ModifyIs(Heap!modifyId(heap, stu, id), z)
          /\ ModifyIs(Heap!modifyName(heap, stu, name), z)
          /\ ModifyIs(Heap!modifyIdAndName(heap, stu, id, name), z)
      BY <2>1, ByStudentIs
    <3> QED  BY <2>2, <3>1
  <2> HIDE DEF Done
  <2> QED  BY <1>5, <2>1, <2>3
<1>7. ASSUME NEW id \in Ids, NEW name \in Names, NEW index \in Heap!Slots, Heap!ModifySlot(index, id, name)
      PROVE  Done
  <2>1. phase = "heap" /\ phase' = "heap" /\ HeapFrom(heap.list, 0, heap.size)
    BY <1>7 DEF Heap!ModifySlot, HeapInv
  <2>2. heap' = Heap!modifyIdByIndex(heap, index, id) \/ heap' = Heap!modifyNameByIndex(heap, index, name)
        \/ heap' = Heap!modifyIdAndNameByIndex(heap, index, id, name)
    BY <1>7 DEF Heap!ModifySlot
  <2>3. ModifyIs(heap', z)
    <3>1. /\ ModifyIs(Heap!modifyIdByIndex(heap, index, id), z)
          /\ ModifyIs(Heap!modifyNameByIndex(heap, index, name), z)
          /\ ModifyIs(Heap!modifyIdAndNameByIndex(heap, index, id, name), z)
      BY <2>1, ByIndexIs
    <3> QED  BY <2>2, <3>1
  <2> HIDE DEF Done
  <2> QED  BY <1>5, <2>1, <2>3
<1>8. ASSUME UNCHANGED hvars  PROVE Done
  <2>1. heap' = heap /\ phase' = phase
    BY <1>8 DEF hvars
  <2>2. StepIs(z, z) /\ Holds(heap', z)
    BY <2>1 DEF StepIs
  <2>3. phase' \in {"list", "heap"} /\ (phase' = "heap" => HeapFrom(heap'.list, 0, heap'.size))
    BY <2>1 DEF HeapInv
  <2> HIDE DEF Done
  <2> QED  BY <1>0, <2>2, <2>3
<1> HIDE DEF Done
<1>9. Done
  BY <1>1, <1>2, <1>3, <1>4, <1>6, <1>7, <1>8 DEF Heap!Next
<1> QED  BY <1>9 DEF Done

\* What the invariant says of the links.
LEMMA HeapInvListSound ==
  HeapInv => Heap!ListSound
<1> SUFFICES ASSUME HeapInv  PROVE Heap!ListSound
  OBVIOUS
<1>1. PICK z : Holds(heap, z)
  BY DEF HeapInv
<1>2. PICK n : n = heap.size
  OBVIOUS
<1>3. PICK w : Links(heap.list, w, n) /\ Spells(heap.list, w, n, z) /\ heap.headIndex = FirstOf(w, n)
  BY <1>1, <1>2 DEF Holds, ListIs
<1>4. Heap!Walk(heap) = w
  BY <1>3, WalkIs
<1>5. DOMAIN w = 1 .. n /\ n \in Nat /\ w \in [1 .. n -> 0 .. n - 1]
  BY <1>3, HeapSizes DEF Links
<1>6. Len(w) = n
  BY <1>5
<1>7. {w[k] : k \in DOMAIN w} = 0 .. n - 1
  BY <1>3, <1>5 DEF Links
<1>8. heap.unusedIndexs = [i \in 1 .. MAXSIZE - n |-> MAXSIZE - i]
  BY <1>1, <1>2 DEF Holds, StackFor
<1>9. \A k \in DOMAIN w : heap.list[w[k]].preNode = IF k = 1 THEN Heap!Nil ELSE w[k - 1]
  BY <1>3, <1>5 DEF Links
<1> QED  BY <1>2, <1>4, <1>6, <1>7, <1>8, <1>9 DEF Heap!ListSound, Heap!Live

\* What the invariant says of the heap and the searches.
LEMMA HeapInvHeapSound ==
  HeapInv => Heap!HeapSound
<1> SUFFICES ASSUME HeapInv, phase = "heap"  PROVE Heap!ParentsLeast /\ Heap!SearchComplete
  BY DEF Heap!HeapSound
<1>1. PICK z : Holds(heap, z)
  BY DEF HeapInv
<1>2. PICK n : n = heap.size
  OBVIOUS
<1>3. n \in Nat /\ 0 .. n - 1 \subseteq Heap!Slots
  BY <1>1, <1>2, EverySlot
<1>4. Heap!ParentsLeast
  <2> SUFFICES ASSUME NEW i \in 0 .. n - 1, i # 0
               PROVE  heap.list[(i - 1) \div 2].id <= heap.list[i].id
    BY <1>2 DEF Heap!ParentsLeast, Heap!Live
  <2>1. PICK p : p = (i - 1) \div 2
    OBVIOUS
  <2>2. p \in 0 .. n - 1 /\ Child(i, p)
    BY <1>3, <2>1 DEF Child
  <2>3. HeapFrom(heap.list, 0, n)
    BY <1>2 DEF HeapInv
  <2> QED  BY <2>1, <2>2, <2>3 DEF HeapFrom
<1>5. Heap!SearchComplete
  <2> DEFINE Finds(i, S) == IF S = {} THEN i = Heap!Nil ELSE i \in S
  <2>1. ASSUME NEW wanted, NEW S, S = {k \in Heap!Live : k \in wanted}
        PROVE  Finds(Heap!Search(heap, wanted, 0), S)
    <3>1. S = {k \in 0 .. n - 1 : k \in wanted}
      BY <1>2, <2>1 DEF Heap!Live
    <3>2. \/ Heap!Search(heap, wanted, 0) \in wanted /\ Heap!Search(heap, wanted, 0) \in 0 .. n - 1
          \/ Heap!Search(heap, wanted, 0) = Heap!Nil /\ \A i \in 0 .. n - 1 : i \notin wanted
      BY <1>2, <1>3, SearchIs
    <3> QED  BY <3>1, <3>2
  <2>2. Heap!Live \subseteq Heap!Slots
    BY <1>2, <1>3 DEF Heap!Live
  <2> SUFFICES ASSUME NEW id \in Ids, NEW name \in Names
               PROVE  LET same == {k \in Heap!Live : heap.list[k].id = id}
                          named == {k \in Heap!Live : heap.list[k].name = name}
                      IN  /\ Finds(Heap!findHeapById(heap, id, 0), same)
                          /\ Finds(Heap!findHeapByName(heap, name, 0), named)
                          /\ Finds(Heap!findHeap(heap, [id |-> id, name |-> name], 0), same \cap named)
    BY DEF Heap!SearchComplete
  <2> HIDE DEF Finds
  <2>3. PICK same : same = {k \in Heap!Live : heap.list[k].id = id}
    OBVIOUS
  <2>4. PICK named : named = {k \in Heap!Live : heap.list[k].name = name}
    OBVIOUS
  <2>5. Finds(Heap!findHeapById(heap, id, 0), same)
    <3>1. same = {k \in Heap!Live : k \in {i \in Heap!Slots : heap.list[i].id = id}}
      BY <2>2, <2>3
    <3> QED  BY <2>1, <3>1 DEF Heap!findHeapById
  <2>6. Finds(Heap!findHeapByName(heap, name, 0), named)
    <3>1. named = {k \in Heap!Live : k \in {i \in Heap!Slots : heap.list[i].name = name}}
      BY <2>2, <2>4
    <3> QED  BY <2>1, <3>1 DEF Heap!findHeapByName
  <2>7. Finds(Heap!findHeap(heap, [id |-> id, name |-> name], 0), same \cap named)
    <3>1. PICK wanted : wanted = {i \in Heap!Slots : heap.list[i].id = id /\ heap.list[i].name = name}
      OBVIOUS
    <3>2. same \cap named = {k \in Heap!Live : k \in wanted}
      BY <2>2, <2>3, <2>4, <3>1
    <3>3. Heap!findHeap(heap, [id |-> id, name |-> name], 0) = Heap!Search(heap, wanted, 0)
      BY <3>1 DEF Heap!findHeap
    <3> QED  BY <2>1, <3>2, <3>3
  <2> QED  BY <2>3, <2>4, <2>5, <2>6, <2>7
<1> QED  BY <1>4, <1>5

\* What a step does to the list is what ListOrderKept allows.
LEMMA StepKeepsOrder ==
  ASSUME NEW h, NEW g, NEW z, NEW y, Holds(h, z), Holds(g, y), StepIs(y, z)
  PROVE  LET old == Heap!Listed(h)  new == Heap!Listed(g)
         IN  \/ new = old
             \/ \E stu \in Heap!Student : new = <<stu>> \o old
             \/ \E k \in DOMAIN old : /\ new = SubSeq(old, 1, k - 1) \o SubSeq(old, k + 1, Len(old))
                                      /\ \A j \in DOMAIN old : old[k].id <= old[j].id
             \/ \E k \in DOMAIN old, stu \in Heap!Student : new = [old EXCEPT ![k] = stu]
<1>1. Heap!Listed(h) = z /\ Heap!Listed(g) = y
  BY ListedIs
<1>2. DOMAIN z = 1 .. Len(z)
  BY DEF Holds
<1> QED  BY <1>1, <1>2 DEF StepIs, ChangeOf, Without

\* The other programs leave the heap alone.
LEMMA HeapStep == Next => [Heap!Next]_hvars
BY DEF Next, RunHeap, RunPaging, RunDisk, RunChat, RunShared, RunInput, RunTools

\* The invariant holds throughout, in the array version.
LEMMA HeapInvariant ==
  ASSUME Pointer = FALSE  PROVE Spec => []HeapInv
<1>1. HeapInv /\ [Next]_<<prog, hvars, pvars, dvars, tvars, kvars, ivars, lvars>> => HeapInv'
  <2> SUFFICES ASSUME HeapInv, [Heap!Next]_hvars  PROVE HeapInv'
    BY HeapStep
  <2>1. PICK z : Holds(heap, z)
    BY DEF HeapInv
  <2> QED  BY <2>1, HeapNext
<1>2. Init => HeapInv
  BY HeapInit DEF Init
<1> QED  BY <1>1, <1>2, PTL DEF Spec

(* ListSound (the list of Labweek7): after any sequence of operations the  *)
(* links run through exactly the live slots, backward as well as forward,  *)
(* and the stack holds the free ones in order, although the heap           *)
(* operations move students from slot to slot under the list.  The array   *)
(* version only: the run heap_pointer refutes the malloc version.          *)
THEOREM ListStaysSound ==
  ASSUME Pointer = FALSE  PROVE Spec => []ListSound
<1>1. HeapInv => ListSound
  BY HeapInvListSound DEF ListSound
<1> QED  BY <1>1, HeapInvariant, PTL

(* HeapSound (the heap of Labweek7): once initialHeap has run, no student  *)
(* has a smaller id than its parent after any number of pushes, pops and   *)
(* changed ids, and each of the three searches finds a student if and only *)
(* if a live slot holds it.                                                *)
THEOREM HeapStaysSound ==
  ASSUME Pointer = FALSE  PROVE Spec => []HeapSound
<1>1. HeapInv => HeapSound
  BY HeapInvHeapSound DEF HeapSound
<1> QED  BY <1>1, HeapInvariant, PTL

(* ListOrderKept (the order of the list of Labweek7): a step puts one      *)
(* student in front, takes one with the smallest id out, or changes one    *)
(* in its place; the exchanges on the way up and down never reorder it.    *)
THEOREM OrderStays ==
  ASSUME Pointer = FALSE  PROVE Spec => ListOrderKept
<1> DEFINE Kept == LET old == Heap!Listed(heap)  new == Heap!Listed(heap')
                   IN  \/ new = old
                       \/ \E stu \in Heap!Student : new = <<stu>> \o old
                       \/ \E k \in DOMAIN old : /\ new = SubSeq(old, 1, k - 1) \o SubSeq(old, k + 1, Len(old))
                                                /\ \A j \in DOMAIN old : old[k].id <= old[j].id
                       \/ \E k \in DOMAIN old, stu \in Heap!Student : new = [old EXCEPT ![k] = stu]
<1>1. HeapInv /\ [Next]_<<prog, hvars, pvars, dvars, tvars, kvars, ivars, lvars>> => [Kept]_hvars
  <2> SUFFICES ASSUME HeapInv, [Heap!Next]_hvars  PROVE Kept
    BY HeapStep
  <2>1. PICK z : Holds(heap, z)
    BY DEF HeapInv
  <2>2. PICK y : Holds(heap', y) /\ StepIs(y, z)
    BY <2>1, HeapNext
  <2> QED  BY <2>1, <2>2, StepKeepsOrder
<1> QED  BY <1>1, HeapInvariant, PTL DEF Spec, ListOrderKept, Heap!ListOrderKept, Heap!hvars, hvars
=============================================================================
