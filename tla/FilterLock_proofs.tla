-------------------------- MODULE FilterLock_proofs --------------------------
(***************************************************************************)
(* Proofs about Peterson's lock with threads numbered from 0, for any      *)
(* number of threads.                                                      *)
(***************************************************************************)
EXTENDS FilterLock, ProofLemmas

(***************************************************************************)
(* The inductive invariant.                                                *)
(***************************************************************************)
Scanning == {"scan_level", "scan_waiting"}
Trying == {"while"} \cup Scanning

\* A thread's entry of level follows its local lev, one step behind.
LevelInv(t) ==
    /\ pc[t] = "level" => lev[t] \in Levels /\ level[t] = lev[t] - 1
    /\ pc[t] \in {"waiting"} \cup Trying => lev[t] \in Levels /\ level[t] = lev[t]
    /\ InCritical(t) => lev[t] = max_num - 1 /\ level[t] = max_num - 2
    /\ pc[t] = "done" => level[t] = -1
    /\ pc[t] \in Scanning => k[t] \in Scanned

\* What a scan has seen of the threads before k is still so while the scanning
\* thread is the last one in its waiting room, but for threads that have come to
\* the level and not yet to the waiting room.
ScanInv(t) ==
    pc[t] \in Scanning /\ waiting[lev[t]] = t =>
      \A j \in Threads \ {t} :
        j < k[t] \/ (j = k[t] /\ pc[t] = "scan_waiting")
          => level[j] < lev[t] \/ (lev[j] = lev[t] /\ pc[j] = "waiting")

\* A thread that is no longer the last one in the waiting room was followed by
\* one that still is.
RoomInv(t) ==
    pc[t] \in Trying /\ waiting[lev[t]] # t =>
      \E v \in Threads : pc[v] \in Trying /\ lev[v] = lev[t] /\ waiting[lev[t]] = v

\* Thread w stays back on level l.
StaysBack(w, l) == /\ lev[w] = l
                   /\ pc[w] = "waiting" \/ (pc[w] \in Trying /\ waiting[l] = w)

\* When a thread is past a level and another one has reached the level, some
\* thread stays back there.
BackInv(l) == \A t \in Past(l), u \in Threads :
                 u # t /\ level[u] >= l => \E w \in Threads : StaysBack(w, l)

IInv == /\ TypeOK
        /\ \A t \in Threads : LevelInv(t) /\ ScanInv(t) /\ RoomInv(t)
        /\ \A l \in Levels : BackInv(l)

\* Threads, levels and the scanned entries when threads are numbered from 0.
LEMMA Ranges ==
  ASSUME Base = 0
  PROVE  /\ max_num \in Nat \ {0} /\ Threads \subseteq Nat
         /\ Threads = 0 .. max_num - 1 /\ Scanned = Threads /\ Threads \cup Scanned = Threads
         /\ Levels = 0 .. max_num - 2
BY ThreadCount DEF Threads, Scanned, Levels

\* The arrays' types, as the proofs use them.
LEMMA Types ==
  ASSUME Base = 0, TypeOK
  PROVE  /\ level \in [Threads -> Int] /\ waiting \in [Levels -> Threads \cup {-1}]
         /\ lev \in [Threads -> Nat] /\ k \in [Threads -> Nat] /\ pc \in [Threads -> Labels]
         /\ max_num \in Nat \ {0} /\ Threads \subseteq Nat /\ Levels \subseteq Nat
BY Ranges DEF TypeOK

(***************************************************************************)
(* Every step keeps each part of the invariant.                            *)
(***************************************************************************)
\* The steps of the critical section move one thread inside it.
InsideStep(t) == ReadCounter(t) \/ WriteCounter(t) \/ CheckCounter(t)

LEMMA InsideEffect ==
  ASSUME TypeOK, NEW t \in Threads, InsideStep(t)
  PROVE  /\ InCritical(t) /\ pc[t] # "release" /\ InCritical(t)'
         /\ \A u \in Threads : u # t => pc'[u] = pc[u]
         /\ pc' \in [Threads -> Labels]
         /\ UNCHANGED <<level, waiting, lev, k>>
BY DEF TypeOK, InsideStep, ReadCounter, WriteCounter, CheckCounter, At, Goto, InCritical, shared, Labels

\* Types and ranges.
LEMMA TypeStep == ASSUME Base = 0, IInv, [Next]_vars  PROVE TypeOK'
<1> USE Ranges DEF At, Goto, shared
<1>0. TypeOK /\ \A t \in Threads : LevelInv(t)
  BY DEF IInv
<1>1. ASSUME NEW t \in Threads, SetLevel(t)  PROVE TypeOK'
  <2>1. lev[t] \in Levels
    BY <1>0, <1>1 DEF SetLevel, LevelInv
  <2> QED  BY <1>0, <1>1, <2>1 DEF SetLevel, TypeOK, Labels
<1>2. ASSUME NEW t \in Threads, SetWaiting(t)  PROVE TypeOK'
  BY <1>0, <1>2 DEF SetWaiting, TypeOK, Labels, LevelInv
<1>3. ASSUME NEW t \in Threads, Stay(t)  PROVE TypeOK'
  BY <1>0, <1>3 DEF Stay, TypeOK, Labels
<1>4. ASSUME NEW t \in Threads, Kicked(t) \/ ScanDone(t)  PROVE TypeOK'
  <2>1. lev[t] \in Levels /\ lev[t] + 1 \in 0 .. max_num
    BY <1>0, <1>4 DEF Kicked, ScanDone, LevelInv, Trying, Scanning
  <2>2. /\ lev' = [lev EXCEPT ![t] = @ + 1] /\ UNCHANGED <<shared, k, reg, killed>>
        /\ pc' = [pc EXCEPT ![t] = IF lev[t] + 1 < max_num - 1 THEN "level" ELSE "count_in"]
    BY <1>4 DEF Kicked, ScanDone, NextLevel
  <2>3. pc' \in [Threads -> Labels]
    BY <1>0, <2>2 DEF TypeOK, Labels
  <2>4. lev' \in [Threads -> 0 .. max_num]
    BY <1>0, <2>1, <2>2 DEF TypeOK
  <2> QED  BY <1>0, <2>2, <2>3, <2>4 DEF TypeOK
<1>5. ASSUME NEW t \in Threads, ScanLevel(t) \/ ScanKicked(t)  PROVE TypeOK'
  BY <1>0, <1>5 DEF ScanLevel, ScanKicked, TypeOK, Labels
<1>6. ASSUME NEW t \in Threads, ScanOn(t)  PROVE TypeOK'
  BY <1>0, <1>6 DEF ScanOn, TypeOK, Labels
<1>7. ASSUME NEW t \in Threads, ReadCounter(t)  PROVE TypeOK'
  BY <1>0, <1>7 DEF ReadCounter, TypeOK, Labels
<1>8. ASSUME NEW t \in Threads, WriteCounter(t)  PROVE TypeOK'
  <2>1. counter' \in Int
    BY <1>0, <1>8 DEF WriteCounter, TypeOK
  <2> QED  BY <1>0, <1>8, <2>1 DEF WriteCounter, TypeOK, Labels
<1>9. ASSUME NEW t \in Threads, CheckCounter(t)  PROVE TypeOK'
  <2>1. killed' \in BOOLEAN
    BY <1>9 DEF CheckCounter
  <2> QED  BY <1>0, <1>9, <2>1 DEF CheckCounter, TypeOK, Labels
<1>10. ASSUME NEW t \in Threads, Release(t)  PROVE TypeOK'
  BY <1>0, <1>10 DEF Release, TypeOK, Labels
<1>11. CASE UNCHANGED vars
  BY <1>0, <1>11 DEF vars, TypeOK
<1> QED
  BY <1>1, <1>2, <1>3, <1>4, <1>5, <1>6, <1>7, <1>8, <1>9, <1>10, <1>11 DEF Next, ftn, Acquire

\* The entries of level.
LEMMA LevelStep ==
  ASSUME Base = 0, IInv, [Next]_vars, NEW u \in Threads
  PROVE  LevelInv(u)'
<1> USE DEF At, Goto, shared, Scanning, Trying
<1>0. TypeOK /\ LevelInv(u)
  BY DEF IInv
<1>1. ASSUME NEW t \in Threads, SetLevel(t)  PROVE LevelInv(u)'
  BY <1>0, <1>1, Types DEF SetLevel, LevelInv, InCritical
<1>2. ASSUME NEW t \in Threads, SetWaiting(t)  PROVE LevelInv(u)'
  BY <1>0, <1>2, Types DEF SetWaiting, LevelInv, InCritical
<1>3. ASSUME NEW t \in Threads, Stay(t)  PROVE LevelInv(u)'
  BY <1>0, <1>3, Types, Ranges DEF Stay, LevelInv, InCritical
<1>4. ASSUME NEW t \in Threads, Kicked(t) \/ ScanDone(t)  PROVE LevelInv(u)'
  <2>0. LevelInv(t)
    BY DEF IInv
  <2>1. lev[t] \in Levels /\ level[t] = lev[t]
    BY <1>4, <2>0 DEF Kicked, ScanDone, LevelInv
  <2>2. /\ lev' = [lev EXCEPT ![t] = @ + 1] /\ UNCHANGED <<level, k>>
        /\ pc' = [pc EXCEPT ![t] = IF lev[t] + 1 < max_num - 1 THEN "level" ELSE "count_in"]
    BY <1>4 DEF Kicked, ScanDone, NextLevel
  <2> QED  BY <1>0, <2>1, <2>2, Types, Ranges DEF LevelInv, InCritical
<1>5. ASSUME NEW t \in Threads, ScanLevel(t) \/ ScanKicked(t)  PROVE LevelInv(u)'
  BY <1>0, <1>5, Types DEF ScanLevel, ScanKicked, LevelInv, InCritical
<1>6. ASSUME NEW t \in Threads, ScanOn(t)  PROVE LevelInv(u)'
  BY <1>0, <1>6, Types, Ranges DEF ScanOn, LevelInv, InCritical
<1>7. ASSUME NEW t \in Threads, InsideStep(t)  PROVE LevelInv(u)'
  <2>1. CASE u = t
    BY <1>0, <1>7, <2>1, InsideEffect DEF LevelInv, InCritical
  <2>2. CASE u # t
    BY <1>0, <1>7, <2>2, InsideEffect DEF LevelInv, InCritical
  <2> QED  BY <2>1, <2>2
<1>8. ASSUME NEW t \in Threads, Release(t)  PROVE LevelInv(u)'
  BY <1>0, <1>8, Types DEF Release, LevelInv, InCritical
<1>9. CASE UNCHANGED vars
  BY <1>0, <1>9 DEF vars, LevelInv, InCritical
<1> QED
  BY <1>1, <1>2, <1>3, <1>4, <1>5, <1>6, <1>7, <1>8, <1>9 DEF Next, ftn, Acquire, InsideStep

\* What a scan has seen.
LEMMA ScanStep ==
  ASSUME Base = 0, IInv, [Next]_vars, NEW s \in Threads
  PROVE  ScanInv(s)'
<1> USE DEF At, Goto, shared, Scanning, Trying
<1>0. TypeOK /\ ScanInv(s) /\ \A t \in Threads : LevelInv(t)
  BY DEF IInv
<1>1. ASSUME NEW t \in Threads, SetLevel(t)  PROVE ScanInv(s)'
  <2>1. /\ \A u \in Threads : pc'[u] = IF u = t THEN "waiting" ELSE pc[u]
        /\ \A u \in Threads : level'[u] = IF u = t THEN lev[t] ELSE level[u]
        /\ UNCHANGED <<waiting, lev, k>>
    BY <1>0, <1>1, Types DEF SetLevel
  <2>2. level[t] = lev[t] - 1
    BY <1>0, <1>1 DEF SetLevel, LevelInv
  <2>3. pc'[s] \in Scanning => pc'[s] = pc[s] /\ s # t
    BY <2>1
  <2> QED  BY <1>0, <2>1, <2>2, <2>3, Types DEF ScanInv
<1>2. ASSUME NEW t \in Threads, SetWaiting(t)  PROVE ScanInv(s)'
  <2>1. /\ \A u \in Threads : pc'[u] = IF u = t THEN "while" ELSE pc[u]
        /\ \A l \in Levels : waiting'[l] = IF l = lev[t] THEN t ELSE waiting[l]
        /\ UNCHANGED <<level, lev, k>>
    BY <1>0, <1>2, Types DEF SetWaiting
  <2>2. lev[t] \in Levels
    BY <1>0, <1>2 DEF SetWaiting, LevelInv
  <2>3. SUFFICES ASSUME pc'[s] \in Scanning, waiting'[lev[s]] = s
                 PROVE  ScanInv(s)'
    BY <2>1 DEF ScanInv
  <2>4. s # t /\ pc'[s] = pc[s] /\ lev[s] \in Levels
    BY <1>0, <2>1, <2>3 DEF LevelInv
  <2>5. lev[s] # lev[t] /\ waiting[lev[s]] = s
    BY <2>1, <2>3, <2>4
  <2> QED  BY <1>0, <2>1, <2>4, <2>5, <2>3, Types DEF ScanInv
<1>3. ASSUME NEW t \in Threads, Stay(t)  PROVE ScanInv(s)'
  BY <1>0, <1>3, Types DEF Stay, ScanInv
<1>4. ASSUME NEW t \in Threads, Kicked(t) \/ ScanDone(t)  PROVE ScanInv(s)'
  <2>1. /\ \A u \in Threads : u # t => pc'[u] = pc[u] /\ lev'[u] = lev[u]
        /\ pc'[t] \notin Scanning /\ pc[t] # "waiting"
        /\ UNCHANGED <<level, waiting, k>>
    BY <1>0, <1>4, Types DEF Kicked, ScanDone, NextLevel
  <2> QED  BY <1>0, <2>1, Types DEF ScanInv
<1>5. ASSUME NEW t \in Threads, ScanLevel(t)  PROVE ScanInv(s)'
  <2>1. /\ \A u \in Threads : u # t => pc'[u] = pc[u]
        /\ pc'[t] \in {"while", "scan_waiting"}
        /\ pc'[t] = "scan_waiting" => level[k[t]] < lev[t] \/ k[t] = t
        /\ UNCHANGED <<level, waiting, k, lev>> /\ pc[t] = "scan_level"
    <3>1. level[k[t]] \in Int /\ lev[t] \in Int
      BY <1>0, <1>5, Types, Ranges DEF ScanLevel, LevelInv
    <3> QED  BY <1>0, <1>5, <3>1, Types DEF ScanLevel
  <2>2. CASE s = t
    BY <1>0, <2>1, <2>2, Types DEF ScanInv
  <2>3. CASE s # t
    BY <1>0, <2>1, <2>3, Types DEF ScanInv
  <2> QED  BY <2>2, <2>3
<1>6. ASSUME NEW t \in Threads, ScanKicked(t)  PROVE ScanInv(s)'
  BY <1>0, <1>6, Types DEF ScanKicked, ScanInv
<1>7. ASSUME NEW t \in Threads, ScanOn(t)  PROVE ScanInv(s)'
  <2>1. /\ \A u \in Threads : u # t => pc'[u] = pc[u] /\ k'[u] = k[u]
        /\ pc'[t] = "scan_level" /\ k'[t] = k[t] + 1
        /\ UNCHANGED <<level, waiting, lev>> /\ pc[t] = "scan_waiting"
    BY <1>0, <1>7, Types DEF ScanOn
  <2>2. CASE s = t
    <3>1. \A j \in Threads : j < k[t] + 1 => j < k[t] \/ j = k[t]
      BY <1>0, Types
    <3> QED  BY <1>0, <2>1, <2>2, <3>1 DEF ScanInv
  <2>3. CASE s # t
    BY <1>0, <2>1, <2>3 DEF ScanInv
  <2> QED  BY <2>2, <2>3
<1>8. ASSUME NEW t \in Threads, InsideStep(t)  PROVE ScanInv(s)'
  <2>1. /\ \A u \in Threads : u # t => pc'[u] = pc[u]
        /\ pc'[t] \notin Scanning /\ pc[t] # "waiting"
        /\ UNCHANGED <<level, waiting, k, lev>>
    BY <1>0, <1>8, InsideEffect DEF InCritical
  <2> QED  BY <1>0, <2>1 DEF ScanInv
<1>9. ASSUME NEW t \in Threads, Release(t)  PROVE ScanInv(s)'
  <2>1. /\ \A u \in Threads : u # t => pc'[u] = pc[u] /\ level'[u] = level[u]
        /\ pc'[t] \notin Scanning /\ pc[t] # "waiting" /\ level'[t] = -1
        /\ UNCHANGED <<waiting, k, lev>>
    BY <1>0, <1>9, Types DEF Release
  <2> QED  BY <1>0, <2>1, Types DEF ScanInv
<1>10. CASE UNCHANGED vars
  BY <1>0, <1>10 DEF vars, ScanInv
<1> QED
  BY <1>1, <1>2, <1>3, <1>4, <1>5, <1>6, <1>7, <1>8, <1>9, <1>10 DEF Next, ftn, Acquire, InsideStep

\* A thread whose scan is done is alone on its level, but for threads that have
\* not come to the waiting room.
LEMMA ScanOver ==
  ASSUME Base = 0, IInv, NEW t \in Threads, ScanDone(t), NEW j \in Threads \ {t}
  PROVE  level[j] < lev[t] \/ (lev[j] = lev[t] /\ pc[j] = "waiting")
<1>1. pc[t] = "scan_waiting" /\ waiting[lev[t]] = t /\ k[t] + 1 >= max_num
  BY DEF ScanDone, At
<1>2. j <= k[t]
  BY <1>1, Types, Ranges DEF IInv
<1>3. j < k[t] \/ j = k[t]
  BY <1>2, Types, Ranges DEF IInv
<1> QED  BY <1>1, <1>3 DEF IInv, ScanInv, Scanning

\* The last thread in a waiting room.
LEMMA RoomStep ==
  ASSUME Base = 0, IInv, [Next]_vars, NEW s \in Threads
  PROVE  RoomInv(s)'
<1> USE DEF At, Goto, shared, Scanning, Trying
<1>0. TypeOK /\ RoomInv(s) /\ \A t \in Threads : LevelInv(t)
  BY DEF IInv
<1>1. ASSUME NEW t \in Threads, SetLevel(t)  PROVE RoomInv(s)'
  BY <1>0, <1>1, Types DEF SetLevel, RoomInv
<1>2. ASSUME NEW t \in Threads, SetWaiting(t)  PROVE RoomInv(s)'
  <2>1. /\ \A u \in Threads : pc'[u] = IF u = t THEN "while" ELSE pc[u]
        /\ \A l \in Levels : waiting'[l] = IF l = lev[t] THEN t ELSE waiting[l]
        /\ UNCHANGED <<level, lev, k>> /\ pc[t] = "waiting"
    BY <1>0, <1>2, Types DEF SetWaiting
  <2>2. lev[t] \in Levels
    BY <1>0, <1>2 DEF SetWaiting, LevelInv
  <2>3. CASE lev[s] = lev[t]
    BY <2>1, <2>2, <2>3 DEF RoomInv
  <2>4. CASE lev[s] # lev[t] /\ pc'[s] \in Trying
    <3>1. s # t /\ pc[s] \in Trying /\ lev[s] \in Levels
      BY <1>0, <2>1, <2>4 DEF LevelInv
    <3> QED  BY <1>0, <2>1, <2>4, <3>1 DEF RoomInv
  <2> QED  BY <2>3, <2>4 DEF RoomInv
<1>3. ASSUME NEW t \in Threads, Stay(t) \/ ScanLevel(t) \/ ScanKicked(t) \/ ScanOn(t)
      PROVE  RoomInv(s)'
  <2>1. /\ \A u \in Threads : pc'[u] \in Trying <=> pc[u] \in Trying
        /\ UNCHANGED <<waiting, lev>>
    BY <1>0, <1>3, Types DEF Stay, ScanLevel, ScanKicked, ScanOn
  <2> HIDE DEF Trying
  <2> QED  BY <1>0, <2>1 DEF RoomInv
<1>4. ASSUME NEW t \in Threads, Kicked(t) \/ ScanDone(t)  PROVE RoomInv(s)'
  <2>1. /\ \A u \in Threads : u # t => pc'[u] = pc[u] /\ lev'[u] = lev[u]
        /\ pc'[t] \notin Trying /\ UNCHANGED waiting
    BY <1>0, <1>4, Types DEF Kicked, ScanDone, NextLevel
  <2>2. SUFFICES ASSUME s # t, pc[s] \in Trying, waiting[lev[s]] # s
                 PROVE  RoomInv(s)'
    BY <2>1 DEF RoomInv
  <2>3. PICK v \in Threads : pc[v] \in Trying /\ lev[v] = lev[s] /\ waiting[lev[s]] = v
    BY <1>0, <2>2 DEF RoomInv
  <2>4. v # t
    <3>1. CASE Kicked(t)
      BY <2>3, <3>1 DEF Kicked
    <3>2. CASE ScanDone(t)
      <4>1. level[s] = lev[s] /\ pc[s] # "waiting"
        BY <1>0, <2>2 DEF LevelInv
      <4>2. level[s] < lev[t]
        BY <2>2, <3>2, <4>1, ScanOver
      <4> QED  BY <1>0, <2>3, <4>1, <4>2, Types
    <3> QED  BY <1>4, <3>1, <3>2
  <2> QED  BY <2>1, <2>2, <2>3, <2>4 DEF RoomInv
<1>5. ASSUME NEW t \in Threads, InsideStep(t)  PROVE RoomInv(s)'
  <2>1. /\ \A u \in Threads : u # t => pc'[u] = pc[u]
        /\ pc'[t] \notin Trying /\ pc[t] \notin Trying
        /\ UNCHANGED <<waiting, lev>>
    BY <1>0, <1>5, InsideEffect DEF InCritical
  <2> QED  BY <1>0, <2>1 DEF RoomInv
<1>6. ASSUME NEW t \in Threads, Release(t)  PROVE RoomInv(s)'
  BY <1>0, <1>6, Types DEF Release, RoomInv
<1>7. CASE UNCHANGED vars
  BY <1>0, <1>7 DEF vars, RoomInv
<1> QED
  BY <1>1, <1>2, <1>3, <1>4, <1>5, <1>6, <1>7 DEF Next, ftn, Acquire, InsideStep

\* Somebody stays back.
LEMMA BackStep ==
  ASSUME Base = 0, IInv, [Next]_vars, NEW l \in Levels
  PROVE  BackInv(l)'
<1> USE DEF At, Goto, shared, Scanning, Trying
<1>0. TypeOK /\ BackInv(l) /\ l \in Nat /\ \A t \in Threads : LevelInv(t)
  BY Types DEF IInv
<1>1. ASSUME NEW t \in Threads, SetLevel(t)  PROVE BackInv(l)'
  <2>1. /\ \A u \in Threads : pc'[u] = IF u = t THEN "waiting" ELSE pc[u]
        /\ \A u \in Threads : level'[u] = IF u = t THEN lev[t] ELSE level[u]
        /\ UNCHANGED <<waiting, lev, k>> /\ pc[t] = "level" /\ level[t] = lev[t] - 1
    BY <1>0, <1>1, Types DEF SetLevel, LevelInv
  <2>2. Past(l)' = Past(l)
    BY <2>1 DEF Past
  <2>3. CASE lev[t] = l
    <3>1. StaysBack(t, l)'
      BY <2>1, <2>3 DEF StaysBack
    <3> QED  BY <3>1 DEF BackInv
  <2>4. CASE lev[t] # l
    <3>1. \A u \in Threads : level'[u] >= l => level[u] >= l
      BY <1>0, <2>1, <2>4, Types
    <3>2. \A w \in Threads : StaysBack(w, l) => StaysBack(w, l)'
      BY <2>1 DEF StaysBack
    <3> QED  BY <1>0, <2>2, <3>1, <3>2 DEF BackInv
  <2> QED  BY <2>3, <2>4
<1>2. ASSUME NEW t \in Threads, SetWaiting(t)  PROVE BackInv(l)'
  <2>1. /\ \A u \in Threads : pc'[u] = IF u = t THEN "while" ELSE pc[u]
        /\ \A m \in Levels : waiting'[m] = IF m = lev[t] THEN t ELSE waiting[m]
        /\ UNCHANGED <<level, lev, k>> /\ pc[t] = "waiting" /\ lev[t] \in Levels
    BY <1>0, <1>2, Types DEF SetWaiting, LevelInv
  <2>2. Past(l)' = Past(l)
    BY <2>1 DEF Past
  <2>3. CASE lev[t] = l
    <3>1. StaysBack(t, l)'
      BY <2>1, <2>3 DEF StaysBack
    <3> QED  BY <3>1 DEF BackInv
  <2>4. CASE lev[t] # l
    <3>1. \A w \in Threads : StaysBack(w, l) => StaysBack(w, l)'
      BY <2>1, <2>4 DEF StaysBack
    <3> QED  BY <1>0, <2>1, <2>2, <3>1 DEF BackInv
  <2> QED  BY <2>3, <2>4
<1>3. ASSUME NEW t \in Threads, Stay(t) \/ ScanLevel(t) \/ ScanKicked(t) \/ ScanOn(t)
      PROVE  BackInv(l)'
  <2>1. /\ \A u \in Threads : u # t => pc'[u] = pc[u]
        /\ pc[t] \in Trying /\ pc'[t] \in Trying /\ UNCHANGED <<waiting, lev, level>>
    BY <1>0, <1>3, Types DEF Stay, ScanLevel, ScanKicked, ScanOn
  <2>2. Past(l)' = Past(l)
    BY <2>1 DEF Past
  <2>3. \A w \in Threads : StaysBack(w, l) => StaysBack(w, l)'
    BY <2>1 DEF StaysBack
  <2> QED  BY <1>0, <2>1, <2>2, <2>3 DEF BackInv
<1>4. ASSUME NEW t \in Threads, Kicked(t) \/ ScanDone(t)  PROVE BackInv(l)'
  <2>1. /\ \A u \in Threads : u # t => pc'[u] = pc[u] /\ lev'[u] = lev[u]
        /\ lev'[t] = lev[t] + 1 /\ pc'[t] # "done" /\ pc[t] \in Trying
        /\ UNCHANGED <<waiting, level>>
        /\ lev[t] \in Levels /\ level[t] = lev[t]
    BY <1>0, <1>4, Types DEF Kicked, ScanDone, NextLevel, LevelInv
  <2>2. \A u \in Past(l)' : u \in Past(l) \/ (u = t /\ lev[t] = l)
    BY <1>0, <2>1, Types DEF Past
  <2>3. \A w \in Threads : w # t /\ StaysBack(w, l) => StaysBack(w, l)'
    BY <2>1 DEF StaysBack
  <2>4. CASE Kicked(t)
    <3>1. ~ StaysBack(t, l)
      BY <2>4 DEF Kicked, StaysBack
    <3>2. lev[t] = l => \E w \in Threads : StaysBack(w, l)
      <4>1. waiting[lev[t]] # t /\ RoomInv(t)
        BY <2>4 DEF Kicked, IInv
      <4> QED  BY <2>1, <4>1 DEF RoomInv, StaysBack
    <3> QED  BY <1>0, <2>1, <2>2, <2>3, <3>1, <3>2 DEF BackInv
  <2>5. CASE ScanDone(t)
    <3>1. CASE lev[t] = l
      <4>1. ASSUME NEW u \in Threads, u # t, level[u] >= l  PROVE StaysBack(u, l)
        <5>1. ~ (level[u] < lev[t])
          BY <1>0, <3>1, <4>1, Types
        <5>2. lev[u] = lev[t] /\ pc[u] = "waiting"
          BY <2>5, <4>1, <5>1, ScanOver
        <5> QED  BY <3>1, <5>2 DEF StaysBack
      <4>2. ASSUME NEW u \in Past(l)', NEW v \in Threads, v # u, level[v] >= l
            PROVE  \E w \in Threads : StaysBack(w, l)'
        <5>1. CASE v # t
          BY <2>3, <4>1, <4>2, <5>1
        <5>2. CASE v = t
          <6>1. u \in Past(l) /\ u # t
            BY <2>2, <4>2, <5>2
          <6>2. u \in Threads /\ level[u] >= l
            <7>1. u \in Threads /\ lev[u] > l /\ pc[u] # "done"
              BY <6>1 DEF Past
            <7>2. level[u] >= lev[u] - 1
              BY <1>0, <7>1, Types DEF LevelInv, InCritical, TypeOK, Labels
            <7> QED  BY <1>0, <7>1, <7>2, Types
          <6> QED  BY <2>3, <4>1, <6>1, <6>2
        <5> QED  BY <5>1, <5>2
      <4> QED  BY <2>1, <4>2 DEF BackInv
    <3>2. CASE lev[t] # l
      <4>1. ~ StaysBack(t, l)
        BY <3>2 DEF StaysBack
      <4> QED  BY <1>0, <2>1, <2>2, <2>3, <3>2, <4>1 DEF BackInv
    <3> QED  BY <3>1, <3>2
  <2> QED  BY <1>4, <2>4, <2>5
<1>5. ASSUME NEW t \in Threads, InsideStep(t)  PROVE BackInv(l)'
  <2>1. /\ \A u \in Threads : u # t => pc'[u] = pc[u]
        /\ pc'[t] \notin {"waiting", "done"} \cup Trying /\ pc[t] \notin {"waiting", "done"} \cup Trying
        /\ UNCHANGED <<waiting, lev, level>>
    BY <1>0, <1>5, InsideEffect DEF InCritical
  <2>2. Past(l)' = Past(l)
    BY <2>1 DEF Past
  <2>3. \A w \in Threads : StaysBack(w, l) => StaysBack(w, l)'
    BY <2>1 DEF StaysBack
  <2> QED  BY <1>0, <2>1, <2>2, <2>3 DEF BackInv
<1>6. ASSUME NEW t \in Threads, Release(t)  PROVE BackInv(l)'
  <2>1. /\ \A u \in Threads : u # t => pc'[u] = pc[u] /\ level'[u] = level[u]
        /\ pc'[t] = "done" /\ pc[t] = "release" /\ level'[t] = -1
        /\ UNCHANGED <<waiting, lev>>
    BY <1>0, <1>6, Types DEF Release
  <2>2. \A u \in Past(l)' : u \in Past(l)
    BY <2>1 DEF Past
  <2>3. \A w \in Threads : StaysBack(w, l) => StaysBack(w, l)'
    BY <2>1 DEF StaysBack
  <2>4. \A u \in Threads : level'[u] >= l => level[u] >= l
    BY <1>0, <2>1
  <2> QED  BY <1>0, <2>1, <2>2, <2>3, <2>4 DEF BackInv
<1>7. CASE UNCHANGED vars
  BY <1>0, <1>7 DEF vars, BackInv, Past, StaysBack
<1> QED
  BY <1>1, <1>2, <1>3, <1>4, <1>5, <1>6, <1>7 DEF Next, ftn, Acquire, InsideStep

\* The inductive invariant holds in the initial state.
LEMMA InitIInv == ASSUME Base = 0  PROVE Init => IInv
<1> SUFFICES ASSUME Init  PROVE IInv
  OBVIOUS
<1> USE Ranges DEF Init
<1>1. TypeOK
  <2>1. pc \in [Threads -> Labels]
    BY DEF Labels
  <2>2. /\ level \in [Threads \cup Scanned -> Levels \cup {-1}]
        /\ waiting \in [Levels -> Threads \cup {-1}]
    OBVIOUS
  <2>3. lev \in [Threads -> 0 .. max_num] /\ k \in [Threads -> 0 .. max_num] /\ reg \in [Threads -> Int]
    OBVIOUS
  <2>4. counter \in Int
    OBVIOUS
  <2>5. killed \in BOOLEAN
    BY Zenon
  <2> QED  BY <2>1, <2>2, <2>3, <2>4, <2>5, Zenon DEF TypeOK
<1>2. ASSUME NEW t \in Threads  PROVE LevelInv(t) /\ ScanInv(t) /\ RoomInv(t)
  BY DEF LevelInv, ScanInv, RoomInv, Scanning, Trying, InCritical
<1>3. ASSUME NEW l \in Levels  PROVE BackInv(l)
  BY DEF BackInv, Past
<1> QED  BY <1>1, <1>2, <1>3 DEF IInv

\* The inductive invariant holds throughout.
THEOREM Inductive == ASSUME Base = 0  PROVE Safe => []IInv
<1>1. IInv /\ [Next]_vars => IInv'
  BY TypeStep, LevelStep, ScanStep, RoomStep, BackStep DEF IInv
<1> QED  BY <1>1, InitIInv, PTL DEF Safe

(***************************************************************************)
(* Counting: of the threads that reach a level one stays back.             *)
(***************************************************************************)
\* Of a set with all the threads that got to level l, fewer get past it, unless
\* it is a single one.
LEMMA OneLess ==
  ASSUME Base = 0, IInv, NEW l \in Levels, NEW F, IsFiniteSet(F), Past(l) \subseteq F,
         \A t \in Threads : lev[t] = l /\ pc[t] # "done" => t \in F
  PROVE  Cardinality(Past(l)) <= 1 \/ Cardinality(Past(l)) <= Cardinality(F) - 1
<1>0. TypeOK /\ BackInv(l) /\ l \in Nat /\ IsFiniteSet(Past(l))
  BY Types, FS_Subset DEF IInv
<1>1. CASE \E t, u \in Past(l) : t # u
  <2>1. PICK t \in Past(l), u \in Past(l) : t # u
    BY <1>1
  <2>2. level[u] >= l /\ u \in Threads
    <3>1. u \in Threads /\ lev[u] > l /\ pc[u] # "done" /\ LevelInv(u)
      BY DEF Past, IInv
    <3>2. level[u] >= lev[u] - 1
      BY <1>0, <3>1, Types DEF LevelInv, InCritical, Labels, Trying, Scanning
    <3> QED  BY <1>0, <3>1, <3>2, Types
  <2>3. PICK w \in Threads : StaysBack(w, l)
    BY <1>0, <2>1, <2>2 DEF BackInv
  <2>4. w \in F /\ w \notin Past(l)
    BY <1>0, <2>3, Types DEF StaysBack, Past, Trying, Scanning
  <2>5. Cardinality(F \ {w}) = Cardinality(F) - 1 /\ IsFiniteSet(F \ {w})
    BY <2>4, FS_RemoveElement
  <2>6. Cardinality(Past(l)) <= Cardinality(F \ {w})
    BY <2>4, <2>5, FS_Subset
  <2> QED  BY <2>5, <2>6
<1>2. CASE \A t, u \in Past(l) : t = u
  <2>1. Past(l) = {} \/ \E t : Past(l) = {t}
    BY <1>2
  <2>2. Cardinality(Past(l)) \in {0, 1}
    BY <2>1, FS_EmptySet, FS_Singleton
  <2> QED  BY <2>2
<1> QED  BY <1>1, <1>2

\* Past level l there are at most max_num - 1 - l threads.
LEMMA PastCount ==
  ASSUME Base = 0, IInv
  PROVE  \A l \in Levels : Cardinality(Past(l)) <= max_num - 1 - l
<1> DEFINE Few(l) == Cardinality(Past(l)) <= max_num - 1 - l
           S == {l \in Levels : Few(l)}
           b == max_num - 2
<1>0. /\ TypeOK /\ max_num \in Nat \ {0} /\ Levels = 0 .. b
      /\ lev \in [Threads -> Nat]
  BY Types, Ranges DEF IInv
<1>1. IsFiniteSet(Threads) /\ Cardinality(Threads) = max_num
  BY <1>0, Ranges, FS_Interval
<1>2. ASSUME NEW l \in Levels
      PROVE  Past(l) \subseteq Threads /\ IsFiniteSet(Past(l)) /\ Cardinality(Past(l)) \in Nat
  BY <1>1, FS_Subset, FS_CardinalityType DEF Past
<1>3. CASE Levels = {}
  BY <1>3
<1>4. CASE Levels # {}
  <2>0. b \in Nat /\ 0 \in Levels
    BY <1>0, <1>4
  <2>1. Few(0)
    <3>1. Cardinality(Past(0)) <= 1 \/ Cardinality(Past(0)) <= Cardinality(Threads) - 1
      BY <1>1, <1>2, <2>0, OneLess
    <3> QED  BY <1>0, <1>1, <1>2, <2>0, <3>1
  <2>2. ASSUME NEW l \in 0 .. b - 1, Few(l)  PROVE Few(l + 1)
    <3>1. l \in Levels /\ l + 1 \in Levels
      BY <1>0, <2>0
    <3>2. /\ Past(l + 1) \subseteq Past(l)
          /\ \A t \in Threads : lev[t] = l + 1 /\ pc[t] # "done" => t \in Past(l)
      BY <1>0 DEF Past
    <3>3. Cardinality(Past(l + 1)) <= 1 \/ Cardinality(Past(l + 1)) <= Cardinality(Past(l)) - 1
      BY <1>2, <3>1, <3>2, OneLess
    <3>4. l \in Int /\ l + 1 <= max_num - 2
      BY <1>0
    <3> QED  BY <1>0, <1>2, <2>2, <3>1, <3>3, <3>4
  <2>3. 0 .. b \subseteq S
    <3>1. 0 \in S /\ \A l \in 0 .. b - 1 : l \in S => l + 1 \in S
      BY <1>0, <2>0, <2>1, <2>2
    <3> HIDE DEF S, b
    <3> QED  BY <2>0, <3>1, UpToInduction
  <2> QED  BY <1>0, <2>3
<1> QED  BY <1>3, <1>4

\* Each level keeps one thread back, and shared arrays and locals keep their
\* ranges (alg.15-1-peterson-counter.c:26-43), for any number of threads.
THEOREM LevelsFilter == ASSUME Base = 0  PROVE Spec => []OneStaysBack
<1>1. IInv => OneStaysBack
  BY PastCount DEF IInv, OneStaysBack
<1> QED  BY <1>1, Inductive, PTL DEF Spec

\* In every state of the inductive invariant one thread at most is inside.
LEMMA InvExclusion == ASSUME Base = 0, IInv  PROVE MutualExclusion
<1> SUFFICES ASSUME NEW s \in Threads, NEW t \in Threads, InCritical(s), InCritical(t), s # t
             PROVE  FALSE
  BY DEF MutualExclusion
<1> DEFINE l == max_num - 2
<1>0. TypeOK /\ max_num \in Nat \ {0} /\ Threads = 0 .. max_num - 1 /\ Levels = 0 .. max_num - 2
  BY Ranges DEF IInv
<1>1. l \in Levels
  BY <1>0
<1>2. s \in Past(l) /\ t \in Past(l)
  <2>1. lev[s] = max_num - 1 /\ lev[t] = max_num - 1
    BY DEF IInv, LevelInv
  <2> QED  BY <1>0, <2>1 DEF Past, InCritical
<1>3. Cardinality(Past(l)) <= 1 /\ IsFiniteSet(Past(l))
  <2>1. Past(l) \subseteq Threads /\ IsFiniteSet(Threads)
    BY <1>0, FS_Interval DEF Past
  <2>2. Cardinality(Past(l)) <= max_num - 1 - l
    BY <1>1, PastCount
  <2> QED  BY <1>0, <2>1, <2>2, FS_Subset
<1>4. {s, t} \subseteq Past(l) /\ IsFiniteSet({s, t}) /\ Cardinality({s, t}) = 2
  <2>1. {s, t} = {s} \cup {t} /\ t \notin {s}
    OBVIOUS
  <2>2. IsFiniteSet({s} \cup {t}) /\ Cardinality({s} \cup {t}) = 2
    <3>1. IsFiniteSet({s}) /\ Cardinality({s}) = 1
      BY FS_Singleton
    <3>2. Cardinality({s} \cup {t}) = Cardinality({s}) + 1
      BY <2>1, <3>1, FS_AddElement
    <3> QED  BY <3>1, <3>2, FS_AddElement
  <2> QED  BY <1>2, <2>1, <2>2
<1>5. 2 <= Cardinality(Past(l)) /\ Cardinality(Past(l)) \in Nat
  BY <1>3, <1>4, FS_Subset, FS_CardinalityType
<1> QED  BY <1>3, <1>5

\* Peterson's lock excludes: at most one thread is between the for loop and
\* level[thread_num] = -1 (alg.15-1-peterson-counter.c:26-54).
THEOREM Exclusion == ASSUME Base = 0  PROVE Spec => []MutualExclusion
<1>1. IInv => MutualExclusion
  BY InvExclusion
<1> QED  BY <1>1, Inductive, PTL DEF Spec

(***************************************************************************)
(* The counter, which the code uses to watch over the lock.                *)
(***************************************************************************)
\* counter is the number of threads between counter++ and counter--, and a
\* thread's register is what counter was before its update.
CountInv ==
    /\ \A t \in Threads :
         /\ pc[t] \in {"check", "count_out", "subtract"} => counter = 1
         /\ pc[t] \in {"count_in", "add", "release"} => counter = 0
         /\ pc[t] = "add" => reg[t] = 0
         /\ pc[t] = "subtract" => reg[t] = 1
    /\ (\A t \in Threads : ~ InCritical(t)) => counter = 0
    /\ ~ killed

\* The program never kills itself: no thread finds counter above 1 ("ERROR! more
\* than one processes in their critical sections", peterson-counter.c:46-51).
THEOREM NeverKilled == ASSUME Base = 0  PROVE Spec => []NotKilled
<1>1. Init => CountInv
  BY DEF Init, CountInv, InCritical
<1>2. ASSUME IInv, MutualExclusion, MutualExclusion', CountInv, [Next]_vars  PROVE CountInv'
  <2> USE DEF At, Goto, shared
  <2>0. /\ pc \in [Threads -> Labels] /\ reg \in [Threads -> Int]
        /\ MutualExclusion /\ MutualExclusion'
    BY <1>2 DEF IInv, TypeOK
  <2>1. ASSUME NEW t \in Threads, Acquire(t)  PROVE CountInv'
    <3>1. /\ \A u \in Threads : u # t => pc'[u] = pc[u]
          /\ ~ InCritical(t) /\ UNCHANGED <<counter, reg, killed>>
          /\ InCritical(t)' => pc'[t] = "count_in"
      BY <2>0, <2>1 DEF Acquire, SetLevel, SetWaiting, Stay, Kicked, ScanLevel, ScanKicked,
                        ScanOn, ScanDone, NextLevel, InCritical
    <3>2. CASE InCritical(t)'
      <4>1. \A u \in Threads : ~ InCritical(u)
        BY <2>0, <3>1, <3>2 DEF MutualExclusion, InCritical
      <4> QED  BY <1>2, <3>1, <3>2, <4>1 DEF CountInv, InCritical
    <3>3. CASE ~ InCritical(t)'
      BY <1>2, <3>1, <3>3 DEF CountInv, InCritical
    <3> QED  BY <3>2, <3>3
  <2>2. ASSUME NEW t \in Threads, InsideStep(t) \/ Release(t)  PROVE CountInv'
    <3>1. InCritical(t) /\ \A u \in Threads : u # t => ~ InCritical(u) /\ pc'[u] = pc[u]
      BY <2>0, <2>2 DEF InsideStep, ReadCounter, WriteCounter, CheckCounter, Release,
                        InCritical, MutualExclusion
    <3>2. CASE ReadCounter(t)
      BY <1>2, <2>0, <3>1, <3>2 DEF ReadCounter, CountInv, InCritical
    <3>3. CASE WriteCounter(t)
      BY <1>2, <2>0, <3>1, <3>3 DEF WriteCounter, CountInv, InCritical
    <3>4. CASE CheckCounter(t)
      <4>1. counter = 1
        BY <1>2, <3>4 DEF CheckCounter, CountInv
      <4>2. ~ killed'
        <5>1. ~ (counter > 1)
          BY <4>1
        <5> QED  BY <3>4, <5>1, Zenon DEF CheckCounter
      <4>3. UNCHANGED <<counter, reg>> /\ pc'[t] = "count_out"
        BY <2>0, <3>4 DEF CheckCounter
      <4> QED  BY <1>2, <3>1, <4>1, <4>2, <4>3 DEF CountInv, InCritical
    <3>5. CASE Release(t)
      BY <1>2, <2>0, <3>1, <3>5 DEF Release, CountInv, InCritical
    <3> QED  BY <2>2, <3>2, <3>3, <3>4, <3>5 DEF InsideStep
  <2>3. CASE UNCHANGED vars
    BY <1>2, <2>3 DEF vars, CountInv, InCritical
  <2> QED  BY <1>2, <2>1, <2>2, <2>3 DEF Next, ftn, InsideStep
<1>3. CountInv => NotKilled
  BY DEF CountInv, NotKilled
<1> QED  BY <1>1, <1>2, <1>3, Inductive, Exclusion, PTL DEF Spec, Safe
=============================================================================
