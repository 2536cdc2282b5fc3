----------------------------- MODULE FilterLock -----------------------------
(***************************************************************************)
(* Peterson's lock for max_num threads: ftn of Labweek14's                 *)
(* alg.15-1-peterson-counter.c (Base = 0: thread i is number i), and the   *)
(* same lock as shmwrite.c and shmread.c use it (Base = 1: their main      *)
(* numbers the threads from 1, the scan of level still runs from 0 to      *)
(* max_num - 1).                                                           *)
(*                                                                         *)
(* Every read and write of level, waiting and counter is a step.  Steps    *)
(* are sequentially consistent.                                            *)
(***************************************************************************)
EXTENDS Integers, FiniteSets

CONSTANTS max_num, Base

ASSUME ThreadCount == max_num \in Nat \ {0} /\ Base \in {0, 1}

Threads == Base .. max_num - 1 + Base  \* thread_num[i] = i + Base
Scanned == 0 .. max_num - 1            \* values of k in the scan
Levels == 0 .. max_num - 2             \* waiting rooms

VARIABLES level, waiting, counter,  \* the shared arrays and the counter
          pc,      \* where each thread is
          lev, k,  \* ftn's locals
          reg,     \* a thread's register while it updates counter
          killed   \* the process sent itself SIGKILL

shared == <<level, waiting, counter>>
vars == <<shared, pc, lev, k, reg, killed>>

Init == /\ level = [t \in Threads \cup Scanned |-> -1]
        /\ waiting = [l \in Levels |-> -1]
        /\ counter = 0
        /\ pc = [t \in Threads |-> IF max_num > 1 THEN "level" ELSE "count_in"]
        /\ lev = [t \in Threads |-> 0]
        /\ k = [t \in Threads |-> 0]
        /\ reg = [t \in Threads |-> 0]
        /\ killed = FALSE

At(t, l) == ~ killed /\ pc[t] = l
Goto(t, l) == pc' = [pc EXCEPT ![t] = l]

(***************************************************************************)
(* Entry: climb the levels.                                                *)
(***************************************************************************)
SetLevel(t) == /\ At(t, "level")
               /\ level' = [level EXCEPT ![t] = lev[t]]
               /\ Goto(t, "waiting")
               /\ UNCHANGED <<waiting, counter, lev, k, reg, killed>>

SetWaiting(t) == /\ At(t, "waiting")
                 /\ waiting' = [waiting EXCEPT ![lev[t]] = t]
                 /\ Goto(t, "while")
                 /\ UNCHANGED <<level, counter, lev, k, reg, killed>>

\* ++lev, and the test of the for loop
NextLevel(t) == /\ lev' = [lev EXCEPT ![t] = @ + 1]
                /\ Goto(t, IF lev[t] + 1 < max_num - 1 THEN "level" ELSE "count_in")

\* while (waiting[lev] == thread_num): kicked out of the room, or scan again
Stay(t) == /\ At(t, "while")
           /\ waiting[lev[t]] = t
           /\ k' = [k EXCEPT ![t] = 0]
           /\ Goto(t, "scan_level")
           /\ UNCHANGED <<shared, lev, reg, killed>>

Kicked(t) == /\ At(t, "while")
             /\ waiting[lev[t]] # t
             /\ NextLevel(t)
             /\ UNCHANGED <<shared, k, reg, killed>>

\* Mutant: only a thread on a strictly higher level blocks.
ScanLevelStrict(t) ==
    /\ At(t, "scan_level")
    /\ Goto(t, IF level[k[t]] > lev[t] /\ k[t] # t THEN "while" ELSE "scan_waiting")
    /\ UNCHANGED <<shared, lev, k, reg, killed>>

\* if (level[k] >= lev && k != thread_num) break
ScanLevel(t) ==
    /\ At(t, "scan_level")
    /\ Goto(t, IF level[k[t]] >= lev[t] /\ k[t] # t THEN "while" ELSE "scan_waiting")
    /\ UNCHANGED <<shared, lev, k, reg, killed>>

\* if (waiting[lev] != thread_num) break
ScanKicked(t) == /\ At(t, "scan_waiting")
                 /\ waiting[lev[t]] # t
                 /\ Goto(t, "while")
                 /\ UNCHANGED <<shared, lev, k, reg, killed>>

ScanOn(t) == /\ At(t, "scan_waiting")
             /\ waiting[lev[t]] = t
             /\ k[t] + 1 < max_num
             /\ k' = [k EXCEPT ![t] = @ + 1]
             /\ Goto(t, "scan_level")
             /\ UNCHANGED <<shared, lev, reg, killed>>

\* Mutant: the scan stops one thread short.
ScanDoneShort(t) == /\ At(t, "scan_waiting")
                    /\ waiting[lev[t]] = t
                    /\ k[t] + 2 >= max_num
                    /\ NextLevel(t)
                    /\ UNCHANGED <<shared, k, reg, killed>>

\* k == max_num: every other thread was seen below this level
ScanDone(t) == /\ At(t, "scan_waiting")
               /\ waiting[lev[t]] = t
               /\ k[t] + 1 >= max_num
               /\ NextLevel(t)
               /\ UNCHANGED <<shared, k, reg, killed>>

Acquire(t) == \/ SetLevel(t) \/ SetWaiting(t) \/ Stay(t) \/ Kicked(t)
              \/ ScanLevel(t) \/ ScanKicked(t) \/ ScanOn(t) \/ ScanDone(t)

(***************************************************************************)
(* The critical section and the exit.                                      *)
(***************************************************************************)
\* counter++ and counter--, each a read and a write
ReadCounter(t) == /\ At(t, "count_in") \/ At(t, "count_out")
                  /\ reg' = [reg EXCEPT ![t] = counter]
                  /\ Goto(t, IF pc[t] = "count_in" THEN "add" ELSE "subtract")
                  /\ UNCHANGED <<shared, lev, k, killed>>

WriteCounter(t) == /\ At(t, "add") \/ At(t, "subtract")
                   /\ counter' = IF pc[t] = "add" THEN reg[t] + 1 ELSE reg[t] - 1
                   /\ Goto(t, IF pc[t] = "add" THEN "check" ELSE "release")
                   /\ UNCHANGED <<level, waiting, lev, k, reg, killed>>

\* if (counter > 1) kill(getpid(), SIGKILL)
CheckCounter(t) == /\ At(t, "check")
                   /\ killed' = (counter > 1)
                   /\ Goto(t, "count_out")
                   /\ UNCHANGED <<shared, lev, k, reg>>

\* Mutant: the thread leaves its level standing.
ReleaseForgotten(t) == /\ At(t, "release")
                       /\ Goto(t, "done")
                       /\ UNCHANGED <<shared, lev, k, reg, killed>>

Release(t) == /\ At(t, "release")
              /\ level' = [level EXCEPT ![t] = -1]
              /\ Goto(t, "done")
              /\ UNCHANGED <<waiting, counter, lev, k, reg, killed>>

ftn(t) == \/ Acquire(t)
          \/ ReadCounter(t) \/ WriteCounter(t) \/ CheckCounter(t) \/ Release(t)

Next == \E t \in Threads : ftn(t)

\* The kernel keeps scheduling every thread that has not ended.
Fairness == \A t \in Threads : WF_vars(ftn(t))

Safe == Init /\ [][Next]_vars
Spec == Safe /\ Fairness

-----------------------------------------------------------------------------
(***************************************************************************)
(* Properties                                                              *)
(***************************************************************************)
Labels == {"level", "waiting", "while", "scan_level", "scan_waiting", "count_in",
           "add", "check", "count_out", "subtract", "release", "done"}

\* The shared arrays, the counter and the locals keep their ranges.
TypeOK == /\ level \in [Threads \cup Scanned -> Levels \cup {-1}]
          /\ waiting \in [Levels -> Threads \cup {-1}]
          /\ counter \in Int
          /\ pc \in [Threads -> Labels]
          /\ lev \in [Threads -> 0 .. max_num]
          /\ k \in [Threads -> 0 .. max_num]
          /\ reg \in [Threads -> Int]
          /\ killed \in BOOLEAN

InCritical(t) == pc[t] \in {"count_in", "add", "check", "count_out", "subtract", "release"}

\* At most one thread is in the critical section, although a thread reads the
\* other threads' levels one by one while they climb.
MutualExclusion == \A s, t \in Threads : InCritical(s) /\ InCritical(t) => s = t

\* Threads that got past level l and have not left.
Past(l) == {t \in Threads : lev[t] > l /\ pc[t] # "done"}

\* Each level keeps one thread back: past level l there are at most
\* max_num - 1 - l threads ("there are at least max_num-1 waiting rooms",
\* peterson-counter.c:26), and no thread climbs above the last level.
OneStaysBack == /\ TypeOK
                /\ \A l \in Levels : Cardinality(Past(l)) <= max_num - 1 - l

\* The code's own assertion: no thread finds the counter above 1
\* ("ERROR! more than one processes in their critical sections").
NotKilled == ~ killed

\* No thread starves: each one gets to its critical section and leaves it.
EveryThreadLeaves == \A t \in Threads : <>(pc[t] = "done")
=============================================================================
