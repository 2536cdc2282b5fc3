----------------------------- MODULE SharedHeap -----------------------------
(***************************************************************************)
(* The processes of Labweek7 that work on one heap in shared memory        *)
(* (ipc-shmcon.c).  MinHeap models the heap itself; here only its size     *)
(* matters.  lock is an ordinary integer: a process waits while it is 1,   *)
(* sets it to 1, works and sets it to 0; at its end a process adds 1, so   *)
(* that lock also counts the processes that have left.                     *)
(*                                                                         *)
(* Nothing makes the reads and writes of the shared struct one step:       *)
(* saw[p] is what process p has read of the integer it is changing, 0 when *)
(* it is changing none.                                                    *)
(***************************************************************************)
EXTENDS Integers, FiniteSets

CONSTANTS Procs,
          Goal,        \* a process ends at this size, 5 in the code
          Removers,    \* the memory is removed at this count, 4 in the code
          MaxOps       \* bound on operation_time

VARIABLES proc, size, lock, operation_time, removed, saw

kvars == <<proc, size, lock, operation_time, removed, saw>>

Init ==
  /\ proc = [p \in Procs |-> "start"]
  /\ size = 0 /\ lock = 0 /\ operation_time = 0
  /\ removed = FALSE
  /\ saw = [p \in Procs |-> 0]

At(pc) == {p \in Procs : proc[p] \in pc}
Move(p, from, to) == proc[p] = from /\ proc' = [proc EXCEPT ![p] = to]
Sees(p, v) == saw' = [saw EXCEPT ![p] = v]

(* The segment is found or made; one that starts after the removal has a   *)
(* segment of its own.                                                     *)
Attach(p) ==
  /\ ~removed
  /\ Move(p, "start", "failed") \/ Move(p, "start", "initial")
  /\ UNCHANGED <<size, lock, operation_time, removed, saw>>

(* Every process initialises the struct, in three separate writes, with    *)
(* whatever the others are doing.                                          *)
initialStaticLinkList(p) ==
  /\ Move(p, "initial", "unlock")
  /\ size' = 0
  /\ UNCHANGED <<lock, operation_time, removed, saw>>

ClearLock(p) ==
  /\ Move(p, "unlock", "clear")
  /\ lock' = 0
  /\ UNCHANGED <<size, operation_time, removed, saw>>

ClearTimes(p) ==
  /\ Move(p, "clear", "test")
  /\ operation_time' = 0
  /\ UNCHANGED <<size, lock, removed, saw>>

TestSize(p) ==
  /\ Move(p, "test", IF size < Goal THEN "wait" ELSE "leave")
  /\ UNCHANGED <<size, lock, operation_time, removed, saw>>

FindFree(p) ==
  /\ lock # 1
  /\ Move(p, "wait", "claim")
  /\ UNCHANGED <<size, lock, operation_time, removed, saw>>

(* A mutant of Claim: the lock is taken by adding to it.                   *)
ClaimAdding(p) ==
  /\ Move(p, "claim", "inside")
  /\ lock' = lock + 1
  /\ UNCHANGED <<size, operation_time, removed, saw>>

Claim(p) ==
  /\ Move(p, "claim", "inside")
  /\ lock' = 1
  /\ UNCHANGED <<size, operation_time, removed, saw>>

(* operation_time++, and the size that operation starts from.              *)
Begin(p) ==
  /\ Move(p, "inside", "counting")
  /\ operation_time < MaxOps
  /\ Sees(p, operation_time)
  /\ UNCHANGED <<size, lock, operation_time, removed>>

Count(p) ==
  /\ Move(p, "counting", "working")
  /\ operation_time' = saw[p] + 1
  /\ Sees(p, size)
  /\ UNCHANGED <<size, lock, removed>>

(* What one call of operation makes of the size: push, pop, find, modify.  *)
operation(n) == {n + 1, IF n = 0 THEN 0 ELSE n - 1, n}

Operate(p) ==
  /\ Move(p, "working", "worked")
  /\ size' \in operation(saw[p])
  /\ Sees(p, 0)
  /\ UNCHANGED <<lock, operation_time, removed>>

Release(p) ==
  /\ Move(p, "worked", "test")
  /\ lock' = 0
  /\ UNCHANGED <<size, operation_time, removed, saw>>

(* lock++, and the later read of lock into numOfProExit.                   *)
Leave(p) ==
  /\ Move(p, "leave", "leaving")
  /\ Sees(p, lock)
  /\ UNCHANGED <<size, lock, operation_time, removed>>

CountLeaver(p) ==
  /\ Move(p, "leaving", "left")
  /\ lock' = saw[p] + 1
  /\ Sees(p, 0)
  /\ UNCHANGED <<size, operation_time, removed>>

ReadCount(p) ==
  /\ Move(p, "left", "detach")
  /\ Sees(p, lock)
  /\ UNCHANGED <<size, lock, operation_time, removed>>

(* shmdt, and at the right count shmctl(IPC_RMID); either may fail.        *)
Detach(p) ==
  /\ Move(p, "detach", "exit")
  /\ removed' \in {removed, removed \/ saw[p] >= Removers}
  /\ Sees(p, 0)
  /\ UNCHANGED <<size, lock, operation_time>>

Next ==
  \E p \in Procs :
    \/ Attach(p) \/ initialStaticLinkList(p) \/ ClearLock(p) \/ ClearTimes(p)
    \/ TestSize(p) \/ FindFree(p) \/ Claim(p)
    \/ Begin(p) \/ Count(p) \/ Operate(p) \/ Release(p)
    \/ Leave(p) \/ CountLeaver(p) \/ ReadCount(p) \/ Detach(p)

Spec == Init /\ [][Next]_kvars

-----------------------------------------------------------------------------
Left == At({"left", "detach", "exit"})

(* lock counts the processes that have left although it is also the lock   *)
(* that the others set and clear, and although a write may be lost: it is  *)
(* at most 1 above their number, so that the memory is never removed       *)
(* before all but one of Removers processes have left.  It may be removed  *)
(* while the last of them is still inside, or never.                       *)
RemovedLate ==
  /\ lock <= Cardinality(Left) + 1
  /\ removed => Cardinality(Left) + 1 >= Removers

(* "lock, which ensures that only one process at a time operates in the    *)
(* shared memory" (ipc-shmcon.h:39, ipc-shmcon.c:136).                     *)
OneInside == Cardinality(At({"inside", "counting", "working", "worked"})) <= 1

(* "After all processes have left, release the shared memory" (166 in      *)
(* ipc-shmcon.c, which takes their number to be Removers).                 *)
RemovedLast == removed => Cardinality(Left) >= Removers
=============================================================================
