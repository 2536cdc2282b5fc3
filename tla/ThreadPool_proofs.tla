-------------------------- MODULE ThreadPool_proofs --------------------------
(***************************************************************************)
(* Proofs about the thread pool with its semaphore, for any number of      *)
(* workers and tasks and any size of the queue.                            *)
(***************************************************************************)
EXTENDS ThreadPool, ProofLemmas

Removed == Len(taken)  \* tasks the workers have taken out of the queue
Added == next - 1      \* tasks main has put into it

(***************************************************************************)
(* The inductive invariant.                                                *)
(***************************************************************************)
\* A worker is between sem_wait and sem_post.
Inside(w) == pc[w] \notin {"lock", "run", "exit"}

\* At most one worker is, and then the semaphore is down.
LockInv == \A v, w \in Workers :
              /\ Inside(v) => sem_mutex = 0
              /\ Inside(v) /\ Inside(w) => v = w

\* front and rear follow the numbers of tasks removed and added, task j is in
\* slot j - 1 modulo the size from the moment it is added until it is removed,
\* and the tasks are removed in order.
RingInv == /\ Removed <= Added /\ Added - Removed < TASK_QUEUE_MAX_SIZE
           /\ front = Removed % TASK_QUEUE_MAX_SIZE
           /\ rear = Added % TASK_QUEUE_MAX_SIZE
           /\ \A j \in Removed + 1 .. Added : tasks[(j - 1) % TASK_QUEUE_MAX_SIZE] = j
           /\ \A j \in 1 .. Removed : taken[j] = j

\* main stores a task only while there is room, and joins after the last one.
MainInv == /\ main \in {"store", "advance"} => Added - Removed < TASK_QUEUE_MAX_SIZE - 1
           /\ main = "advance" => tasks[rear] = next
           /\ IF main \in {"join", "done"} THEN next = TASK_NUM + 1 ELSE next <= TASK_NUM
           /\ main = "done" => \A w \in Workers : pc[w] = "exit"

\* A worker that takes a task finds one, and its copies of taskSum, front and
\* the task are what they were when it read them; it exits when no task is left.
TakeInv(w) ==
    /\ pc[w] \in {"read_sum", "write_sum", "read_front", "copy", "advance"} => Removed < Added
    /\ pc[w] = "write_sum" => sum[w] = taskSum
    /\ pc[w] \in {"copy", "advance"} => lfront[w] = front
    /\ pc[w] = "advance" => task[w] = Removed + 1
    /\ pc[w] = "exit" => Removed = TASK_NUM

\* Some worker has counted down taskSum for a task it has not removed yet.
Announced == \E w \in Workers : pc[w] \in {"read_front", "copy", "advance"}

\* taskSum is the number of tasks to remove, one less while one is announced.
SumInv == taskSum = TASK_NUM - Removed - IF Announced THEN 1 ELSE 0

\* A worker has removed its task and has not run it yet.
Owes(w) == pc[w] \in {"unlock", "run"}

\* No two workers owe the same task, and the tasks that were removed and are
\* not owed have been run once, the others never.
RunInv == /\ \A w \in Workers : Owes(w) => task[w] \in 1 .. Removed
          /\ \A v, w \in Workers : Owes(v) /\ Owes(w) /\ task[v] = task[w] => v = w
          /\ \A t \in Tasks :
               runs[t] = IF t <= Removed /\ ~ \E w \in Workers : Owes(w) /\ task[w] = t
                         THEN 1 ELSE 0

IInv == /\ TypeOK /\ LockInv /\ RingInv /\ MainInv /\ SumInv /\ RunInv
        /\ \A w \in Workers : TakeInv(w)

\* The numbers that the steps compare are natural numbers.
LEMMA Numbers ==
  ASSUME IInv
  PROVE  /\ Removed \in Nat /\ Added \in Nat /\ Removed <= Added /\ Added <= TASK_NUM
         /\ next \in Nat /\ taskSum \in Nat /\ TASK_NUM \in Nat
         /\ TASK_QUEUE_MAX_SIZE \in Nat \ {0}
<1>1. next \in 1 .. TASK_NUM + 1 /\ taken \in Seq(Tasks \cup {NoTask}) /\ taskSum \in 0 .. TASK_NUM
  BY DEF IInv, TypeOK
<1>2. Removed \in Nat
  BY <1>1 DEF Removed
<1> QED  BY <1>1, <1>2, PoolSizes DEF IInv, RingInv, Added

\* Who is inside is the only one: nobody else has announced a task.
LEMMA OnlyOne ==
  ASSUME IInv, NEW w \in Workers, Inside(w)
  PROVE  /\ sem_mutex = 0
         /\ \A v \in Workers : Inside(v) => v = w
         /\ Announced <=> pc[w] \in {"read_front", "copy", "advance"}
BY DEF IInv, LockInv, Inside, Announced

(***************************************************************************)
(* Arithmetic of the queue's indexes.                                      *)
(***************************************************************************)
\* The distance from the n-th to the a-th position, less than once around.
LEMMA Distance ==
  ASSUME NEW B \in Nat \ {0}, NEW n \in Nat, NEW a \in Nat, n <= a, a - n < B
  PROVE  ((a % B) + B - (n % B)) % B = a - n
<1> DEFINE q == a \div B
           r == a % B
           s == n \div B
           u == n % B
           d == r + B - u
<1>1. /\ q \in Int /\ r \in 0 .. B - 1 /\ a = B * q + r
      /\ s \in Int /\ u \in 0 .. B - 1 /\ n = B * s + u
  OBVIOUS
<1>2. d = B * (1 + s - q) + (a - n) /\ d \in Nat /\ 1 + s - q \in Int /\ a - n \in 0 .. B - 1
  <2>1. B * (1 + s - q) = B + B * s - B * q
    BY <1>1
  <2> QED  BY <1>1, <2>1
<1>3. d % B = a - n
  <2> HIDE DEF d, q, s
  <2> QED  BY <1>2, ModUnique
<1> QED  BY <1>3

\* A queue with only one slot free is found full.
LEMMA OneSlotLeft ==
  ASSUME NEW B \in Nat \ {0}, NEW n \in Nat, NEW a \in Nat, a - n = B - 1
  PROVE  ((a % B) + B + 1 - (n % B)) % B = 0
<1> DEFINE q == a \div B
           r == a % B
           s == n \div B
           u == n % B
           d == r + B + 1 - u
<1>1. /\ q \in Int /\ r \in 0 .. B - 1 /\ a = B * q + r
      /\ s \in Int /\ u \in 0 .. B - 1 /\ n = B * s + u
  OBVIOUS
<1>2. d = B * (2 + s - q) + 0 /\ d \in Nat /\ 2 + s - q \in Int /\ 0 \in 0 .. B - 1
  <2>1. B * (2 + s - q) = B + B + B * s - B * q
    BY <1>1
  <2> QED  BY <1>1, <2>1
<1>3. d % B = 0
  <2> HIDE DEF d, q, s
  <2> QED  BY <1>2, ModUnique
<1> QED  BY <1>3

(***************************************************************************)
(* Every step keeps each part of the invariant.                            *)
(***************************************************************************)
\* The semaphore.
LEMMA LockStep == ASSUME UseMutex, IInv, [Next]_vars  PROVE LockInv'
<1> USE DEF Inside, Step
<1>0. pc \in [Workers -> Labels] /\ sem_mutex \in {0, 1} /\ LockInv
  BY DEF IInv, TypeOK
<1>1. CASE Main
  BY <1>0, <1>1 DEF Main, WaitNotFull, StoreTask, AdvanceRear, Join, LockInv
<1>2. CASE UNCHANGED vars
  BY <1>0, <1>2 DEF vars, LockInv
<1>3. ASSUME NEW w \in Workers, SemWait(w)  PROVE LockInv'
  BY <1>0, <1>3 DEF SemWait, LockInv
<1>4. ASSUME NEW w \in Workers, Exit(w)  PROVE LockInv'
  BY <1>0, <1>4 DEF Exit, LockInv
<1>5. ASSUME NEW w \in Workers, SemPost(w)  PROVE LockInv'
  BY <1>0, <1>5 DEF SemPost, LockInv
<1>6. ASSUME NEW w \in Workers,
             TestQueue(w) \/ Sleep(w) \/ ReadSum(w) \/ WriteSum(w) \/ ReadFront(w)
               \/ CopyTask(w) \/ AdvanceFront(w) \/ taskFunction(w)
      PROVE  LockInv'
  <2>1. sem_mutex' = sem_mutex
    BY <1>6 DEF TestQueue, Sleep, ReadSum, WriteSum, ReadFront, CopyTask, AdvanceFront, taskFunction
  <2>2. \A v \in Workers : Inside(v)' => Inside(v)
    BY <1>0, <1>6
       DEF TestQueue, Sleep, ReadSum, WriteSum, ReadFront, CopyTask, AdvanceFront, taskFunction
  <2> QED  BY <1>0, <2>1, <2>2 DEF LockInv
<1> QED  BY <1>1, <1>2, <1>3, <1>4, <1>5, <1>6 DEF Next, executeTask

\* A worker counts down taskSum only when there is a task to remove.
LEMMA SumPositive ==
  ASSUME IInv, NEW w \in Workers, pc[w] = "write_sum"
  PROVE  sum[w] = taskSum /\ taskSum = TASK_NUM - Removed /\ taskSum - 1 \in 0 .. TASK_NUM
<1>1. Removed < Added /\ sum[w] = taskSum
  BY DEF IInv, TakeInv
<1>2. ~ Announced
  BY OnlyOne DEF Inside
<1> QED  BY <1>1, <1>2, Numbers DEF IInv, SumInv

\* Types and ranges.
LEMMA TypeStep == ASSUME UseMutex, IInv, [Next]_vars  PROVE TypeOK'
<1> USE PoolSizes DEF Step, queue, locals, Labels
<1>0. TypeOK
  BY DEF IInv
<1>1. CASE WaitNotFull
  BY <1>0, <1>1 DEF WaitNotFull, TypeOK
<1>2. CASE StoreTask
  <2>1. next \in Tasks
    BY <1>2, Numbers DEF StoreTask, IInv, MainInv, TypeOK, Tasks
  <2> QED  BY <1>0, <1>2, <2>1 DEF StoreTask, TypeOK
<1>3. CASE AdvanceRear
  <2>1. next <= TASK_NUM
    BY <1>3 DEF AdvanceRear, IInv, MainInv
  <2>2. Succ(rear) \in Slots
    <3>1. rear + 1 \in Nat
      BY <1>0 DEF TypeOK, Slots
    <3> QED  BY <3>1, ModRange DEF Succ, Slots
  <2> QED  BY <1>0, <1>3, <2>1, <2>2 DEF AdvanceRear, TypeOK
<1>4. CASE Join
  BY <1>0, <1>4 DEF Join, TypeOK
<1>5. CASE UNCHANGED vars
  BY <1>0, <1>5 DEF vars, TypeOK
<1>6. ASSUME NEW w \in Workers, SemWait(w)  PROVE TypeOK'
  BY <1>0, <1>6 DEF SemWait, TypeOK
<1>7. ASSUME NEW w \in Workers, TestQueue(w) \/ Sleep(w)  PROVE TypeOK'
  BY <1>0, <1>7 DEF TestQueue, Sleep, TypeOK
<1>8. ASSUME NEW w \in Workers, Exit(w) \/ SemPost(w)  PROVE TypeOK'
  <2>1. sem_mutex = 0
    BY <1>8, OnlyOne DEF Exit, SemPost, Inside
  <2>2. sem_mutex' = 1
    BY <1>8, <2>1 DEF Exit, SemPost
  <2>3. CASE Exit(w)
    BY <1>0, <2>2, <2>3 DEF Exit, TypeOK
  <2>4. CASE SemPost(w)
    BY <1>0, <2>2, <2>4 DEF SemPost, TypeOK
  <2> QED  BY <1>8, <2>3, <2>4
<1>9. ASSUME NEW w \in Workers, ReadSum(w)  PROVE TypeOK'
  BY <1>0, <1>9 DEF ReadSum, TypeOK
<1>10. ASSUME NEW w \in Workers, WriteSum(w)  PROVE TypeOK'
  BY <1>0, <1>10, SumPositive DEF WriteSum, TypeOK
<1>11. ASSUME NEW w \in Workers, ReadFront(w)  PROVE TypeOK'
  BY <1>0, <1>11 DEF ReadFront, TypeOK
<1>12. ASSUME NEW w \in Workers, CopyTask(w)  PROVE TypeOK'
  BY <1>0, <1>12 DEF CopyTask, TypeOK
<1>13. ASSUME NEW w \in Workers, AdvanceFront(w)  PROVE TypeOK'
  <2>1. Succ(lfront[w]) \in Slots
    <3>1. lfront[w] + 1 \in Nat
      BY <1>0 DEF TypeOK, Slots
    <3> QED  BY <3>1, ModRange DEF Succ, Slots
  <2>2. Append(taken, task[w]) \in Seq(Tasks \cup {NoTask})
    BY <1>0 DEF TypeOK
  <2> QED  BY <1>0, <1>13, <2>1, <2>2 DEF AdvanceFront, TypeOK
<1>14. ASSUME NEW w \in Workers, taskFunction(w)  PROVE TypeOK'
  <2>1. runs' \in [Tasks -> Nat]
    BY <1>0, <1>14 DEF taskFunction, TypeOK
  <2> QED  BY <1>0, <1>14, <2>1 DEF taskFunction, TypeOK
<1> QED
  BY <1>1, <1>2, <1>3, <1>4, <1>5, <1>6, <1>7, <1>8, <1>9, <1>10, <1>11, <1>12, <1>13, <1>14
     DEF Next, Main, executeTask

\* Storing a task in the free slot leaves the tasks in the queue alone.
LEMMA StoreKeeps ==
  ASSUME IInv, StoreTask
  PROVE  RingInv' /\ MainInv'
<1> USE PoolSizes
<1>0. RingInv /\ MainInv /\ tasks \in [Slots -> Tasks \cup {NoTask}]
  BY DEF IInv, TypeOK
<1>1. Added - Removed < TASK_QUEUE_MAX_SIZE - 1 /\ rear = Added % TASK_QUEUE_MAX_SIZE
  BY <1>0 DEF StoreTask, MainInv, RingInv
<1>2. UNCHANGED <<Removed, Added, front, rear, taken, pc, next>> /\ main' = "advance"
  BY DEF StoreTask, Removed, Added
<1>3. rear \in Slots
  BY DEF IInv, TypeOK
<1>4. ASSUME NEW j \in Removed + 1 .. Added
      PROVE  tasks'[(j - 1) % TASK_QUEUE_MAX_SIZE] = j
  <2> DEFINE i == j - 1
  <2>1. i \in Nat /\ i < Added /\ Added - i < TASK_QUEUE_MAX_SIZE
    BY <1>1, Numbers
  <2>2. i % TASK_QUEUE_MAX_SIZE # Added % TASK_QUEUE_MAX_SIZE
    <3> HIDE DEF i
    <3> QED  BY <2>1, Numbers, ModDistinct
  <2>3. tasks[i % TASK_QUEUE_MAX_SIZE] = j /\ i % TASK_QUEUE_MAX_SIZE \in Slots
    BY <1>0, <2>1, ModRange DEF RingInv, Slots
  <2> HIDE DEF i
  <2>4. tasks'[i % TASK_QUEUE_MAX_SIZE] = j
    BY <1>0, <1>1, <2>2, <2>3 DEF StoreTask
  <2> QED  BY <2>4 DEF i
<1>5. tasks'[rear] = next
  BY <1>0, <1>3 DEF StoreTask
<1> QED  BY <1>0, <1>1, <1>2, <1>4, <1>5 DEF RingInv, MainInv, StoreTask

\* Advancing rear adds the stored task to the queue.
LEMMA AddKeeps ==
  ASSUME IInv, AdvanceRear
  PROVE  RingInv' /\ MainInv'
<1> USE PoolSizes
<1>0. RingInv /\ MainInv
  BY DEF IInv
<1>1. /\ Added - Removed < TASK_QUEUE_MAX_SIZE - 1 /\ rear = Added % TASK_QUEUE_MAX_SIZE
      /\ tasks[rear] = next /\ next <= TASK_NUM
  BY <1>0 DEF AdvanceRear, MainInv, RingInv
<1>2. UNCHANGED <<Removed, front, tasks, taken, pc>> /\ next' = next + 1
  BY DEF AdvanceRear, Removed
<1>3. Added' = Added + 1 /\ next = Added + 1
  BY <1>2, Numbers DEF Added
<1>4. rear' = Added' % TASK_QUEUE_MAX_SIZE
  BY <1>1, <1>3, Numbers, ModPlus DEF AdvanceRear, Succ
<1>5. ASSUME NEW j \in Removed + 1 .. Added + 1
      PROVE  tasks[(j - 1) % TASK_QUEUE_MAX_SIZE] = j
  <2>1. CASE j = Added + 1
    <3>1. j - 1 = Added
      BY <2>1, Numbers
    <3> QED  BY <1>1, <1>3, <2>1, <3>1
  <2>2. CASE j # Added + 1
    <3>1. j \in Removed + 1 .. Added
      BY <2>2, Numbers
    <3> QED  BY <1>0, <3>1 DEF RingInv
  <2> QED  BY <2>1, <2>2
<1>6. RingInv'
  <2>1. Removed' <= Added' /\ Added' - Removed' < TASK_QUEUE_MAX_SIZE
    BY <1>1, <1>2, <1>3, Numbers
  <2> QED  BY <1>0, <1>2, <1>3, <1>4, <1>5, <2>1 DEF RingInv
<1>7. MainInv'
  <2>1. main' = IF next < TASK_NUM THEN "full" ELSE "join"
    BY DEF AdvanceRear
  <2> QED  BY <1>1, <1>2, <2>1, Numbers DEF MainInv
<1> QED  BY <1>6, <1>7

\* Removing a task takes the oldest one.
LEMMA RemoveKeeps ==
  ASSUME IInv, NEW w \in Workers, AdvanceFront(w)
  PROVE  /\ Removed' = Removed + 1 /\ taken' = Append(taken, Removed + 1)
         /\ RingInv' /\ MainInv'
<1> USE PoolSizes
<1>0. RingInv /\ MainInv /\ taken \in Seq(Tasks \cup {NoTask})
  BY DEF IInv, TypeOK
<1>1. Removed < Added /\ lfront[w] = front /\ task[w] = Removed + 1
  BY DEF IInv, TakeInv, AdvanceFront, Step
<1>2. UNCHANGED <<Added, rear, tasks, next, main>>
  BY DEF AdvanceFront, Added
<1>3. taken' = Append(taken, Removed + 1) /\ Removed' = Removed + 1
  BY <1>0, <1>1 DEF AdvanceFront, Removed
<1>4. front' = Removed' % TASK_QUEUE_MAX_SIZE
  <2>1. front' = ((Removed % TASK_QUEUE_MAX_SIZE) + 1) % TASK_QUEUE_MAX_SIZE
    BY <1>0, <1>1 DEF AdvanceFront, Succ, RingInv
  <2> QED  BY <1>3, <2>1, Numbers, ModPlus
<1>5. \A j \in 1 .. Removed' : taken'[j] = j
  BY <1>0, <1>3, Numbers DEF RingInv, Removed
<1>6. RingInv'
  <2>1. Removed' <= Added' /\ Added' - Removed' < TASK_QUEUE_MAX_SIZE
    BY <1>0, <1>1, <1>2, <1>3, Numbers DEF RingInv
  <2>2. \A j \in Removed' + 1 .. Added' : tasks'[(j - 1) % TASK_QUEUE_MAX_SIZE] = j
    BY <1>0, <1>2, <1>3, Numbers DEF RingInv
  <2> QED  BY <1>0, <1>2, <1>4, <1>5, <2>1, <2>2 DEF RingInv
<1>7. MainInv'
  <2>1. main # "done"
    BY <1>0 DEF MainInv, AdvanceFront, Step
  <2> QED  BY <1>0, <1>2, <1>3, <2>1, Numbers DEF MainInv
<1> QED  BY <1>3, <1>6, <1>7

\* The other steps leave the queue alone.
Calm == UNCHANGED <<queue, next, taken>>

LEMMA StepKinds ==
  ASSUME [Next]_vars
  PROVE  \/ StoreTask \/ AdvanceRear
         \/ \E w \in Workers : AdvanceFront(w)
         \/ Calm
BY DEF Calm, Next, Main, executeTask, vars, WaitNotFull, Join, SemWait, TestQueue, Exit, Sleep,
       ReadSum, WriteSum, ReadFront, CopyTask, SemPost, taskFunction

\* The queue and main.
LEMMA RingStep == ASSUME IInv, [Next]_vars  PROVE RingInv' /\ MainInv'
<1> USE PoolSizes
<1>0. RingInv /\ MainInv /\ pc \in [Workers -> Labels]
  BY DEF IInv, TypeOK
<1>1. ASSUME Calm  PROVE RingInv' /\ MainInv'
  <2>1. UNCHANGED <<Removed, Added>>
    BY <1>1 DEF Calm, Removed, Added
  <2>2. RingInv'
    BY <1>0, <1>1, <2>1 DEF Calm, queue, RingInv
  <2>3. CASE WaitNotFull
    <3>1. ~ Full => Added - Removed < TASK_QUEUE_MAX_SIZE - 1
      <4> SUFFICES ASSUME Added - Removed >= TASK_QUEUE_MAX_SIZE - 1  PROVE Full
        BY Numbers
      <4>1. Added - Removed = TASK_QUEUE_MAX_SIZE - 1
        BY <1>0, Numbers DEF RingInv
      <4> QED  BY <1>0, <4>1, Numbers, OneSlotLeft DEF RingInv, Full
    <3>2. next <= TASK_NUM /\ next' = next
      BY <1>0, <2>3 DEF WaitNotFull, MainInv
    <3> QED  BY <1>0, <2>1, <2>2, <2>3, <3>1, <3>2 DEF WaitNotFull, MainInv
  <2>4. CASE Join
    BY <1>0, <2>1, <2>2, <2>4 DEF Join, MainInv
  <2>5. ASSUME main' = main, \A w \in Workers : pc[w] = "exit" => pc'[w] = "exit"
        PROVE  RingInv' /\ MainInv'
    BY <1>0, <1>1, <2>1, <2>2, <2>5 DEF Calm, queue, MainInv
  <2>6. ASSUME NEW w \in Workers, executeTask(w)
        PROVE  main' = main /\ \A v \in Workers : pc[v] = "exit" => pc'[v] = "exit"
    BY <1>0, <2>6
       DEF executeTask, Step, SemWait, TestQueue, Exit, Sleep, ReadSum, WriteSum, ReadFront,
           CopyTask, AdvanceFront, SemPost, taskFunction
  <2> QED  BY <2>3, <2>4, <2>5, <2>6, StoreKeeps, AddKeeps DEF Next, Main, vars
<1> QED  BY <1>1, StepKinds, StoreKeeps, AddKeeps, RemoveKeeps

\* The workers' copies.
LEMMA TakeStep ==
  ASSUME UseMutex, IInv, [Next]_vars, NEW v \in Workers
  PROVE  TakeInv(v)'
<1> USE PoolSizes DEF Step
<1>0. /\ TakeInv(v) /\ pc \in [Workers -> Labels] /\ sum \in [Workers -> 0 .. TASK_NUM]
      /\ lfront \in [Workers -> Slots] /\ task \in [Workers -> Tasks \cup {NoTask}]
  BY DEF IInv, TypeOK
<1>1. CASE StoreTask \/ WaitNotFull \/ Join
  BY <1>0, <1>1 DEF StoreTask, WaitNotFull, Join, TakeInv, Removed, Added, queue, locals
<1>2. CASE AdvanceRear
  <2>1. Added' = Added + 1 /\ Removed' = Removed
    BY <1>2, Numbers DEF AdvanceRear, Added, Removed
  <2>2. Removed < Added => Removed' < Added'
    BY <2>1, Numbers
  <2> QED  BY <1>0, <1>2, <2>1, <2>2 DEF AdvanceRear, TakeInv, locals
<1>3. CASE UNCHANGED vars
  BY <1>0, <1>3 DEF vars, queue, locals, TakeInv, Removed, Added
<1>4. ASSUME NEW w \in Workers, SemWait(w) \/ SemPost(w) \/ Sleep(w) \/ taskFunction(w)
      PROVE  TakeInv(v)'
  BY <1>0, <1>4 DEF SemWait, SemPost, Sleep, taskFunction, TakeInv, Removed, Added, queue, locals
<1>5. ASSUME NEW w \in Workers, TestQueue(w)  PROVE TakeInv(v)'
  <2>1. front # rear => Removed < Added
    BY Numbers DEF IInv, RingInv
  <2>2. UNCHANGED <<Removed, Added, locals, taskSum, front>>
    BY <1>5 DEF TestQueue, queue, Removed, Added
  <2> QED  BY <1>0, <1>5, <2>1, <2>2 DEF TestQueue, TakeInv, locals
<1>6. ASSUME NEW w \in Workers, Exit(w)  PROVE TakeInv(v)'
  <2>1. ~ Announced
    BY <1>6, OnlyOne DEF Exit, Inside
  <2>2. Removed = TASK_NUM
    <3>1. taskSum = 0 /\ taskSum = TASK_NUM - Removed - 0
      BY <1>6, <2>1 DEF Exit, IInv, SumInv
    <3> QED  BY <3>1, Numbers
  <2> QED  BY <1>0, <1>6, <2>2 DEF Exit, TakeInv, queue, locals, Removed, Added
<1>7. ASSUME NEW w \in Workers, ReadSum(w)  PROVE TakeInv(v)'
  BY <1>0, <1>7 DEF ReadSum, TakeInv, queue, Removed, Added
<1>8. ASSUME NEW w \in Workers, WriteSum(w)  PROVE TakeInv(v)'
  <2>1. pc'[v] # "write_sum"
    BY <1>0, <1>8, OnlyOne DEF WriteSum, Inside
  <2> QED  BY <1>0, <1>8, <2>1 DEF WriteSum, TakeInv, queue, locals, Removed, Added
<1>9. ASSUME NEW w \in Workers, ReadFront(w)  PROVE TakeInv(v)'
  BY <1>0, <1>9 DEF ReadFront, TakeInv, queue, Removed, Added
<1>10. ASSUME NEW w \in Workers, CopyTask(w)  PROVE TakeInv(v)'
  <2>1. Removed + 1 \in Removed + 1 .. Added /\ lfront[w] = front
    BY <1>10, Numbers DEF CopyTask, IInv, TakeInv
  <2> DEFINE j == Removed + 1
  <2>2. j - 1 = Removed /\ j \in Removed + 1 .. Added
    BY <2>1, Numbers
  <2> HIDE DEF j
  <2>3. tasks[front] = Removed + 1
    <3>1. tasks[(j - 1) % TASK_QUEUE_MAX_SIZE] = j
      BY <2>2 DEF IInv, RingInv
    <3> QED  BY <2>2, <3>1 DEF IInv, RingInv, j
  <2>4. UNCHANGED <<Removed, Added>>
    BY <1>10 DEF CopyTask, queue, Removed, Added
  <2> QED  BY <1>0, <1>10, <2>1, <2>3, <2>4 DEF CopyTask, TakeInv, queue
<1>11. ASSUME NEW w \in Workers, AdvanceFront(w)  PROVE TakeInv(v)'
  <2>1. v # w => ~ Inside(v)
    BY <1>11, OnlyOne DEF AdvanceFront, Inside
  <2>2. pc'[v] \in {"unlock", "lock", "run", "exit"}
    BY <1>0, <1>11, <2>1 DEF AdvanceFront, Inside
  <2>3. pc'[v] # "exit"
    <3>1. Removed < Added
      BY <1>11 DEF AdvanceFront, IInv, TakeInv
    <3>2. pc[v] # "exit"
      BY <1>0, <3>1, Numbers DEF TakeInv
    <3> QED  BY <1>0, <1>11, <3>2 DEF AdvanceFront
  <2> QED  BY <2>2, <2>3 DEF TakeInv
<1> QED
  BY <1>1, <1>2, <1>3, <1>4, <1>5, <1>6, <1>7, <1>8, <1>9, <1>10, <1>11
     DEF Next, Main, executeTask

\* taskSum.
LEMMA SumStep == ASSUME UseMutex, IInv, [Next]_vars  PROVE SumInv'
<1> USE PoolSizes DEF Step
<1>0. SumInv /\ pc \in [Workers -> Labels]
  BY DEF IInv, TypeOK
<1>1. CASE Main \/ UNCHANGED vars
  BY <1>0, <1>1 DEF Main, StoreTask, WaitNotFull, Join, AdvanceRear, vars, queue, SumInv, Removed, Announced
<1>2. ASSUME NEW w \in Workers,
             SemWait(w) \/ SemPost(w) \/ Sleep(w) \/ taskFunction(w) \/ TestQueue(w) \/ Exit(w)
               \/ ReadSum(w) \/ ReadFront(w) \/ CopyTask(w)
      PROVE  SumInv'
  <2>1. UNCHANGED <<taskSum, Removed>>
    BY <1>2 DEF SemWait, SemPost, Sleep, taskFunction, TestQueue, Exit, ReadSum, ReadFront,
                CopyTask, Removed
  <2>2. \A v \in Workers : pc'[v] \in {"read_front", "copy", "advance"}
                             <=> pc[v] \in {"read_front", "copy", "advance"}
    BY <1>0, <1>2 DEF SemWait, SemPost, Sleep, taskFunction, TestQueue, Exit, ReadSum, ReadFront, CopyTask
  <2> QED  BY <1>0, <2>1, <2>2 DEF SumInv, Announced
<1>3. ASSUME NEW w \in Workers, WriteSum(w)  PROVE SumInv'
  <2>1. Announced'
    BY <1>0, <1>3 DEF WriteSum, Announced
  <2>2. taskSum' = taskSum - 1 /\ taskSum = TASK_NUM - Removed
    BY <1>3, SumPositive DEF WriteSum
  <2> QED  BY <1>3, <2>1, <2>2, Numbers DEF WriteSum, SumInv, Removed
<1>4. ASSUME NEW w \in Workers, AdvanceFront(w)  PROVE SumInv'
  <2>1. Announced
    BY <1>4 DEF AdvanceFront, Announced
  <2>2. \A v \in Workers : v # w => ~ Inside(v)
    BY <1>4, OnlyOne DEF AdvanceFront, Inside
  <2>3. ~ Announced'
    BY <1>0, <1>4, <2>2 DEF AdvanceFront, Announced, Inside
  <2>4. taskSum' = taskSum /\ Removed' = Removed + 1
    BY <1>4, RemoveKeeps DEF AdvanceFront
  <2> QED  BY <1>0, <2>1, <2>3, <2>4, Numbers DEF SumInv
<1> QED  BY <1>1, <1>2, <1>3, <1>4 DEF Next, executeTask

\* The tasks that are run.
LEMMA RunStep == ASSUME UseMutex, IInv, [Next]_vars  PROVE RunInv'
<1> USE DEF Step
<1>0. /\ RunInv /\ pc \in [Workers -> Labels] /\ task \in [Workers -> Tasks \cup {NoTask}]
      /\ runs \in [Tasks -> Nat]
  BY DEF IInv, TypeOK
<1>1. ASSUME UNCHANGED <<taken, runs>>,
             \A v \in Workers : Owes(v)' <=> Owes(v),
             \A v \in Workers : Owes(v) => task'[v] = task[v]
      PROVE  RunInv'
  BY <1>0, <1>1 DEF RunInv, Removed
<1>2. CASE Main \/ UNCHANGED vars
  BY <1>1, <1>2 DEF Main, StoreTask, WaitNotFull, Join, AdvanceRear, vars, locals, Owes
<1>3. ASSUME NEW w \in Workers,
             SemWait(w) \/ SemPost(w) \/ Sleep(w) \/ TestQueue(w) \/ Exit(w)
               \/ ReadSum(w) \/ WriteSum(w) \/ ReadFront(w) \/ CopyTask(w)
      PROVE  RunInv'
  <2>1. UNCHANGED <<taken, runs>>
    BY <1>3 DEF SemWait, SemPost, Sleep, TestQueue, Exit, ReadSum, WriteSum, ReadFront, CopyTask
  <2>2. \A v \in Workers : Owes(v)' <=> Owes(v)
    BY <1>0, <1>3 DEF SemWait, SemPost, Sleep, TestQueue, Exit, ReadSum, WriteSum, ReadFront, CopyTask, Owes
  <2>3. \A v \in Workers : Owes(v) => task'[v] = task[v]
    BY <1>0, <1>3 DEF SemWait, SemPost, Sleep, TestQueue, Exit, ReadSum, WriteSum, ReadFront, CopyTask, Owes, locals
  <2> QED  BY <1>1, <2>1, <2>2, <2>3
<1>4. ASSUME NEW w \in Workers, AdvanceFront(w)  PROVE RunInv'
  <2>1. task[w] = Removed + 1 /\ Removed' = Removed + 1 /\ UNCHANGED <<task, runs>> /\ ~ Owes(w)
    BY <1>4, RemoveKeeps DEF AdvanceFront, locals, IInv, TakeInv, Owes
  <2>2. \A v \in Workers : Owes(v)' <=> Owes(v) \/ v = w
    BY <1>0, <1>4 DEF AdvanceFront, Owes
  <2>3. \A v \in Workers : Owes(v) => task[v] \in 1 .. Removed /\ task[v] # Removed + 1
    BY <1>0, Numbers DEF RunInv
  <2>4. /\ \A v \in Workers : Owes(v)' => task'[v] \in 1 .. Removed'
        /\ \A u, v \in Workers : Owes(u)' /\ Owes(v)' /\ task'[u] = task'[v] => u = v
    BY <1>0, <2>1, <2>2, <2>3, Numbers DEF RunInv
  <2>5. ASSUME NEW t \in Tasks
        PROVE  runs'[t] = IF t <= Removed' /\ ~ \E v \in Workers : Owes(v)' /\ task'[v] = t
                          THEN 1 ELSE 0
    <3>1. CASE t = Removed + 1
      <4>1. ~ (t <= Removed)
        BY <3>1, Numbers
      <4> QED  BY <1>0, <2>1, <2>2, <3>1, <4>1 DEF RunInv
    <3>2. CASE t # Removed + 1
      <4>1. t <= Removed' <=> t <= Removed
        BY <2>1, <3>2, Numbers DEF Tasks
      <4>2. (\E v \in Workers : Owes(v)' /\ task'[v] = t) <=> (\E v \in Workers : Owes(v) /\ task[v] = t)
        BY <2>1, <2>2, <3>2
      <4> QED  BY <1>0, <2>1, <4>1, <4>2 DEF RunInv
    <3> QED  BY <3>1, <3>2
  <2> QED  BY <2>4, <2>5 DEF RunInv
<1>5. ASSUME NEW w \in Workers, taskFunction(w)  PROVE RunInv'
  <2>1. Owes(w) /\ task[w] \in 1 .. Removed /\ UNCHANGED <<task, Removed>>
    BY <1>0, <1>5 DEF taskFunction, Owes, RunInv, locals, Removed
  <2>2. task[w] \in Tasks /\ runs' = [runs EXCEPT ![task[w]] = @ + 1]
    BY <1>5, <2>1, Numbers DEF taskFunction, Tasks
  <2>3. \A v \in Workers : Owes(v)' <=> Owes(v) /\ v # w
    BY <1>0, <1>5 DEF taskFunction, Owes
  <2>4. \A v \in Workers : Owes(v) /\ task[v] = task[w] => v = w
    BY <1>0, <2>1 DEF RunInv
  <2>5. ASSUME NEW t \in Tasks
        PROVE  runs'[t] = IF t <= Removed' /\ ~ \E v \in Workers : Owes(v)' /\ task'[v] = t
                          THEN 1 ELSE 0
    <3>1. CASE t = task[w]
      <4>1. runs[t] = 0 /\ t <= Removed
        BY <1>0, <2>1, <3>1, Numbers DEF RunInv
      <4>2. ~ \E v \in Workers : Owes(v)' /\ task'[v] = t
        BY <2>1, <2>3, <2>4, <3>1
      <4> QED  BY <1>0, <2>1, <2>2, <3>1, <4>1, <4>2
    <3>2. CASE t # task[w]
      <4>1. (\E v \in Workers : Owes(v)' /\ task'[v] = t) <=> (\E v \in Workers : Owes(v) /\ task[v] = t)
        BY <2>1, <2>3, <3>2
      <4>2. runs'[t] = runs[t]
        BY <1>0, <2>2, <3>2
      <4> QED  BY <1>0, <2>1, <4>1, <4>2 DEF RunInv
    <3> QED  BY <3>1, <3>2
  <2>6. /\ \A v \in Workers : Owes(v)' => task'[v] \in 1 .. Removed'
        /\ \A u, v \in Workers : Owes(u)' /\ Owes(v)' /\ task'[u] = task'[v] => u = v
    BY <1>0, <2>1, <2>3 DEF RunInv
  <2> QED  BY <2>5, <2>6 DEF RunInv
<1> QED  BY <1>2, <1>3, <1>4, <1>5 DEF Next, executeTask

(***************************************************************************)
(* The theorems.                                                           *)
(***************************************************************************)
\* The inductive invariant holds in the initial state.
LEMMA InitIInv == Init => IInv
<1> SUFFICES ASSUME Init  PROVE IInv
  OBVIOUS
<1> USE PoolSizes DEF Init
<1>1. TypeOK
  BY DEF TypeOK, Slots, Labels, Tasks
<1>2. Removed = 0 /\ Added = 0
  BY DEF Removed, Added
<1>3. 0 % TASK_QUEUE_MAX_SIZE = 0
  BY ModUnique
<1>4. LockInv /\ ~ Announced /\ \A w \in Workers : TakeInv(w) /\ ~ Owes(w)
  BY DEF LockInv, Inside, Announced, TakeInv, Owes
<1>5. RingInv /\ MainInv /\ SumInv
  BY <1>2, <1>3, <1>4 DEF RingInv, MainInv, SumInv
<1>6. RunInv
  BY <1>2, <1>4 DEF RunInv, Tasks
<1> QED  BY <1>1, <1>4, <1>5, <1>6 DEF IInv

\* The inductive invariant holds throughout, when the workers use the lock.
THEOREM Inductive == ASSUME UseMutex  PROVE Safe => []IInv
<1>1. IInv /\ [Next]_vars => IInv'
  BY TypeStep, LockStep, RingStep, TakeStep, SumStep, RunStep DEF IInv
<1> QED  BY <1>1, InitIInv, PTL DEF Safe

\* When main says that all tasks have been finished, each one has been executed
\* exactly once; and no index, counter or local leaves its range
\* (threadpools.c:48-82, 129-141), for any number of workers and tasks.
THEOREM EachTaskOnce == ASSUME UseMutex  PROVE Spec => []AllFinished
<1>1. IInv => AllFinished
  <2> SUFFICES ASSUME IInv  PROVE AllFinished
    OBVIOUS
  <2>1. TypeOK
    BY DEF IInv
  <2>2. ASSUME main = "done"
        PROVE  taskSum = 0 /\ \A t \in Tasks : runs[t] = 1
    <3>1. \A w \in Workers : pc[w] = "exit"
      BY <2>2 DEF IInv, MainInv
    <3>2. Removed = TASK_NUM
      BY <3>1, PoolSizes DEF IInv, TakeInv
    <3>3. ~ Announced /\ \A w \in Workers : ~ Owes(w)
      BY <3>1 DEF Announced, Owes
    <3>4. taskSum = TASK_NUM - TASK_NUM - 0
      BY <3>2, <3>3 DEF IInv, SumInv
    <3>5. \A t \in Tasks : runs[t] = 1
      BY <3>2, <3>3, Numbers DEF IInv, RunInv, Tasks
    <3> QED  BY <3>4, <3>5, Numbers
  <2> QED  BY <2>1, <2>2 DEF AllFinished
<1> QED  BY <1>1, Inductive, PTL DEF Spec

\* A worker that exits leaves no task behind, although it reads the queue and
\* taskSum at two different moments (threadpools.c:48-82).
THEOREM NobodyLeavesEarly == ASSUME UseMutex  PROVE Spec => []NoEarlyExit
<1>1. IInv => NoEarlyExit
  <2> SUFFICES ASSUME IInv, NEW w \in Workers, pc[w] = "exit"
               PROVE  next = TASK_NUM + 1 /\ front = rear /\ Len(taken) = TASK_NUM
    BY DEF NoEarlyExit
  <2>1. Removed = TASK_NUM
    BY DEF IInv, TakeInv
  <2>2. Added = TASK_NUM
    BY <2>1, Numbers
  <2> QED  BY <2>1, <2>2, Numbers DEF IInv, RingInv, Removed, Added
<1> QED  BY <1>1, Inductive, PTL DEF Spec

(***************************************************************************)
(* Refinement: the queue in the pool is a bounded FIFO queue.              *)
(***************************************************************************)
\* The abstract queue of a state, as Queue's instance maps it.
QueueBar == [i \in 1 .. Length |-> tasks[(front + i - 1) % TASK_QUEUE_MAX_SIZE]]

\* It holds the tasks added and not removed.
Contents == /\ Removed \in Nat /\ Added \in Nat /\ next = Added + 1
            /\ Removed <= Added /\ Added - Removed < TASK_QUEUE_MAX_SIZE
            /\ Length = Added - Removed
            /\ QueueBar = [i \in 1 .. Added - Removed |-> Removed + i]

\* This is so in every state of the inductive invariant.
LEMMA QueueContents == IInv => Contents
<1> SUFFICES ASSUME IInv  PROVE Contents
  OBVIOUS
<1>1. /\ Removed \in Nat /\ Added \in Nat /\ next = Added + 1 /\ Removed <= Added
      /\ Added - Removed < TASK_QUEUE_MAX_SIZE
  BY Numbers DEF IInv, RingInv, Added
<1>2. Length = Added - Removed
  BY <1>1, Numbers, Distance DEF IInv, RingInv, Length
<1>3. ASSUME NEW i \in 1 .. Added - Removed
      PROVE  tasks[(front + i - 1) % TASK_QUEUE_MAX_SIZE] = Removed + i
  <2> DEFINE j == Removed + i
             h == i - 1
  <2>1. j \in Removed + 1 .. Added /\ h \in Nat /\ j - 1 = Removed + h /\ front \in Int
        /\ front + i - 1 = front + h
    BY <1>1, PoolSizes DEF IInv, TypeOK, Slots
  <2> HIDE DEF j, h
  <2>2. (front + h) % TASK_QUEUE_MAX_SIZE = (Removed + h) % TASK_QUEUE_MAX_SIZE
    BY <1>1, <2>1, Numbers, ModPlus DEF IInv, RingInv
  <2>3. tasks[(j - 1) % TASK_QUEUE_MAX_SIZE] = j
    BY <2>1 DEF IInv, RingInv
  <2>4. tasks[(front + i - 1) % TASK_QUEUE_MAX_SIZE] = j
    BY <2>1, <2>2, <2>3
  <2> QED  BY <2>4 DEF j
<1>4. QueueBar = [i \in 1 .. Added - Removed |-> Removed + i]
  BY <1>2, <1>3 DEF QueueBar
<1> QED  BY <1>1, <1>2, <1>4 DEF Contents

\* Advancing rear puts the next task into a queue that has room.
LEMMA AddPuts ==
  ASSUME IInv, Contents, Contents', AdvanceRear
  PROVE  Queue!Put
<1>1. /\ Added < TASK_NUM /\ Added' = Added + 1 /\ Removed' = Removed /\ taken' = taken
      /\ next' = next + 1
  BY Numbers DEF AdvanceRear, Added, Removed, IInv, MainInv
<1>2. Len(QueueBar) < TASK_QUEUE_MAX_SIZE - 1
  <2>1. Added - Removed < TASK_QUEUE_MAX_SIZE - 1
    BY DEF AdvanceRear, IInv, MainInv
  <2> QED  BY <2>1 DEF Contents
<1>3. QueueBar' = Append(QueueBar, Added + 1)
  BY <1>1 DEF Contents
<1>4. next' - 1 = next - 1 + 1
  BY <1>1 DEF Contents
<1> QED  BY <1>1, <1>2, <1>3, <1>4 DEF Queue!Put, QueueBar, Added

\* Advancing front takes the oldest one out of it.
LEMMA RemoveGets ==
  ASSUME IInv, Contents, Contents', NEW w \in Workers, AdvanceFront(w)
  PROVE  Queue!Get
<1>1. /\ Removed < Added /\ Added' = Added /\ next' = next /\ Removed' = Removed + 1
      /\ taken' = Append(taken, Removed + 1)
  <2>1. Removed < Added
    BY DEF AdvanceFront, Step, IInv, TakeInv
  <2> QED  BY <2>1, RemoveKeeps DEF AdvanceFront, Added
<1>2. QueueBar # <<>> /\ Head(QueueBar) = Removed + 1
  <2>1. /\ Removed \in Nat /\ Added - Removed \in Nat /\ 1 \in 1 .. Added - Removed
        /\ QueueBar = [i \in 1 .. Added - Removed |-> Removed + i]
    BY <1>1 DEF Contents
  <2>2. QueueBar[1] = Removed + 1 /\ Len(QueueBar) = Added - Removed
    BY <2>1
  <2> QED  BY <2>1, <2>2
<1>3. QueueBar' = Tail(QueueBar)
  BY <1>1 DEF Contents
<1> QED  BY <1>1, <1>2, <1>3 DEF Queue!Get, QueueBar

\* The pool's queue (threadpools.c:33-37, 70-74, 111-126) implements the bounded
\* queue of capacity TASK_QUEUE_MAX_SIZE - 1: main, which takes no lock, never
\* overwrites a task, and the workers remove the tasks in order, each once.
THEOREM ImplementsQueue == ASSUME UseMutex  PROVE Spec => QueueSpec
<1>1. Init => Queue!Init
  <2> SUFFICES ASSUME Init  PROVE Queue!Init
    OBVIOUS
  <2>1. Contents /\ Removed = 0 /\ Added = 0
    BY InitIInv, QueueContents DEF Init, Removed, Added
  <2>2. QueueBar = <<>>
    BY <2>1 DEF Contents
  <2> QED  BY <2>1, <2>2 DEF Init, Queue!Init, QueueBar, Added
<1>2. IInv /\ IInv' /\ [Next]_vars /\ Contents /\ Contents' => [Queue!Next]_Queue!vars
  <2> SUFFICES ASSUME IInv, [Next]_vars, Contents, Contents'  PROVE [Queue!Next]_Queue!vars
    OBVIOUS
  <2>1. ASSUME StoreTask \/ Calm  PROVE UNCHANGED Queue!vars
    <3>1. UNCHANGED <<Removed, Added, next, taken>>
      BY <2>1 DEF StoreTask, Calm, Removed, Added
    <3>2. QueueBar' = QueueBar
      BY <3>1 DEF Contents
    <3> QED  BY <3>1, <3>2 DEF Queue!vars, QueueBar
  <2> QED  BY <2>1, StepKinds, AddPuts, RemoveGets DEF Queue!Next
<1> QED
  BY <1>1, <1>2, Inductive, QueueContents, PTL DEF Spec, Safe, QueueSpec, Queue!Spec
=============================================================================
