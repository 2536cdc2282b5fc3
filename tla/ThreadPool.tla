----------------------------- MODULE ThreadPool -----------------------------
(***************************************************************************)
(* The thread pool of Labweek15/threadpools.c (UseMutex = TRUE) and its    *)
(* first version, Labweek13/threadpools.c, whose workers share the queue   *)
(* without a lock (UseMutex = FALSE).  main adds TASK_NUM tasks to a       *)
(* circular queue and joins the workers.  It never takes the lock, so      *)
(* each access of a worker or of main to front, rear, taskSum or a slot of *)
(* the queue is a step of its own.                                         *)
(*                                                                         *)
(* TASK_NUM tasks are numbered from 1 as in main; NoTask is the content of *)
(* a slot nobody has written yet.                                          *)
(***************************************************************************)
EXTENDS Naturals, Sequences, FiniteSets

CONSTANTS Workers,              \* the THREADS_NUM threads of the pool
          TASK_QUEUE_MAX_SIZE, TASK_NUM,
          UseMutex

ASSUME PoolSizes == /\ IsFiniteSet(Workers) /\ Workers # {}
                    /\ TASK_QUEUE_MAX_SIZE \in Nat \ {0, 1}
                    /\ TASK_NUM \in Nat \ {0}
                    /\ UseMutex \in BOOLEAN

NoTask == 0
Tasks == 1 .. TASK_NUM
Slots == 0 .. TASK_QUEUE_MAX_SIZE - 1

VARIABLES tasks, front, rear,  \* struct TaskQueue
          taskSum, sem_mutex,  \* the rest of struct Threadpools
          pc,       \* where each worker is
          sum,      \* a worker's register while it decrements taskSum
          lfront,   \* executeTask's local front
          task,     \* executeTask's local task
          next,     \* loop index of main: the task being added
          main,     \* where main is
          taken,    \* tasks in the order the workers removed them
          runs      \* how often each task has been executed

queue == <<tasks, front, rear>>
locals == <<sum, lfront, task>>
vars == <<queue, taskSum, sem_mutex, pc, locals, next, main, taken, runs>>

Init == /\ tasks = [s \in Slots |-> NoTask]
        /\ front = 0 /\ rear = 0
        /\ taskSum = TASK_NUM
        /\ sem_mutex = 1
        /\ pc = [w \in Workers |-> "lock"]
        /\ sum = [w \in Workers |-> 0]
        /\ lfront = [w \in Workers |-> 0]
        /\ task = [w \in Workers |-> NoTask]
        /\ next = 1 /\ main = "full"
        /\ taken = <<>>
        /\ runs = [t \in Tasks |-> 0]

Step(w, from, to) == pc[w] = from /\ pc' = [pc EXCEPT ![w] = to]
Succ(i) == (i + 1) % TASK_QUEUE_MAX_SIZE

(***************************************************************************)
(* executeTask                                                             *)
(***************************************************************************)
SemWait(w) == /\ Step(w, "lock", "empty")
              /\ IF UseMutex THEN sem_mutex > 0 /\ sem_mutex' = sem_mutex - 1
                             ELSE UNCHANGED sem_mutex
              /\ UNCHANGED <<queue, taskSum, locals, next, main, taken, runs>>

\* while (front == rear); a worker that finds a task goes on to take it
TestQueue(w) == /\ Step(w, "empty", IF front = rear THEN "finished" ELSE "read_sum")
                /\ UNCHANGED <<queue, taskSum, sem_mutex, locals, next, main, taken, runs>>

\* Mutant: the worker that exits keeps the semaphore.
ExitLocked(w) == /\ taskSum = 0
                 /\ Step(w, "finished", "exit")
                 /\ UNCHANGED <<queue, taskSum, sem_mutex, locals, next, main, taken, runs>>

\* Mutant: an empty queue alone makes a worker exit.
ExitWhenEmpty(w) == /\ Step(w, "finished", "exit")
                    /\ sem_mutex' = IF UseMutex THEN sem_mutex + 1 ELSE sem_mutex
                    /\ UNCHANGED <<queue, taskSum, locals, next, main, taken, runs>>

\* if (taskSum == 0): post the semaphore and exit
Exit(w) == /\ taskSum = 0
           /\ Step(w, "finished", "exit")
           /\ sem_mutex' = IF UseMutex THEN sem_mutex + 1 ELSE sem_mutex
           /\ UNCHANGED <<queue, taskSum, locals, next, main, taken, runs>>

\* otherwise sleep, still holding the semaphore, and test again
Sleep(w) == /\ taskSum # 0
            /\ Step(w, "finished", "empty")
            /\ UNCHANGED <<queue, taskSum, sem_mutex, locals, next, main, taken, runs>>

\* pools->taskSum--, a read and a write
ReadSum(w) == /\ Step(w, "read_sum", "write_sum")
              /\ sum' = [sum EXCEPT ![w] = taskSum]
              /\ UNCHANGED <<queue, taskSum, sem_mutex, lfront, task, next, main, taken, runs>>

WriteSum(w) == /\ Step(w, "write_sum", "read_front")
               /\ taskSum' = sum[w] - 1
               /\ UNCHANGED <<queue, sem_mutex, locals, next, main, taken, runs>>

ReadFront(w) == /\ Step(w, "read_front", "copy")
                /\ lfront' = [lfront EXCEPT ![w] = front]
                /\ UNCHANGED <<queue, taskSum, sem_mutex, sum, task, next, main, taken, runs>>

CopyTask(w) == /\ Step(w, "copy", "advance")
               /\ task' = [task EXCEPT ![w] = tasks[lfront[w]]]
               /\ UNCHANGED <<queue, taskSum, sem_mutex, sum, lfront, next, main, taken, runs>>

AdvanceFront(w) == /\ Step(w, "advance", "unlock")
                   /\ front' = Succ(lfront[w])
                   /\ taken' = Append(taken, task[w])
                   /\ UNCHANGED <<tasks, rear, taskSum, sem_mutex, locals, next, main, runs>>

SemPost(w) == /\ Step(w, "unlock", "run")
              /\ sem_mutex' = IF UseMutex THEN sem_mutex + 1 ELSE sem_mutex
              /\ UNCHANGED <<queue, taskSum, locals, next, main, taken, runs>>

\* (*(task.function))(task.arg): taskFunction prints the task and sleeps;
\* calling through a slot that was never written has no defined effect
taskFunction(w) == /\ Step(w, "run", "lock")
                   /\ runs' = IF task[w] \in Tasks
                              THEN [runs EXCEPT ![task[w]] = @ + 1] ELSE runs
                   /\ UNCHANGED <<queue, taskSum, sem_mutex, locals, next, main, taken>>

executeTask(w) == \/ SemWait(w) \/ TestQueue(w) \/ Exit(w) \/ Sleep(w)
                  \/ ReadSum(w) \/ WriteSum(w) \/ ReadFront(w) \/ CopyTask(w)
                  \/ AdvanceFront(w) \/ SemPost(w) \/ taskFunction(w)

(***************************************************************************)
(* main: addTask for every task, then pthread_join of every worker.        *)
(***************************************************************************)
\* Mutant: main does not wait for a free slot.
FullNever == FALSE

Full == (rear + TASK_QUEUE_MAX_SIZE + 1 - front) % TASK_QUEUE_MAX_SIZE = 0

\* while (full) sleep
WaitNotFull == /\ main = "full"
               /\ main' = IF Full THEN "full" ELSE "store"
               /\ UNCHANGED <<queue, taskSum, sem_mutex, pc, locals, next, taken, runs>>

StoreTask == /\ main = "store"
             /\ tasks' = [tasks EXCEPT ![rear] = next]
             /\ main' = "advance"
             /\ UNCHANGED <<front, rear, taskSum, sem_mutex, pc, locals, next, taken, runs>>

AdvanceRear == /\ main = "advance"
               /\ rear' = Succ(rear)
               /\ next' = next + 1
               /\ main' = IF next < TASK_NUM THEN "full" ELSE "join"
               /\ UNCHANGED <<tasks, front, taskSum, sem_mutex, pc, locals, taken, runs>>

\* Mutant: main does not wait for the last task to finish.
JoinEarly == /\ main = "join"
             /\ taskSum = 0
             /\ main' = "done"
             /\ UNCHANGED <<queue, taskSum, sem_mutex, pc, locals, next, taken, runs>>

\* "All %d tasks have been finished."
Join == /\ main = "join"
        /\ \A w \in Workers : pc[w] = "exit"
        /\ main' = "done"
        /\ UNCHANGED <<queue, taskSum, sem_mutex, pc, locals, next, taken, runs>>

Main == WaitNotFull \/ StoreTask \/ AdvanceRear \/ Join

Next == Main \/ \E w \in Workers : executeTask(w)

\* The kernel keeps scheduling every thread, sleepers included.
Fairness == WF_vars(Main) /\ \A w \in Workers : WF_vars(executeTask(w))

Safe == Init /\ [][Next]_vars
Spec == Safe /\ Fairness

-----------------------------------------------------------------------------
(***************************************************************************)
(* Properties                                                              *)
(***************************************************************************)
Labels == {"lock", "empty", "finished", "read_sum", "write_sum", "read_front",
           "copy", "advance", "unlock", "run", "exit"}

\* The fields of struct Threadpools and the locals of executeTask keep their
\* ranges: no index leaves the array, taskSum never goes below zero.
TypeOK == /\ tasks \in [Slots -> Tasks \cup {NoTask}]
          /\ front \in Slots /\ rear \in Slots
          /\ taskSum \in 0 .. TASK_NUM
          /\ sem_mutex \in {0, 1}
          /\ pc \in [Workers -> Labels]
          /\ sum \in [Workers -> 0 .. TASK_NUM]
          /\ lfront \in [Workers -> Slots]
          /\ task \in [Workers -> Tasks \cup {NoTask}]
          /\ next \in 1 .. TASK_NUM + 1
          /\ main \in {"full", "store", "advance", "join", "done"}
          /\ taken \in Seq(Tasks \cup {NoTask})
          /\ runs \in [Tasks -> Nat]

\* The pool's queue, with one slot always free, is a bounded FIFO queue of
\* capacity TASK_QUEUE_MAX_SIZE - 1 although main adds to it while a worker
\* removes from it ("the most tasks in the queue is its length minus one",
\* threadpools.c:23).
Length == (rear + TASK_QUEUE_MAX_SIZE - front) % TASK_QUEUE_MAX_SIZE
Queue == INSTANCE BoundedQueue
           WITH Capacity <- TASK_QUEUE_MAX_SIZE - 1, MaxItem <- TASK_NUM,
                made <- next - 1, out <- taken,
                queue <- [i \in 1 .. Length |-> tasks[(front + i - 1) % TASK_QUEUE_MAX_SIZE]]
QueueSpec == Queue!Spec

\* No task is executed twice, whatever the workers' interleaving.
TasksAtMostOnce == \A t \in Tasks : runs[t] <= 1

\* When main prints "All tasks have been finished" each task was executed, to
\* its end, exactly once and taskSum is zero; until then every variable keeps
\* its range.
AllFinished == /\ TypeOK
               /\ main = "done" => taskSum = 0 /\ \A t \in Tasks : runs[t] = 1

\* A worker decides to exit on two separate reads (queue empty, then taskSum
\* zero); it never does so while a task is left to add or to take.
NoEarlyExit == \A w \in Workers : pc[w] = "exit" =>
                  next = TASK_NUM + 1 /\ front = rear /\ Len(taken) = TASK_NUM

\* main gets to the end: all workers exit, although a worker sleeps on an
\* empty queue with the semaphore in its hands.
Terminates == <>(main = "done")
=============================================================================
