----------------------------- MODULE Scheduler -----------------------------
(***************************************************************************)
(* The task scheduler of Labweek16 over one round, that is one call of     *)
(* cal_aver_wait_time: every task is a thread, the scheduler is a thread   *)
(* that spins until finished_task reaches its goal and acts in its handler *)
(* of SIGUSR2.  A task is stopped by SIGUSR1, whose handler waits in       *)
(* sigsuspend, and set going by its semaphore or by SIGCONT.               *)
(*                                                                         *)
(* A signal is delivered some time after it was sent, and one that is sent *)
(* twice before is delivered once.  All handlers are installed without     *)
(* SA_RESTART and sem_wait's result is not looked at, so a task in         *)
(* sem_wait goes on when any handler returns.  Time is left out: a task    *)
(* that runs may end at any moment.                                        *)
(*                                                                         *)
(* raced records that signals have crossed: a task was added before the    *)
(* signals of the step before were delivered, a SIGCONT came before the    *)
(* sigsuspend it was to end, or a SIGUSR1 when its task was in delete_task *)
(* or after it.  corrupt records that delete_task has freed the node of    *)
(* another task than its own, or that the handler of SIGUSR2 has followed  *)
(* a null head, which is the end of the process.  A round goes on after    *)
(* all else; a signal to a thread that has ended does nothing.             *)
(***************************************************************************)
EXTENDS Integers, Sequences, FiniteSets, SequencesExt

CONSTANTS WCT, priority,   \* the input: of task i, at index i
          Stale            \* wrong goals of schedule_runner, for each policy's round

Tasks == DOMAIN WCT

Policies == {"FCFS", "SJF_PEM", "SJF_NOT_PEM", "PRIORITY_PEM", "PRIORITY_NOT_PEM"}

SIGUSR1 == "USR1"
SIGCONT == "CONT"

VARIABLES
  schedule_policy,
  head,                   \* the list of task nodes from sched.head on
  schedule_status,        \* of every task node
  wait_sem,               \* of every task node
  mutex,                  \* the holder of sched_mutex, or 0
  task,                   \* where every task is in task_runner
  susp,                   \* its SIGUSR1 handler: "no", "entering", "in" sigsuspend
  pend,                   \* signals sent to it and not delivered
  usr2, sched,            \* the same for the scheduler thread, and its handler
  finished_task, counted, \* the counter, and what a task has read of it
  goal,                   \* the count that schedule_runner waits for
  raced, corrupt          \* signals crossed; memory was misused (history)

(* main runs a round for every policy, and one scheduler thread serves all *)
(* of them: it ends 5 * task_num tasks after the first round began.  Here  *)
(* finished_task counts from the beginning of the policy's own round.      *)
RoundsLeft == [FCFS |-> 5, SJF_PEM |-> 4, SJF_NOT_PEM |-> 3, PRIORITY_PEM |-> 2,
               PRIORITY_NOT_PEM |-> 1]
TasksLeft == RoundsLeft[schedule_policy] * Cardinality(Tasks)

lvars == <<schedule_policy, head, schedule_status, wait_sem, mutex, task, susp, pend,
           usr2, sched, finished_task, counted, goal, raced, corrupt>>
queue == <<schedule_policy, head, schedule_status, wait_sem, mutex>>
count == <<finished_task, counted, goal>>

(* init_scheduler, creat_thread_node and the threads' creation.            *)
(* schedule_runner reads the number of tasks through a pointer to the      *)
(* parameter of init_scheduler, and may do so after that has returned.     *)
Init ==
  /\ schedule_policy \in Policies
  /\ head = <<>> /\ mutex = 0 /\ usr2 = FALSE /\ sched = "idle"
  /\ schedule_status = [t \in Tasks |-> "NONE"] /\ wait_sem = [t \in Tasks |-> 0]
  /\ task = [t \in Tasks |-> "arrive"] /\ susp = [t \in Tasks |-> "no"]
  /\ pend = [t \in Tasks |-> {}]
  /\ finished_task = 0 /\ counted = [t \in Tasks |-> 0]
  /\ goal \in {TasksLeft} \cup Stale[schedule_policy]
  /\ raced = FALSE /\ corrupt = FALSE

(* Behind the nodes at the front, from the k-th on, that do not have to    *)
(* stand behind the new one.                                               *)
InsertFrom(list, t, k, Goes(_, _)) ==
  LET n == CHOOSE n \in k - 1 .. Len(list) :
             /\ \A i \in k .. n : Goes(list[i], t)
             /\ n < Len(list) => ~Goes(list[n + 1], t)
  IN  InsertAt(list, n + 1, t)

Shorter(u, t) == WCT[t] >= WCT[u]
Higher(u, t) == priority[t] <= priority[u]

fcfs(list, t) == Append(list, t)
sjf_pem(list, t) == InsertFrom(list, t, 1, Shorter)
sjf_not_pem(list, t) == IF list = <<>> THEN <<t>> ELSE InsertFrom(list, t, 2, Shorter)
priority_pem(list, t) == InsertFrom(list, t, 1, Higher)
priority_not_pem(list, t) == IF list = <<>> THEN <<t>> ELSE InsertFrom(list, t, 2, Higher)

Inserted(list, t) ==
  CASE schedule_policy = "FCFS" -> fcfs(list, t)
    [] schedule_policy = "SJF_PEM" -> sjf_pem(list, t)
    [] schedule_policy = "SJF_NOT_PEM" -> sjf_not_pem(list, t)
    [] schedule_policy = "PRIORITY_PEM" -> priority_pem(list, t)
    [] schedule_policy = "PRIORITY_NOT_PEM" -> priority_not_pem(list, t)

Awake(t, at) == task[t] = at /\ susp[t] = "no"
Goto(t, next) == task' = [task EXCEPT ![t] = next]

(* pthread_kill, of a thread that may have ended.                          *)
Kill(t, sig) == IF task[t] = "exit" THEN pend ELSE [pend EXCEPT ![t] = @ \cup {sig}]

(* Every signal has been delivered and its handler has done its work.      *)
Quiet == ~usr2 /\ sched = "idle" /\ \A t \in Tasks : pend[t] = {} /\ susp[t] # "entering"

(* add_task: lock, stop the head.                                          *)
add_task_begin(t) ==
  /\ Awake(t, "arrive") /\ mutex = 0
  /\ mutex' = t
  /\ schedule_status' = [u \in Tasks |-> IF u = t THEN "WAITING"
                                         ELSE IF head # <<>> /\ u = Head(head) THEN "READY"
                                         ELSE schedule_status[u]]
  /\ pend' = IF head = <<>> THEN pend ELSE Kill(Head(head), SIGUSR1)
  /\ Goto(t, "insert")
  /\ raced' = (raced \/ ~Quiet)
  /\ UNCHANGED <<schedule_policy, head, wait_sem, susp, usr2, sched, count, corrupt>>

(* Insert the node, tell the scheduler, unlock.                            *)
add_task_insert(t) ==
  /\ Awake(t, "insert")
  /\ head' = Inserted(head, t)
  /\ usr2' = TRUE
  /\ mutex' = 0
  /\ Goto(t, "sem")
  /\ UNCHANGED <<schedule_policy, schedule_status, wait_sem, susp, pend, sched, count, raced, corrupt>>

(* The tasks between add_task and delete_task, each of which thinks that   *)
(* its node is in the list; and whether another has freed its node.        *)
InRound == {t \in Tasks : task[t] \in {"sem", "run", "deleting"}}
Freed(t) == t \in InRound /\ \A i \in DOMAIN head : head[i] # t

(* A semaphore in freed memory may let its task pass at any time.          *)
SemWait(t) ==
  /\ Awake(t, "sem")
  /\ \/ wait_sem[t] > 0 /\ wait_sem' = [wait_sem EXCEPT ![t] = @ - 1]
     \/ Freed(t) /\ UNCHANGED wait_sem
  /\ Goto(t, "run")
  /\ UNCHANGED <<schedule_policy, head, schedule_status, mutex, susp, pend, usr2, sched, count, raced, corrupt>>

(* The last nanosleep of a task that runs may end at any moment.  Signals  *)
(* do the same to a task that then waits for the mutex, so "run" stands    *)
(* for that too.                                                           *)
RunEnds(t) == Awake(t, "run")

delete_task_lock(t) ==
  /\ RunEnds(t) /\ mutex = 0
  /\ mutex' = t
  /\ Goto(t, "deleting")
  /\ UNCHANGED <<schedule_policy, head, schedule_status, wait_sem, susp, pend, usr2, sched, count, raced, corrupt>>

(* A mutant of delete_task: the next task is not woken.                    *)
delete_task_silent(t) ==
  /\ Awake(t, "deleting")
  /\ head' = Tail(head)
  /\ wait_sem' = [wait_sem EXCEPT ![Head(head)] = 0]
  /\ schedule_status' = [schedule_status EXCEPT ![Head(head)] = "NONE"]
  /\ corrupt' = (corrupt \/ Head(head) # t)
  /\ mutex' = 0
  /\ Goto(t, "count")
  /\ UNCHANGED <<schedule_policy, pend, susp, usr2, sched, count, raced>>

(* It removes whatever node is first; when that is another task's, the     *)
(* other goes on with a node that is freed.                                *)
delete_task(t) ==
  /\ Awake(t, "deleting")
  /\ head' = Tail(head)
  /\ wait_sem' = [wait_sem EXCEPT ![Head(head)] = 0]
  /\ schedule_status' = [schedule_status EXCEPT ![Head(head)] = "NONE"]
  /\ corrupt' = (corrupt \/ Head(head) # t)
  /\ pend' = IF Tail(head) = <<>> THEN pend
             ELSE Kill(Head(Tail(head)), SIGCONT)
  /\ mutex' = 0
  /\ Goto(t, "count")
  /\ UNCHANGED <<schedule_policy, susp, usr2, sched, count, raced>>

(* finished_task++ without the mutex.                                      *)
CountRead(t) ==
  /\ Awake(t, "count")
  /\ counted' = [counted EXCEPT ![t] = finished_task]
  /\ Goto(t, "store")
  /\ UNCHANGED <<queue, susp, pend, usr2, sched, finished_task, goal, raced, corrupt>>

CountStore(t) ==
  /\ Awake(t, "store")
  /\ finished_task' = counted[t] + 1
  /\ counted' = [counted EXCEPT ![t] = 0]
  /\ pend' = [pend EXCEPT ![t] = {}]
  /\ raced' = (raced \/ SIGUSR1 \in pend[t])
  /\ Goto(t, "exit")
  /\ UNCHANGED <<queue, susp, usr2, sched, goal, corrupt>>

(* A handler that returns lets sem_wait return too.                        *)
Interrupted(t) == task' = [task EXCEPT ![t] = IF @ = "sem" THEN "run" ELSE @]

(* thread_wait_sighand: blocked while it is entering, and may interrupt    *)
(* its own sigsuspend.                                                     *)
thread_wait_sighand(t) ==
  /\ SIGUSR1 \in pend[t] /\ susp[t] # "entering"
  /\ pend' = [pend EXCEPT ![t] = @ \ {SIGUSR1}]
  /\ susp' = [susp EXCEPT ![t] = "entering"]
  /\ raced' = (raced \/ task[t] \in {"deleting", "count", "store"})
  /\ UNCHANGED <<queue, task, usr2, sched, count, corrupt>>

Suspends(t) ==
  /\ susp[t] = "entering"
  /\ susp' = [susp EXCEPT ![t] = "in"]
  /\ UNCHANGED <<queue, task, pend, usr2, sched, count, raced, corrupt>>

(* thread_cont_sighand: it ends a sigsuspend that has begun.  Before that  *)
(* the signal is lost, and so is one that overtakes the SIGUSR1 it was     *)
(* meant to undo.                                                          *)
thread_cont_sighand(t) ==
  /\ SIGCONT \in pend[t]
  /\ pend' = [pend EXCEPT ![t] = @ \ {SIGCONT}]
  /\ \/ susp[t] = "in" /\ susp' = [susp EXCEPT ![t] = "no"] /\ Interrupted(t)
     \/ susp[t] = "no" /\ Interrupted(t) /\ UNCHANGED susp
     \/ susp[t] = "entering" /\ UNCHANGED <<susp, task>>
  /\ raced' = (raced \/ susp[t] = "entering" \/ SIGUSR1 \in pend[t])
  /\ UNCHANGED <<queue, usr2, sched, count, corrupt>>

(* sched_run_sighand reads the head and its status without the mutex, and  *)
(* reads the head again to act; a task that is added in between has sent   *)
(* SIGUSR1 on account of a status that is now overwritten.                 *)
sched_run_sighand ==
  /\ usr2 /\ sched = "idle"
  /\ usr2' = FALSE
  /\ IF head = <<>> THEN corrupt' = TRUE /\ sched' = "crashed"
     ELSE /\ sched' = CASE schedule_status[Head(head)] = "WAITING" -> "post"
                        [] schedule_status[Head(head)] = "READY" -> "cont"
                        [] OTHER -> "idle"
          /\ UNCHANGED corrupt
  /\ UNCHANGED <<queue, task, susp, pend, count, raced>>

sched_run_acts ==
  /\ sched \in {"post", "cont"}
  /\ sched' = IF head = <<>> THEN "crashed" ELSE "idle"
  /\ IF head = <<>> THEN corrupt' = TRUE /\ UNCHANGED <<schedule_status, wait_sem, pend>>
     ELSE LET t == Head(head)
          IN  /\ schedule_status' = [schedule_status EXCEPT ![t] = "RUNNING"]
              /\ wait_sem' = IF sched = "post" THEN [wait_sem EXCEPT ![t] = @ + 1] ELSE wait_sem
              /\ pend' = IF sched = "cont" THEN Kill(t, SIGCONT) ELSE pend
              /\ UNCHANGED corrupt
  /\ UNCHANGED <<schedule_policy, head, mutex, task, susp, usr2, count, raced>>

(* schedule_runner ends; a signal it has not been delivered is lost.       *)
schedule_runner ==
  /\ sched = "idle" /\ finished_task = goal
  /\ sched' = "exit"
  /\ UNCHANGED <<queue, task, susp, pend, usr2, count, raced, corrupt>>

task_runner(t) ==
  \/ add_task_begin(t) \/ add_task_insert(t) \/ SemWait(t)
  \/ delete_task_lock(t) \/ delete_task(t) \/ CountRead(t) \/ CountStore(t)
  \/ thread_wait_sighand(t) \/ Suspends(t) \/ thread_cont_sighand(t)

Next ==
  /\ sched # "crashed"
  /\ \/ \E t \in Tasks : task_runner(t)
     \/ sched_run_sighand \/ sched_run_acts \/ schedule_runner

Spec == Init /\ [][Next]_lvars /\ WF_lvars(Next)

-----------------------------------------------------------------------------
(* The list stays in the order of the policy: the whole of it when the     *)
(* policy is preemptive, what waits behind the head when it is not.        *)
ListOrdered ==
  LET from == IF schedule_policy \in {"SJF_PEM", "PRIORITY_PEM"} THEN 1 ELSE 2
  IN  \A i, j \in from .. Len(head) :
        i < j => CASE schedule_policy = "FCFS" -> TRUE
                   [] schedule_policy \in {"SJF_PEM", "SJF_NOT_PEM"} -> Shorter(head[i], head[j])
                   [] OTHER -> Higher(head[i], head[j])

(* The list holds no node twice, and as many as there are tasks between    *)
(* add_task and delete_task, even after the wrong one was freed: so        *)
(* delete_task, which does not look, always finds a node to remove.        *)
ListCounts ==
  /\ \A i, j \in DOMAIN head : head[i] = head[j] => i = j
  /\ Len(head) = Cardinality(InRound)

Sound == ~raced /\ ~corrupt
Settled == Quiet /\ mutex = 0

Active(t) == task[t] = "run" /\ susp[t] = "no"

(* Once every signal is delivered, the task at the head of the list runs   *)
(* and no other task in it does, as long as no two signals have crossed    *)
(* and no node was freed by another task than its own.                     *)
HeadRuns ==
  Sound /\ Settled /\ head # <<>> =>
    \A i \in DOMAIN head :
      IF i = 1 THEN Active(head[1]) \/ (task[head[1]] = "sem" /\ wait_sem[head[1]] > 0)
      ELSE ~Active(head[i])

(* The list stays in the order of the policy while tasks come, sleep and   *)
(* end, and has a node for every one of them, whatever signals cross; and  *)
(* while none has crossed the task at its head runs, and only it, once all *)
(* signals are delivered.                                                  *)
ScheduleKept == ListOrdered /\ ListCounts /\ HeadRuns

(* Every task ends, unless signals crossed, memory was misused or the      *)
(* scheduler thread read a wrong number of tasks; and after the last round *)
(* it ends too, when no two tasks counted themselves at once.              *)
Finished ==
  \/ ~Sound
  \/ goal # TasksLeft
  \/ /\ \A t \in Tasks : task[t] = "exit"
     /\ sched = "exit" \/ finished_task < TasksLeft

(* "The node of the task that has ended is the head of the list"           *)
(* (scheduler.c:272, Labwork16.md:340): delete_task frees the node of the  *)
(* task that calls it.                                                     *)
FinishedIsHead ==
  \A t \in Tasks : task[t] = "deleting" => head # <<>> /\ Head(head) = t

(* finished_task is "the number of tasks that are done" (scheduler.c:38).  *)
CountExact ==
  (\A t \in Tasks : task[t] = "exit") => finished_task = Cardinality(Tasks)

(* "When the number of tasks done is that of all tasks, the scheduler      *)
(* thread ends" (scheduler.c:85), and not before.                          *)
SchedulerStays == sched = "exit" => \A t \in Tasks : task[t] = "exit"
=============================================================================
