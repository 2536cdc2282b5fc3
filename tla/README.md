# Operating-System-Homework: a TLA+ verification project

The repository is a term of operating-system coursework: C programs for one
topic each (processes, shared memory, message queues, sockets, threads, locks,
deadlock avoidance, scheduling, paging, disk scheduling) and two ucore kernel
labs. It is not one program, so the project is a set of components. Each part
with logic of its own and behaviour that is hard to test gets a module;
demos of a single system call do not.

The source line of every definition is in `PROJECT.json` (`map`), with the
hazards of the code and the properties that answer them (`hazards`).

## 1. Inventory

| Component (source) | State | Operations | What is hard | What makes it correct |
|---|---|---|---|---|
| Producer-consumer (`Labweek15/alg.18-6,7,8`) | `struct ctln_pc_st` in shared memory: counters, positions, END_FLAG, three process-shared semaphores; the circular buffer | `producer`, `consumer`, the two mains, the controller | two processes of threads; loop tests read shared state outside the mutex; wake-ups at the end | no overwrite, each item once and in order, semaphore accounts balance, everybody exits |
| Thread pool (`Labweek15/threadpools.c`, first version `Labweek13/threadpools.c`) | circular task queue, `taskSum`, a semaphore | `executeTask`, `addTask`, `main` | main adds without the lock; exit decided by two reads; sleeping with the lock held | each task once, FIFO, no early exit, termination |
| Filter lock (`Labweek14/alg.15-1-peterson-counter.c`, `shmwrite.c`, `shmread.c`) | `level[]`, `waiting[]`, `counter` | `ftn`: climb, critical section, leave | plain reads and writes; a scan of values that change | mutual exclusion, no starvation |
| Shared-memory hand-off (`Labweek14/shmcon.c`, `shmwrite.c`, `shmread.c`) | `written`, one text | write when 0, read when 1 | busy waiting inside the critical section, two processes | every text read once, both sides end |
| Banker (`Labweek15/alg.17-1-bankers-5.c`) | `available`, `need`, `allocation` | `resource_request`, `safecheck` | greedy search, long sequences of grants | every state safe, nothing refused needlessly |
| ucore physical memory (`Labweek11/lab2/kern/mm/default_pmm.c`, `page_init` of `pmm.c`) | free list, `nr_free`, page flags | init, alloc, free | splitting and merging on a list that is not sorted | no page lost or handed out twice, no fit missed |
| ucore page tables (`Labweek11/lab2/kern/mm/pmm.c`) | page directory, entries, reference counts, TLB | `get_pte`, `page_insert`, `page_remove` | counts, frees and the TLB change together | count = mappings, no mapped page free, TLB coherent |
| BBS chat server (`Labweek9/alg.11-5-*`) | per client status and nickname, `max_sn`, pipes | accept, nickname, list, private, broadcast, leave | processes joined by pipes; messages overtake each other; full pipes | unique nicknames, everybody hears the same conversation |
| BBS chat client (`Labweek9/alg.11-4`, `alg.11-3`) | a fifo, two processes, the connection | type, send, receive, quit | whichever process ends first kills the other; the fifo is full | lines sent in order, nobody is left over |
| Task scheduler (`Labweek16/scheduler.c`) | task list, statuses, `finished_task` | `add_task`, `delete_task`, signal handlers | signals to threads, an unlocked counter, the list read in a handler | one task runs, policy order, all finish |
| Shared list and heap (`Labweek7`) | an array that is a heap by position and a list by its links, in shared memory; a flag | insert, push, pop, search, modify | neighbours in the list are exchanged by the heap; test and set of the flag in two steps; re-initialisation | heap order, list order, nothing lost |
| Shared circular buffer (`Labweek6/shm*.c`) | front, rear, texts | write, read, `end` | no lock, one writer and one reader | FIFO, both end |
| Message queues (`Labweek8`) | kernel queue | send, receive, remove | an empty poll taken for the end | every message received |
| Page replacement (`Labweek17`), disk scheduling (`Labweek18`) | frames, stacks, matrices; head and requests | FIFO, LRU (two ways), second chance; FCFS to C-LOOK | pure algorithms with boundary cases | equal to their definitions |
| ucore console, traps, interrupts (`Labweek1/lab1`, `Labweek11/lab2`: `kern/driver`, `kern/trap`, `kern/init`) | screen and cursor, interrupt masks, the input ring, keyboard flags, privilege level | `kern_init`, `cons_putc`, `trap_dispatch`, `cons_getc` | handlers print into a screen that is being written; masks set before the controller; multi-byte keys split over interrupts | no output lost, interrupts on only when they can be handled, every key decoded |
| ucore boot loader, debugging, C library (`boot`, `kern/debug`, `libs`, `kern/libs`) | | `bootmain`, `printnum`, `strtol`, `debuginfo_eip`, `readline`, `parse` | whole sectors over neighbours; a binary search in a mixed table; limits of buffers | the image loaded, numbers read back, the right line found |
| Course demos; assembly exercises | | | | not modelled, see 7 |

Interactions: the controller of producer-consumer starts the two processes and
waits for them, all three share one memory segment; the pool's main and workers
share the queue; the page tables call the physical memory manager for page
tables and when the last mapping of a page goes; the chat server's main forks
one process that routes messages and one receiver for each client; the client's
terminal, parent and child are joined by a fifo and by the signals with which
they end each other; the scheduler's tasks and its own thread share the list
under a mutex and otherwise talk by signals; the programs of Labweek6, 8 and 14
are a controller and two children around one shared object.

## 2. Modules

| Module | Models | Extends / instantiates |
|---|---|---|
| `BoundedQueue` | abstract: a FIFO queue of limited capacity whose items are numbered in the order they are put | |
| `ProducerConsumer` | producer-consumer | refines `BoundedQueue` |
| `ThreadPool` | both pools (`UseMutex`) | refines `BoundedQueue` |
| `FilterLock` | the lock with both numberings of threads (`Base`) | |
| `Banker` | the banker | |
| `DefaultPmm` | `page_init` and the first-fit manager as functions of its state | |
| `PageTable` | page tables and the kernel's calls of the manager | `DefaultPmm` |
| `MinHeap` | heap and list of Labweek7 as functions of the array | |
| `StudentHeap` | every sequence of operations on one heap, in both versions (`Pointer`) | `MinHeap` |
| `SharedHeap` | the processes that share it | |
| `TwoChildren` | the controllers of Labweek6 and 8 | |
| `ShmQueue`, `Mailbox`, `PosixQueue` | the circular buffer, the one-place mailbox, the POSIX queue | `TwoChildren`; `ShmQueue` refines `BoundedQueue` |
| `MsgQueue` | the System V queue programs | |
| `HandOff` | the writer and reader processes of Labweek14 | |
| `Scheduler` | one round of the scheduler, any policy | |
| `ChatServer`, `ChatClient` | the BBS | |
| `PageReplacement`, `DiskScheduling` | the two simulators | |
| `Kernel` | ucore from `kern_init` to its idle loop, lab1 and lab2 (`lab`) | |
| `ConsoleInput` | the input half of the console driver | |
| `KernelTools` | the sequential algorithms around the kernel | |
| `Simulators` | one of heap, paging, disk, chat, shared heap, input, tools per behaviour | those modules |
| `Programs` | one of the programs that end per behaviour | those modules |
| `ProofLemmas` | facts that several proofs use: circular positions, induction, recursive functions | |
| `ProducerConsumer_proofs`, `ThreadPool_proofs`, `FilterLock_proofs`, `Banker_proofs`, `Programs_proofs`, `Simulators_proofs` | theorems about the module of that name | that module, `ProofLemmas` |
| `PageTable_proofs` | theorems about `DefaultPmm` and `PageTable` | `PageTable`, `ProofLemmas` |
| `MCPrograms`, `MCSimulators`, other `MC*` | instances for TLC | |

Definitions whose comment says "mutant" are plausible bugs of the
operation that follows them; replacing the operation by its mutant must break
the property named for it in `PROJECT.json`. They are no part of the
specifications.

How state and actions correspond to the code:

* **ProducerConsumer.** The variables are the fields of `struct ctln_pc_st`,
  the item numbers in the buffer and a program counter for each thread and
  main. One step is one semaphore operation, one read of shared memory outside
  the mutex (`PCheck`; `CReadConsumed`, `CCompare`, `CReadFlag` for the parts of
  the consumer's test), or the statements between two such points under the
  mutex (`PProduce`, `CTake`). `taken` records what the consumers printed.
  Semaphores are external: `sem_wait` blocks at zero, `sem_post` never does.
* **ThreadPool.** main takes no lock, so every access to `front`, `rear`,
  `taskSum` or a slot is a step, `taskSum--` being a read and a write.
  `UseMutex = FALSE` makes the semaphore operations empty, which is
  Labweek13's `executeTask`.
* **FilterLock.** Every read and write of `level`, `waiting` and `counter` is a
  step of a sequentially consistent memory. `killed` is the effect of the
  code's own check, `kill(getpid(), SIGKILL)`.
* **Banker.** One action for a request that is granted, one for a refused one.
  `safecheck` is the code's search, `Select` repeated once for each process;
  its reference definition is `IsSafe`, which tries all orders.
* **DefaultPmm, PageTable.** The manager runs with interrupts off on one
  processor, so a call is one step. A block of the free list is its head page
  and its `property`; the `property` of any other page is never read.
  `default_free_pages` walks the list once in list order and merges as it goes,
  as the code does. `PageTable` adds the directory, the entries and the TLB; a TLB fill
  (`Walk`) is the processor's and external. `held` are the pages that kernel
  code got from `alloc_pages`; it may free part of a run (as `default_check`
  does) but no page that is mapped.
* **MinHeap, StudentHeap.** The static list is an array of nodes; a node's place
  in the array is its place in the heap, and its links are its place in the list.
  Each C function is an operator from one heap to the next; `swapHeapNode`,
  with its cases for neighbours in the list, is `Exchange` and `HeadOf`.
  `StudentHeap` lets every sequence of operations happen that the test programs
  are one example of.
* **SharedHeap.** Every access to `lock`, `size` and `operation_time` is a step:
  the three writes with which each process initialises the struct, the test of
  `lock` and its setting, and the read and the write of each `++` (`saw` is what
  was read). The count of the processes that left is read again after its
  increment, and what was read decides on the removal.
* **TwoChildren and its users.** Every call of a controller and its children that
  can fail has both outcomes, and ends the process that made it. The copy of a
  text and the setting of an index or flag are steps of their own.
* **MsgQueue.** `Send` blocks on a full queue, `Miss` is the receiver's poll that
  finds nothing, and what it reads with `IPC_STAT` (`qnum`) may be old when
  the user answers (`Ask`). A child of `vfork` whose `execv` fails returns from
  `main` on the parent's stack: no receiver, and the sender goes on or crashes.
  The sleeps of 2 s and 3 s are least times and order nothing.
* **HandOff.** `FilterLock` has shown that the lock of these programs can admit
  two threads. Entering is therefore not guarded; `overlap` records that two
  were inside, and then the program's own check may kill the process.
* **Scheduler.** Signals are sent (`pend`, `usr2`) and delivered later, two of a
  kind merging. `thread_wait_sighand` is entered and then suspends, so that a
  SIGCONT can come too early. `raced` and `corrupt` record that signals crossed
  and that a wrong node was freed; a round goes on after both. A task whose node
  was freed may pass its semaphore at any time, and a handler that follows a null
  head ends the process. `goal` is what `schedule_runner` read as the number of
  tasks, times the rounds: the right one, or, through a pointer to a parameter
  that is gone, anything in `Stale` for that policy's round. `finished_task` counts from the beginning of
  the round, so that only the last policy's round ends the scheduler's thread.
* **ChatServer.** Each pipe is a sequence, each loop of `pipe_data` an action per
  message. The socket, the receiver's buffer and its pipe are one queue for each
  client. A pipe holds `PipeMax` messages; before `O_NONBLOCK` is set a write to
  a full one blocks.
* **ChatClient.** A terminal's write to a full fifo is not repeated. Whatever
  the server does to the connection is external.
* **PageReplacement, DiskScheduling.** The four, and six, algorithms run side by
  side, or one after the other, on the same input.
* **Kernel.** `cga_putc` is cut where an interrupt can fall: the read of
  `crt_pos`, the store, the scroll. Handlers are one step (interrupt gates). In
  lab2 `cons_putc` runs with interrupts off, in lab1 it does not. `roll` is what
  was printed, on paper without an end, of which the screen is the last rows.
* **ConsoleInput.** A step is one round of a loop: `serial_intr` and `kbd_intr`
  take one byte of their device, `SerialEmpty` and `GrabChar` are where
  `cons_getc` goes on (`polling`), and bytes arrive in between. Every byte carries
  what the user meant by it (`means`), and `waiting` what those read and not yet
  taken from the ring mean. One key of every kind stands for the tables.
* **KernelTools.** Each function is called once on every small input.

## 3. Runs

| Run | Instance | Shows |
|---|---|---|
| `pc` | 2 producers, 2 consumers, 2 slots, 3 items; 25,333 states | accounts, no overwrite, order, refinement of `BoundedQueue`, exit once the last item is taken |
| `pc_lost` (violation) | 1 producer, 1 consumer | `NothingLeftBehind` fails, see 4 |
| `pool` | 3 workers, 3 slots, 4 tasks; 8,830 states | each task once, no early exit, refinement of `BoundedQueue`, termination |
| `pool_nolock` (violation) | Labweek13's pool | a task runs twice |
| `filter` | 3 threads; 13,331 states | mutual exclusion, one thread stays back at each level, everybody gets through |
| `filter_shm` (violation) | 2 threads numbered from 1 | two threads in the critical section |
| `banker` | 3 processes, 2 types, requests from -2 to 4; 7,018 states | conservation, safety, exactness of `safecheck` |
| `memory` | 7 pages (5 usable in two ranges, or 4 in one), 3 linear pages in 2 tables, 2 permissions, runs of up to 3 pages; 118,580 states | pages accounted for, no fit missed, no assertion fails, counts and TLB right |
| `memory_order` (violation) | same | the free list is not in address order |
| `simulators` | 5 students with 3 ids; 4 pages in 3 frames; 3 requests on 5 cylinders; 2 clients, 2 messages per pipe, 3 lines; 3 processes; 4 key or serial events on a ring of 3; images of 12 bytes, command lines of 6 keys; 1,506,589 states | heap, list and search; LRU by list = LRU by matrix = the pages last used; second chance; order of service and seek distances; names and conversation; when the shared heap is removed; input and tools |
| `heap_pointer` (violation) | 5 students, the version with pointers | the root is not the least |
| `programs` | 5 texts on 2 slots; file of 3 lines, queue of 3; 2 threads a side; 3 tasks, 5 policies, a 0 read for the number of tasks; 3 typed lines, fifo of 2; 2 interrupts on a screen of 2 by 2, both labs; 784,000 states | nothing out of order or twice; the scheduler's list and its head; output and interrupts; refinement of `BoundedQueue`; every program ends |

Why the bounds are enough: three items on two slots make the positions wrap,
producers come too late and consumers find nothing; four tasks on three slots
(two usable) fill the queue and wrap it; three threads give two levels, so a
thread can be kicked out, climb and be overtaken; three processes with claims
that compete for both types give safe and unsafe requests that both pass the
first checks; five free pages are the fewest in which a split puts a block out
of order, and with three-page runs a free can merge on neither side, one side
or both. Two linear pages share a page table and a third has its own, so a page
can be mapped twice and a page table can be missing when memory is exhausted.
`banker` bounds a request by `MaxReturn` and `MaxEntry`, and what a process may
have given back beyond what it held by `MaxOwed`: entries up to the whole
of the larger resource are tried, more than any claim on the other, and returns
of one unit and of two, also by a process that holds nothing.
Five students give a heap of three levels, in which a father, his son and a
stranger can be neighbours in the list in every order; four pages on three
frames fault for ever; five cylinders have a head inside, outside and on either
end of the requests. Two clients can meet in every order of accepting, naming and
talking, and a pipe of two fills. A screen of four cells scrolls at nearly
every line; two interrupts can both fall into one character. Four events hold
Ctrl, Alt and Del and split their bytes over interrupts, and three serial
characters overflow the ring. Five texts wrap the ring of three slots; three
tasks of different lengths, two of one priority, preempt, tie and wait, and one
can be freed by a second while a third is being put into the list. Three
processes of the shared heap can be one inside, one that starts and one that
leaves; two operations fill the heap to its goal and empty it again, and there
are more of them when counts are lost.

Deadlock is not checked where the programs end (`pc`, `pool`, `filter`,
`banker`'s quit, `simulators`, `programs`); `AllExit`, `Terminates`,
`EveryThreadLeaves` and `EveryoneEnds` take its place.

Fairness: weak fairness of each thread and each main. The threads are
kernel-scheduled with the default policy, which runs every runnable thread
again and again; a thread that can take a step and keeps being able to does so.
Strong fairness is nowhere assumed: a waiter on a semaphore could be overtaken
for ever, and the liveness properties hold without it because the number of
items or tasks is finite. `programs` assumes less: weak fairness of the whole
next-state relation (some process that can move does), which is enough because
these programs cannot move for ever, and in addition of the client's own
processes, whatever the terminal and the server do, and of the kernel's thread,
whatever interrupts come. Busy waiting is not a step.

## 4. Findings

* `pc_lost`: the consumer's test `(consume_num < item_num) || (END_FLAG == 0)`
  reads the counters, then the flag. The last item and the flag can both come
  in between: the consumer leaves with items in the buffer.
* `pool_nolock`: without a lock two workers copy the task at the same `front`.
* `filter_shm`: threads are numbered from 1, the scan covers 0 to n - 1. The last
  thread is invisible, and the program's own assertion fires.
* `memory_order`: `default_alloc_pages` puts the rest of a block at the front of
  the list; the report says the list is kept in address order. Memory is not
  lost by it (`PagesAccounted`, `NoFitMissed`).
* `heap_pointer`: in the version with pointers `popHeap` stops after its first
  exchange, and the heap's root is no longer the least.

Further claims of the repository that the code does not keep. Each is a
definition of the module named, with the lines it quotes, and no run of its own:
made an invariant (`LineTakenLater`: a property) of that module's `Spec`, with the
constants of the run that has the module, TLC refutes it. The properties of
the runs say what holds in its place.

| Claim | The repository says | What the model reaches | What holds |
|---|---|---|---|
| `OneInside` (`SharedHeap`) | `ipc-shmcon.h:39`: `lock` lets one process at a time into the shared memory; `ipc-shmcon.c:136`, `Labwork7.md:7,37` | the test of `lock` (132) and its setting (137) are two steps, and each process that starts clears it (126) | |
| `RemovedLast` (`SharedHeap`) | `ipc-shmcon.c:166`: released after all processes have left | `lock` also counts who has left (159), and the 1 of a process inside counts as one of them | `RemovedLate`: one process early at most |
| `QuitForGood` (`ChatServer`) | `BBS-3.c:91-92`: first EMPTY to NORMAL, then NORMAL to ENDED | a `#0` is handled before the status (135), which then revives the client | `ConversationKept`: with nicknames who quit stays out |
| `NamesDistinct` (`ChatServer`) | `BBS-3-nickname.c:224,227`: an occupied name is refused, "whatever ENDED or not" | the search (223) ends at a `max_sn` that main sends after the fork (577) | `NicknamesUnique`: there is no other way to it |
| `OneSweepDistance` (`DiskScheduling`) | `Labwork18.md:811`: LOOK and C-LOOK move the same distance when one sweep serves all | from a head above all requests LOOK adds their span first (`HDD_scheduling.c:319`); C_LOOK adds it for a jump to nowhere (443) | `DiskSound`: LOOK is right from any other start |
| `JumpUncounted` (`DiskScheduling`) | `Labwork18.md:830`: requests for 53 and 43 with the head at 53 give C-LOOK a total of 0 | C_LOOK counts the jump (443) and reports 10 | `DiskSound`: the requests are served in turn |
| `LineContains` (`KernelTools`) | `kdebug.c:39-40,50`: the entry found contains `addr` | after an exact match the search goes on with `addr + 1` (99) and takes an entry that starts there | `ToolsSound`: function, file and number of arguments are right |
| `ArgvInBounds` (`KernelTools`) | `kmonitor.c:51`: "Too many arguments (max %d)" | `parse` prints this and stores on, past the end of `argv` (53) | |
| `FinishedIsHead` (`Scheduler`) | `scheduler.c:272`, `Labwork16.md:340`: the finished task is the head of the list | a task that waits for the mutex in `delete_task` is overtaken by one put before it, and frees its node (273) | `ScheduleKept`: the list keeps order and number |
| `CountExact` (`Scheduler`) | `scheduler.c:38`: `finished_task` is the number of finished tasks | `finished_task++` (339) is outside the mutex: two tasks count once | |
| `SchedulerStays` (`Scheduler`) | `scheduler.c:85`: the thread ends when all tasks are finished | the number of tasks is read (84) through a pointer to a parameter that is gone (118); a 0 ends the thread at once | |
| `ReadToTheEnd` (`MsgQueue`) | `Labwork8.md:118`: `msgrcv` does not exit with messages still to be written | the first poll that finds nothing ends it (`msgrcv.c:49`); only two sleeps keep the sender ahead | `MessagesKept`: what is received is in order, once |
| `LineTakenLater` (`ChatClient`) | `alg.11-3-socket-input-2.c:65,68`: sleeps and "try again" | the next line is read over the one that did not fit (64) | `MessagesKept`: the lines taken are sent in order |

Met while modelling, denied by no line of the repository and therefore part of
the models and of what the properties allow:

* Heap, version with pointers: `headIndex` is stale after a pop that empties the
  heap, growing the array adds no free indexes, and a push on an empty heap
  writes before the array.
* Shared heap: a process that starts empties the heap under the others, and their
  counts of operations overwrite each other.
* Chat: with nicknames, a line that comes before its client's status is dropped.
* Mailbox: the text "end" may be taken for the one before it and never be
  printed; `shmread.c` itself calls its flag "not reliable".
* Scheduler: a SIGCONT before its `sigsuspend` leaves a task stopped, and the
  handler may follow a null head.
* Banker: a negative request gives back units that nobody held. The tables still
  balance (`Conserved`), but a process with less than nothing takes units
  away when it ends, and then `safecheck` can refuse what some order allows
  (`NeverTooStrict` leaves those requests out).
* lab1's `cons_putc` is torn by an interrupt whose handler prints (`torn`).
* The input ring never looks at `rpos`: CONSBUFSIZE waiting characters make it
  empty (`lost`). Releasing one of two Ctrl keys clears the flag of both.
* A minus sign is printed before the padding.

## 5. Proofs

Every theorem holds for all values of the constants that the named assumptions
allow. The assumptions are those of the code's own input loops and
declarations; TLC evaluates them on the instances of the runs.

| Module | Theorem | Statement | Assumes |
|---|---|---|---|
| `ProducerConsumer_proofs` | `TypeCorrect`, `Exclusion`, `Accounting`, `NoOverwrite`, `ExactlyOnceInOrder` | `Safe => []` of `TypeOK`, `MutualExclusion`, `SlotsConserved /\ StockConserved`, `StockIntact`, `TakenInOrder` | `Inputs`: finite, disjoint sets of threads that are not empty, positive numbers of slots and items |
| | `Implements` | `Safe => QueueSpec` | |
| `ThreadPool_proofs` | `EachTaskOnce`, `NobodyLeavesEarly`, `ImplementsQueue` | `Spec =>` `[]AllFinished`, `[]NoEarlyExit`, `QueueSpec` | `PoolSizes`, and `UseMutex` (the pool of Labweek15; `pool_nolock` shows that Labweek13's has none of this) |
| `FilterLock_proofs` | `LevelsFilter`, `Exclusion`, `NeverKilled` | `Spec => []` of `OneStaysBack`, `MutualExclusion`, `NotKilled` | `ThreadCount`, and `Base = 0` (the numbering of `peterson-counter.c`; `filter_shm` refutes the other) |
| `Banker_proofs` | `UnitsConserved`, `NeverUnsafe`, `GreedySearchExact` | `Spec => []` of `Conserved`, `AlwaysSafe`, `NeverTooStrict` | `Claims`: no claim exceeds the resources |
| `PageTable_proofs` | `NoPageLost`, `AssertionsHold`, `CountsMappings`, `NoStaleTranslation` | `Spec => []` of `PagesAccounted`, `NoPanic`, `RefCounted`, `TLBCoherent` | `Layout`, `Firmware`, `Linear`: usable ranges are disjoint, linear pages finitely many |
| | `FirstFitFinds` | `Spec => []NoFitMissed` | and that no two usable ranges touch |
| `Programs_proofs` | `RingIsQueue` | `Spec => ShmQueueSpec` | `Sizes` |
| | `NothingLost` | `Spec => []MessagesKept` | `Sizes` |
| | `ListKeptInOrder` | `Spec => []ScheduleKept` | `Input`: a burst time and a priority for every task |
| | `ScreenIsKept` | `Spec => []KernelSound` | `Display`: a screen of at least one row and one column |
| `Simulators_proofs` | `RemovalWaits` | `Spec => []RemovedLate` | `Inputs`: finitely many processes |
| | `FramesAreSound`, `LRUKeepsLast`, `SecondChance` | `Spec =>` `[]FramesSound`, `[]LRUExact`, `SecondChanceGiven` | `Sizes`: at least one frame; `Inputs`: pages are numbers |
| | `NamesUnique`, `Conversation` | `Spec => []` of `NicknamesUnique`, `ConversationKept` | `Sizes` |
| | `TypedComesOut` | `Spec => []InputSound` | `Sizes`: a ring of at least one slot |
| | `ListStaysSound`, `HeapStaysSound`, `OrderStays` | `Spec =>` `[]ListSound`, `[]HeapSound`, `ListOrderKept` | `Inputs`: ids are integers; and `Pointer = FALSE` (the array versions; `heap_pointer` refutes the heap of the other) |

No listed property is inductive alone. What each proof adds, and why:

* **ProducerConsumer.** `TypeOK` bounds `emptyslot` by `BUFFER_SIZE` and
  `sem_mutex` by 1, which needs the semaphore accounts; a producer overwrites
  nothing because its claim on a slot is part of `SlotsConserved`, and that
  account is kept only if one thread at a time is in the mutex. So

      IInv == TypeInv /\ MutexInv /\ SlotsConserved /\ StockConserved /\ Ring /\ TakenInOrder

  where `Ring` says that `enqueue` and `dequeue` are the counters modulo
  `BUFFER_SIZE` and that unit `j % BUFFER_SIZE` holds item `j` for every item
  made and not taken. `Implements` maps `PProduce` to a put, `CTake` to a get
  and every other step to stuttering.
* **ThreadPool.** main adds without the lock, so the argument is the ring's: it
  has one writer, and at most one worker is inside (`LockInv`); `RingInv` ties
  `front` and `rear` to the numbers of tasks removed and added. A worker leaves
  on two reads at different moments; that is sound because `SumInv` makes
  `taskSum` the number of tasks still to be removed, less one that is announced.
  `RunInv` says which task each worker owes, hence that each is run once.
* **FilterLock.** A scan reads `level` one entry at a time while the entries
  change. `ScanInv` keeps what a scan has seen: it stays true of every thread but
  those that came to the level and have not reached the waiting room; `RoomInv`
  says that a thread pushed out of a waiting room was followed by one that is
  still in it. From these, `BackInv`: some thread stays back at each level that
  two have reached. Counting the levels down, by induction over them, leaves one
  thread for the critical section.
* **Banker.** `NeverUnsafe` needs that `safecheck` finds an order when it says
  so; `GreedySearchExact`, that if any order exists the greedy selection never
  gets stuck: the first process of the order not selected yet could always end,
  because what is available only grows while no holding is negative. Both are
  inductions over the number of selections, with partial sums over the processes.
* **DefaultPmm.** `Sound` is the manager's invariant: the free list has no
  repetition, its blocks are disjoint and inside memory, `nr_free` counts their
  pages, `PG_property` marks their heads, nothing has panicked. `page_init`,
  `default_alloc_pages` (with a rest put in front) and the one walk of
  `default_free_pages` keep it; the lemma on the walk says that at each place the
  growing block and what is left of the list are the free pages, and that it
  ends with no free neighbour if there was no touching pair before.
* **PageTable.** `Consistent` puts every usable page in one place, says that an
  entry lies in a table that exists and maps a held page, and equates the counts
  with the mappings. It is stated of values and not of variables because
  `page_insert` passes through `get_pte`, the count and `page_remove_pte` in one
  step, and in between a page may have one mapping less than its count.
* **Programs.** One invariant for each program. The ring without a lock
  (`ShmInv`): rear follows the texts published, front the texts gone past, and the
  text being written is in a slot no reader can reach; writing it maps to
  stuttering, moving rear to a put, printing to a get. The mailbox (`MailInv`): the
  flag says whether the text in it has been printed. The POSIX queue (`PosixInv`):
  at most the last message is in it. The System V queue (`SysVInv`): received,
  queued and dropped lines partition those sent, each part in order, and what the
  receiver still wants is newer than what it has; it relates the `qnum` the
  receiver has read to a queue that has changed since. The hand-off (`HandInv`):
  until two threads of a process are inside together, the flag says whose turn it
  is. The client (`ClientInv`): what was sent, the line in the parent's hands and
  the fifo make up what the fifo took.
* **Scheduler.** `ListOrdered` needs that each insertion puts the node behind all
  that may stand before it and before the first that may not (`InsertedPlaces`),
  for each policy. `NodesInv` counts: the list has no node twice, none of a task
  that is not inserted yet, and as many as there are tasks between `add_task` and
  `delete_task`. It is kept when the wrong node is freed, because the caller
  leaves the round and one node leaves the list, whichever. Both hold after any
  race. For `HeadRuns`, `TurnsInv` follows the signals: every task behind the head is stopped, or is about to stop, and no
  SIGCONT is on its way to it; the head is going or is being woken, except from the
  moment an arriving task stops it until the scheduler's thread has acted, when it
  is stopped and the status that thread reads fits what it must do. A task that
  ends with a SIGUSR1 still on its way breaks this; such a round (`Doomed`) races
  when the signal arrives and is never quiet if it does not, so that the property
  says nothing of it.

* **Kernel.** `BootInv` says which interrupts are enabled at each step of
  `kern_init`, and that the table of gates is there before they are; `FlagInv`,
  that `cons_putc` restores the flag it found and that in lab2 no interrupt comes
  while it works. `ScreenInv` says that the screen is a window on the roll: cell
  `i` is the roll's cell `top * CRT_COLS + i`, and nothing is printed below it.
  Between the store that leaves the last row and the scroll this is not so; there
  it holds of the screen as it will be scrolled, the state the handler of
  an interrupt finds in lab1.
* **SharedHeap.** `RemovedLate` bounds `lock` by the number of processes that have
  left, plus 1. It needs a bound on what a process has read and not yet
  written (`SharedInv`): whoever is about to add to `lock` has not left yet and
  read a value within the bound of that moment, and the number only grows.
* **PageReplacement.** Each algorithm has an invariant of its own. `FifoInv`,
  `ClockInv`: free frames come behind the pointer, so a page is dropped only when
  none is free. `StackInv`: the list of frames from the one used longest ago to the
  last one spells the end of the sequence of pages by last use (`recent`).
  `MatrixInv`: the matrix has a one where the column's frame is not later than the
  row's in that list, so the first row with the fewest ones is that of the list's
  head; the two ways of LRU then choose the same frame at every fault, and both keep
  exactly the pages last used.
* **ChatServer.** `NumberInv`: the numbers on their way to `pipe_data` only grow.
  `NameInv`: as long as nobody has taken a name too early (`lagged`), only
  clients up to `max_sn`, which are those the search looks at, have a name.
  `FreshInv` and `ToldInv` follow a client from before it is accepted to when its
  status arrives: until then nothing has been written to its pipe. `PipeInv`: the
  public messages in a client's pipe are those from the last it heard to the last
  one sent, in ascending order.
* **ConsoleInput.** The user presses keys long before the driver reads their bytes.
  `KeysInv` therefore gives the driver's flags at every byte on its way (the
  sequence `H` of `Decodes`): with those flags each byte is decoded as it was
  meant, and after the last one they are what the keys held down make them. A new
  key appends to the sequence, a byte that is read drops its first member.
  `RingInv`: the slots from `rpos` on hold what is waiting.
* **MinHeap, StudentHeap.** `HeapInv` keeps two views of the array together.
  `Holds(heap, z)`: there is an order `w` of the live slots along which the forward
  and the backward links run (`Links`) and which spells the students `z`, the head
  is its first slot, and the stack holds the free slots in order. `HeapFrom`: no
  student below a given slot is smaller than its parent. `Exchange` changes up
  to twelve links; `ExchangeLinks` shows that what comes out are the links of
  `w` with the two slots renamed, whether or not they are neighbours, so `z` stays
  as it was. A loop downwards keeps the order of the heap except around one slot
  whose student may be too large (`Sinking`), one upwards except around one whose
  student may be too small (`Rising`); a round moves the slot or the loop is at
  rest, so that as many rounds as there are slots suffice. That the student popped
  has the smallest id follows from the order of the heap (`RootLeast`), and
  the searches are complete because every live slot but the root is a child of an
  earlier one.

Each invariant was checked by TLC on the run's instance before it was proved,
except that of the heap, which quantifies over all sequences of students: there
TLC checks `ListSound` and `HeapSound`, which compute the order by walking the list.

Induction. The prover cannot instantiate a theorem that takes an operator, so
induction is done over sets of numbers: `UpToInduction` (a set that contains 0 and
with `n` also `n + 1` contains `0 .. b`) and, for recursive functions,
`IterateExists` (a function defined by its value at 0 and a step exists, hence the
defining equation of the recursive definition holds of it). `safecheck`, the sums
of the banker, the walk of `default_free_pages`, the loop of `page_init` and the
loops, the walk and the search of the heap are reasoned about in this way.

Only model-checked:

* liveness (`AllExit`, `Terminates`, `EveryThreadLeaves`, `EveryoneEnds`): the prover has no rules for fairness and ENABLED;
* the heap of Labweek7 in the version with pointers, whose `popHeap` leaves no heap
  (`heap_pointer`);
* `DiskSound` and `ToolsSound`: they say what sums, sorted sequences and recursive
  conversions (digits of a number, a binary search, lines and arguments) compute,
  for every input; that is induction over data;
* the `violation` runs, which are counterexamples.

## 6. Assumptions

* Memory is sequentially consistent. `peterson-counter.c` uses plain variables
  on x86-64, where a store can be delayed past a later load: `filter` says
  nothing about that (a hazard on the list).
* System calls succeed, except those whose failure the model names
  (`alloc_pages` returning NULL).
* The usable ranges the firmware reports do not overlap (`Firmware`): overlapping
  ones fail an assertion of `default_init_memmap`. That they do not touch is
  needed only for `NoFitMissed`: `default_init_memmap` merges nothing, so two
  touching ranges would start as two blocks.
* The answer to a request for the list of clients is one message.
* A held key does not repeat; the keyboard sends each press and release once.
* The linker lays the image out so that segments share a sector of memory only
  when they share one of the file.
* The processes of the shared heap that start after its removal have a segment
  of their own and are not followed.

## 7. Not modelled, and why

* Failing `vfork`, `shmget` and `pthread_create` of the producer-consumer
  programs, and input of the banker that is not a number.
* Memory that is not sequentially consistent.
* `boot_map_segment`, the segment set-up, the printing of the tables and the
  self-tests of ucore: fixed sequences of register writes, output and calls.
* The parallel port, the waits for device registers, the assembly of boot and
  trap entry, the panic on an unexpected trap (only the three interrupts that
  are unmasked, and the switches, can occur), the parsing of format strings, the
  walk over the stack, `memcpy` and its like, and the tools that run on the host.
* Printing and menus of the simulators, time in the scheduler.
* The demos of Labweek5, 10, 12, 15 and 16 (one system call each, supplied with
  the course) and the assembly exercises of Labweek2 to 4.

## 8. Plan

1. Done: producer-consumer with its proofs; thread pool; filter lock; banker;
   physical memory and page tables; chat server and client; scheduler; heap and
   shared heap; the shared-memory and message-queue programs; the hand-off; the
   simulators; the ucore console, traps, input, boot loader and tools.
2. Done: the safety properties of producer-consumer, thread pool, filter lock,
   banker, physical memory, page tables, the message-passing programs, the
   scheduler, the kernel's console, paging, the chat server, the shared heap's removal,
   the console's input and the list and heap of Labweek7 are theorems, with the
   three refinements of `BoundedQueue`.
3. Proofs left: the disk algorithms.
4. Models left: `FilterLock` under store buffers; the failing calls of the
   producer-consumer controller.
