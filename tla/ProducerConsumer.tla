-------------------------- MODULE ProducerConsumer --------------------------
(***************************************************************************)
(* The producer/consumer program of Labweek15 (alg.18-6, 18-7, 18-8): a    *)
(* console process creates a shared control block and starts one process   *)
(* of producer threads and one of consumer threads.  A step is one         *)
(* semaphore operation, one read of a shared variable outside the mutex,   *)
(* or the statements between two such points inside the mutex.             *)
(*                                                                         *)
(* A thread that was created and has not yet run is indistinguishable from *)
(* one that is not created yet, so the threads exist from the start.       *)
(***************************************************************************)
EXTENDS Naturals, Sequences, FiniteSets

CONSTANTS Producers, Consumers,  \* THREAD_PRO and THREAD_CONS threads
          BUFFER_SIZE, MAX_ITEM_NUM

\* The console only starts the run with positive inputs (con-6.c:46-64).
ASSUME Inputs == /\ BUFFER_SIZE \in Nat \ {0}
                 /\ MAX_ITEM_NUM \in Nat \ {0}
                 /\ IsFiniteSet(Producers) /\ Producers # {}
                 /\ IsFiniteSet(Consumers) /\ Consumers # {}
                 /\ Producers \cap Consumers = {}

VARIABLES item_num, consume_num, enqueue, dequeue, END_FLAG,
          sem_mutex, stock, emptyslot,  \* semaphores of struct ctln_pc_st
          data,     \* item_no of each unit of the circular buffer, 0: never written
          taken,    \* item numbers the consumers printed, in order
          pc,       \* where each thread is
          seen,     \* a consumer's first read of consume_num at its loop test
          posts,    \* loop counter of the producer process's main
          pmain, cmain, console  \* where the three main functions are

ctl == <<item_num, consume_num, enqueue, dequeue, END_FLAG, data, taken>>
sems == <<sem_mutex, stock, emptyslot>>
mains == <<posts, pmain, cmain, console>>
vars == <<ctl, sems, pc, seen, mains>>

Threads == Producers \cup Consumers

Init == /\ item_num = 0 /\ consume_num = 0
        /\ enqueue = 0 /\ dequeue = 0 /\ END_FLAG = 0
        /\ sem_mutex = 1 /\ stock = 0 /\ emptyslot = BUFFER_SIZE
        /\ data = [i \in 0 .. BUFFER_SIZE - 1 |-> 0]
        /\ taken = <<>>
        /\ pc = [t \in Threads |-> "check"]
        /\ seen = [c \in Consumers |-> 0]
        /\ posts = 0
        /\ pmain = "join" /\ cmain = "join" /\ console = "wait_pro"

At(t, l) == pc[t] = l
Goto(t, l) == pc' = [pc EXCEPT ![t] = l]

(***************************************************************************)
(* Semaphores: sem_wait blocks at zero, sem_post never does.               *)
(***************************************************************************)
Wait(sem) == sem > 0 /\ sem' = sem - 1
Post(sem) == sem' = sem + 1

(***************************************************************************)
(* The producer thread.                                                    *)
(***************************************************************************)
\* while (ctln->item_num < ctln->MAX_ITEM_NUM), read without the mutex
PCheck(p) == /\ At(p, "check")
             /\ Goto(p, IF item_num < MAX_ITEM_NUM THEN "wait_slot" ELSE "done")
             /\ UNCHANGED <<ctl, sems, seen, mains>>

\* Mutant: no wait for a free slot.
PWaitSlotSkipped(p) == /\ At(p, "wait_slot")
                       /\ emptyslot' = IF emptyslot > 0 THEN emptyslot - 1 ELSE 0
                       /\ Goto(p, "wait_mutex")
                       /\ UNCHANGED <<ctl, sem_mutex, stock, seen, mains>>

PWaitSlot(p) == /\ At(p, "wait_slot")
                /\ Wait(emptyslot)
                /\ Goto(p, "wait_mutex")
                /\ UNCHANGED <<ctl, sem_mutex, stock, seen, mains>>

\* Mutant: the mutex is tested and not taken.
WaitMutexTestOnly(t) == /\ At(t, "wait_mutex")
                        /\ sem_mutex > 0
                        /\ Goto(t, "locked")
                        /\ UNCHANGED <<ctl, sems, seen, mains>>

WaitMutex(t) == /\ At(t, "wait_mutex")
                /\ Wait(sem_mutex)
                /\ Goto(t, "locked")
                /\ UNCHANGED <<ctl, stock, emptyslot, seen, mains>>

\* Mutant: item_num is not checked again inside the mutex.
PProduceUnchecked(p) == /\ At(p, "locked")
                        /\ item_num' = item_num + 1
                        /\ enqueue' = (enqueue + 1) % BUFFER_SIZE
                        /\ data' = [data EXCEPT ![enqueue'] = item_num']
                        /\ Goto(p, "set_flag")
                        /\ UNCHANGED <<consume_num, dequeue, END_FLAG, taken, sems, seen, mains>>

PProduce(p) == /\ At(p, "locked")
               /\ item_num < MAX_ITEM_NUM
               /\ item_num' = item_num + 1
               /\ enqueue' = (enqueue + 1) % BUFFER_SIZE
               /\ data' = [data EXCEPT ![enqueue'] = item_num']
               /\ Goto(p, "set_flag")
               /\ UNCHANGED <<consume_num, dequeue, END_FLAG, taken, sems, seen, mains>>

PSetFlag(p) == /\ At(p, "set_flag")
               /\ END_FLAG' = IF item_num = MAX_ITEM_NUM THEN 1 ELSE END_FLAG
               /\ Goto(p, "post_stock")
               /\ UNCHANGED <<item_num, consume_num, enqueue, dequeue, data, taken,
                              sems, seen, mains>>

\* Mutant: the slot is not given back when the re-check fails.
PTooLateKeepsSlot(p) == /\ At(p, "locked")
                        /\ item_num >= MAX_ITEM_NUM
                        /\ Goto(p, "unlock")
                        /\ UNCHANGED <<ctl, sems, seen, mains>>

\* the re-check inside the mutex fails: the slot is given back
PTooLate(p) == /\ At(p, "locked")
               /\ item_num >= MAX_ITEM_NUM
               /\ Goto(p, "post_slot")
               /\ UNCHANGED <<ctl, sems, seen, mains>>

PostStock(t) == /\ At(t, "post_stock")
                /\ Post(stock)
                /\ Goto(t, "unlock")
                /\ UNCHANGED <<ctl, sem_mutex, emptyslot, seen, mains>>

PostSlot(t) == /\ At(t, "post_slot")
               /\ Post(emptyslot)
               /\ Goto(t, "unlock")
               /\ UNCHANGED <<ctl, sem_mutex, stock, seen, mains>>

Unlock(t) == /\ At(t, "unlock")
             /\ Post(sem_mutex)
             /\ Goto(t, "check")
             /\ UNCHANGED <<ctl, stock, emptyslot, seen, mains>>

producer(p) == \/ PCheck(p) \/ PWaitSlot(p) \/ WaitMutex(p)
               \/ PProduce(p) \/ PSetFlag(p) \/ PTooLate(p)
               \/ PostStock(p) \/ PostSlot(p) \/ Unlock(p)

(***************************************************************************)
(* The consumer thread.  Its loop test is three reads without the mutex:   *)
(* consume_num, item_num and, when they are equal, END_FLAG.               *)
(***************************************************************************)
CReadConsumed(c) == /\ At(c, "check")
                    /\ seen' = [seen EXCEPT ![c] = consume_num]
                    /\ Goto(c, "compare")
                    /\ UNCHANGED <<ctl, sems, mains>>

CCompare(c) == /\ At(c, "compare")
               /\ Goto(c, IF seen[c] < item_num THEN "wait_stock" ELSE "read_flag")
               /\ UNCHANGED <<ctl, sems, seen, mains>>

CReadFlag(c) == /\ At(c, "read_flag")
                /\ Goto(c, IF END_FLAG = 0 THEN "wait_stock" ELSE "done")
                /\ UNCHANGED <<ctl, sems, seen, mains>>

CWaitStock(c) == /\ At(c, "wait_stock")
                 /\ Wait(stock)
                 /\ Goto(c, "wait_mutex")
                 /\ UNCHANGED <<ctl, sem_mutex, emptyslot, seen, mains>>

\* Mutant: consume_num is not advanced, the next consumer takes the item again.
CTakeUncounted(c) == /\ At(c, "locked")
                     /\ consume_num < item_num
                     /\ dequeue' = (dequeue + 1) % BUFFER_SIZE
                     /\ taken' = Append(taken, data[dequeue'])
                     /\ Goto(c, "post_slot")
                     /\ UNCHANGED <<item_num, consume_num, enqueue, END_FLAG, data, sems, seen, mains>>

\* Mutant: a consumer does not check that there is an item to take.
CTakeUnchecked(c) == /\ At(c, "locked")
                     /\ dequeue' = (dequeue + 1) % BUFFER_SIZE
                     /\ taken' = Append(taken, data[dequeue'])
                     /\ consume_num' = consume_num + 1
                     /\ Goto(c, "post_slot")
                     /\ UNCHANGED <<item_num, enqueue, END_FLAG, data, sems, seen, mains>>

CTake(c) == /\ At(c, "locked")
            /\ consume_num < item_num
            /\ dequeue' = (dequeue + 1) % BUFFER_SIZE
            /\ taken' = Append(taken, data[dequeue'])
            /\ consume_num' = consume_num + 1
            /\ Goto(c, "post_slot")
            /\ UNCHANGED <<item_num, enqueue, END_FLAG, data, sems, seen, mains>>

\* Mutant: the wake-up is swallowed.
CNothingSwallowed(c) == /\ At(c, "locked")
                        /\ consume_num >= item_num
                        /\ Goto(c, "unlock")
                        /\ UNCHANGED <<ctl, sems, seen, mains>>

\* woken with nothing left to take: hand the wake-up on
CNothing(c) == /\ At(c, "locked")
               /\ consume_num >= item_num
               /\ Goto(c, "post_stock")
               /\ UNCHANGED <<ctl, sems, seen, mains>>

consumer(c) == \/ CReadConsumed(c) \/ CCompare(c) \/ CReadFlag(c)
               \/ CWaitStock(c) \/ WaitMutex(c) \/ CTake(c) \/ CNothing(c)
               \/ PostStock(c) \/ PostSlot(c) \/ Unlock(c)

(***************************************************************************)
(* The main functions.  Each process's main joins its threads; the         *)
(* producers' main then posts stock once for every consumer but one; the   *)
(* console waits for both processes before it destroys the semaphores.     *)
(***************************************************************************)
\* Mutant: one wake-up too few.
WakeUpsOneShort == IF Cardinality(Consumers) > 1 THEN Cardinality(Consumers) - 2 ELSE 0

\* for (i = 0; i < ctln->THREAD_CONS - 1; ++i)
WakeUps == Cardinality(Consumers) - 1

PJoin == /\ pmain = "join"
         /\ \A p \in Producers : At(p, "done")
         /\ pmain' = "post"
         /\ UNCHANGED <<ctl, sems, pc, seen, posts, cmain, console>>

PWakeUp == /\ pmain = "post" /\ posts < WakeUps
           /\ Post(stock)
           /\ posts' = posts + 1
           /\ UNCHANGED <<ctl, sem_mutex, emptyslot, pc, seen, pmain, cmain, console>>

PReturn == /\ pmain = "post" /\ posts >= WakeUps
           /\ pmain' = "done"
           /\ UNCHANGED <<ctl, sems, pc, seen, posts, cmain, console>>

CJoin == /\ cmain = "join"
         /\ \A c \in Consumers : At(c, "done")
         /\ cmain' = "done"
         /\ UNCHANGED <<ctl, sems, pc, seen, posts, pmain, console>>

WaitPro == /\ console = "wait_pro" /\ pmain = "done"
           /\ console' = "wait_cons"
           /\ UNCHANGED <<ctl, sems, pc, seen, posts, pmain, cmain>>

\* second waitpid, then the three sem_destroy and the removal of the segment
WaitCons == /\ console = "wait_cons" /\ cmain = "done"
            /\ console' = "destroyed"
            /\ UNCHANGED <<ctl, sems, pc, seen, posts, pmain, cmain>>

Mains == PJoin \/ PWakeUp \/ PReturn \/ CJoin \/ WaitPro \/ WaitCons

Next == \/ \E p \in Producers : producer(p)
        \/ \E c \in Consumers : consumer(c)
        \/ Mains

\* The kernel keeps scheduling a thread that can run.
Fairness == /\ \A p \in Producers : WF_vars(producer(p))
            /\ \A c \in Consumers : WF_vars(consumer(c))
            /\ WF_vars(Mains)

Safe == Init /\ [][Next]_vars
Spec == Safe /\ Fairness

-----------------------------------------------------------------------------
(***************************************************************************)
(* Properties                                                              *)
(***************************************************************************)
ProducerLabels == {"check", "wait_slot", "wait_mutex", "locked", "set_flag",
                   "post_stock", "post_slot", "unlock", "done"}
ConsumerLabels == {"check", "compare", "read_flag", "wait_stock", "wait_mutex",
                   "locked", "post_stock", "post_slot", "unlock", "done"}

\* The variables of struct ctln_pc_st and the program counters keep their
\* ranges; in particular no counter passes MAX_ITEM_NUM and both positions
\* stay inside the buffer (data + enqueue + BASE_ADDR is never out of bounds).
TypeOK ==
    /\ item_num \in 0 .. MAX_ITEM_NUM /\ consume_num \in 0 .. item_num
    /\ enqueue \in 0 .. BUFFER_SIZE - 1 /\ dequeue \in 0 .. BUFFER_SIZE - 1
    /\ END_FLAG \in {0, 1}
    /\ sem_mutex \in {0, 1} /\ stock \in Nat /\ emptyslot \in 0 .. BUFFER_SIZE
    /\ data \in [0 .. BUFFER_SIZE - 1 -> 0 .. MAX_ITEM_NUM]
    /\ taken \in Seq(0 .. MAX_ITEM_NUM)
    /\ pc \in [Threads -> ProducerLabels \cup ConsumerLabels]
    /\ \A p \in Producers : pc[p] \in ProducerLabels
    /\ \A c \in Consumers : pc[c] \in ConsumerLabels
    /\ seen \in [Consumers -> 0 .. MAX_ITEM_NUM]
    /\ posts \in Nat
    /\ pmain \in {"join", "post", "done"} /\ cmain \in {"join", "done"}
    /\ console \in {"wait_pro", "wait_cons", "destroyed"}

\* The statements between sem_wait(&ctln->sem_mutex) and sem_post of it.
InMutex(t) == pc[t] \in {"locked", "set_flag", "post_stock", "post_slot", "unlock"}

\* Producers and consumers live in two processes; at most one thread of
\* either is between its wait and its post of sem_mutex, and the semaphore is
\* free exactly when none is.
MutualExclusion ==
    /\ \A s, t \in Threads : InMutex(s) /\ InMutex(t) => s = t
    /\ sem_mutex = 1 <=> \A t \in Threads : ~ InMutex(t)

\* Producers that waited for a slot and did not use it yet, consumers that
\* freed one and did not post it yet.
SlotClaims == {p \in Producers : pc[p] \in {"wait_mutex", "locked", "post_slot"}}
                \cup {c \in Consumers : pc[c] = "post_slot"}

\* emptyslot accounts for every unit of the buffer: free, claimed by a thread
\* on its way, or holding an item, whatever mix of full and give-back paths
\* the threads took.
SlotsConserved ==
    emptyslot + Cardinality(SlotClaims) + (item_num - consume_num) = BUFFER_SIZE

\* Consumers that waited for an item and did not take it yet, producers that
\* made one and did not post it yet.
StockClaims == {c \in Consumers : pc[c] \in {"wait_mutex", "locked", "post_stock"}}
                 \cup {p \in Producers : pc[p] \in {"set_flag", "post_stock"}}

\* stock counts the items in the buffer plus the wake-ups the producers' main
\* added, less what threads on their way hold: a wake-up is never lost when a
\* consumer finds nothing and posts stock again.
StockConserved ==
    stock + Cardinality(StockClaims) = (item_num - consume_num) + posts

\* Unit a circular position further than dequeue.
Unit(i) == (dequeue + i) % BUFFER_SIZE

\* The items made and not taken are in the buffer, in order, in the units that
\* follow dequeue: no producer laps the consumers and overwrites one.
StockIntact ==
    /\ item_num - consume_num <= BUFFER_SIZE
    /\ \A i \in 1 .. item_num - consume_num : data[Unit(i)] = consume_num + i

\* The consumers print the item numbers 1, 2, 3, ... each exactly once and in
\* order, although any consumer may take any item.
TakenInOrder == /\ Len(taken) = consume_num
                /\ \A i \in 1 .. consume_num : taken[i] = i

\* The circular buffer and its counters implement a bounded FIFO queue.
Queue == INSTANCE BoundedQueue
           WITH Capacity <- BUFFER_SIZE, MaxItem <- MAX_ITEM_NUM, made <- item_num,
                queue <- [i \in 1 .. item_num - consume_num |-> data[Unit(i)]],
                out <- taken
QueueSpec == Queue!Spec

\* Once the last item is taken, the posts of stock by the producers' main
\* (producer-6.c:81-84) and the give-back of emptyslot release every thread
\* blocked in a sem_wait: all threads exit and the console gets to sem_destroy.
AllExit == (consume_num = MAX_ITEM_NUM) ~> (console = "destroyed")

\* "this version works properly" (con-6.c:3, producer-6.c:3, consumer-6.c:3):
\* when the console has seen both processes end, every item was consumed.
NothingLeftBehind == console = "destroyed" => consume_num = MAX_ITEM_NUM
=============================================================================
