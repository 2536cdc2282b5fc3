------------------------------ MODULE Programs ------------------------------
(***************************************************************************)
(* The concurrent programs that are expected to end.  A behaviour runs one *)
(* of them; the variables of the others keep their initial values.  The    *)
(* programs with a controller share their variables.                       *)
(***************************************************************************)
EXTENDS Integers, Sequences

CONSTANTS MaxItem, TEXT_NUM, Lines, QueueMax, N, WCT, priority, Stale, FifoMax, MaxTyped, MaxInbox,
          CRT_COLS, CRT_ROWS, TICK_NUM, MaxTraps

ASSUME Sizes == {MaxItem, TEXT_NUM, N} \subseteq Nat

(* The text screen is not empty.                                           *)
ASSUME Display == {CRT_ROWS, CRT_COLS} \subseteq Nat \ {0}

(* A burst time and a priority for every task.                             *)
ASSUME Input == WCT \in Seq(Int) /\ priority \in [DOMAIN WCT -> Int]

VARIABLES
  prog,
  con, reader, writer, length, sent, got, front, rear, mtext, written, box, msgs,
  forked, msgtype, snd, rcv, exists, kernel, qnum, dropped,
  wthread, rthread, put, overlap,
  schedule_policy, head, schedule_status, wait_sem, mutex, task, susp, pend,
  usr2, sched, finished_task, counted, goal, raced, corrupt,
  parent, child, line, fifo, keyed, quit, accepted, out, up, inbox,
  lab, serial_exists, step, text, stage, crt_buf, crt_pos, irq_mask, did_init,
  pic, idt, iflag, cs, iopl, ticks, roll, torn, traps

Shm == INSTANCE ShmQueue
Mail == INSTANCE Mailbox
Posix == INSTANCE PosixQueue
SysV == INSTANCE MsgQueue
Hand == INSTANCE HandOff
Round == INSTANCE Scheduler
Client == INSTANCE ChatClient
Ucore == INSTANCE Kernel

procs == <<con, reader, writer, length>>
told == <<sent, got>>
shm == <<front, rear, mtext>>
mail == <<written, box>>
sysv == <<forked, msgtype, snd, rcv, exists, kernel, qnum, dropped>>
hand == <<wthread, rthread, put, overlap>>
scheduler == <<schedule_policy, head, schedule_status, wait_sem, mutex, task, susp, pend,
               usr2, sched, finished_task, counted, goal, raced, corrupt>>
client == <<parent, child, line, fifo, keyed, quit, accepted, out, up, inbox>>
ucore == <<lab, serial_exists, step, text, stage, crt_buf, crt_pos, irq_mask, did_init,
           pic, idt, iflag, cs, iopl, ticks, roll, torn, traps>>
vars == <<prog, procs, told, shm, mail, msgs, sysv, hand, scheduler, client, ucore>>

Init ==
  /\ prog \in {"shm", "mail", "posix", "sysv", "hand", "scheduler", "client", "ucore"}
  /\ Shm!Init /\ Mail!Init /\ Posix!Init /\ SysV!Init /\ Hand!Init /\ Round!Init /\ Client!Init
  /\ Ucore!Init
  /\ prog \in {"shm", "mail", "posix"} \/ length = 1
  /\ prog = "sysv" \/ (forked /\ msgtype = 0)
  /\ prog = "scheduler" \/ (schedule_policy = "FCFS" /\ goal = Round!TasksLeft)
  /\ prog = "client" \/ quit = 0
  /\ prog = "ucore" \/ lab = 2

RunShm == prog = "shm" /\ Shm!Next /\ UNCHANGED <<prog, mail, msgs, sysv, hand, scheduler, client, ucore>>
RunMail == prog = "mail" /\ Mail!Next /\ UNCHANGED <<prog, shm, msgs, sysv, hand, scheduler, client, ucore>>
RunPosix == prog = "posix" /\ Posix!Next /\ UNCHANGED <<prog, shm, mail, sysv, hand, scheduler, client, ucore>>
RunSysV == prog = "sysv" /\ SysV!Next /\ UNCHANGED <<prog, procs, shm, mail, msgs, hand, scheduler, client, ucore>>
RunHand == prog = "hand" /\ Hand!Next /\ UNCHANGED <<prog, reader, writer, length, sent, shm, msgs, sysv, scheduler, client, ucore>>
RunRound == prog = "scheduler" /\ Round!Next /\ UNCHANGED <<prog, procs, told, shm, mail, msgs, sysv, hand, client, ucore>>
RunClient == prog = "client" /\ Client!Next /\ UNCHANGED <<prog, procs, told, shm, mail, msgs, sysv, hand, scheduler, ucore>>
RunUcore == prog = "ucore" /\ Ucore!Next /\ UNCHANGED <<prog, procs, told, shm, mail, msgs, sysv, hand, scheduler, client>>

Next == RunShm \/ RunMail \/ RunPosix \/ RunSysV \/ RunHand \/ RunRound \/ RunClient \/ RunUcore

(* No process of a program stops between two of its steps; of the client,  *)
(* whatever the user and the server do, and of the kernel, whatever        *)
(* interrupts come.                                                        *)
Spec == /\ Init /\ [][Next]_vars
        /\ WF_vars(Next)
        /\ WF_vars(prog = "client" /\ Client!Client /\ UNCHANGED <<prog, procs, told, shm, mail, msgs, sysv, hand, scheduler, ucore>>)
        /\ WF_vars(prog = "ucore" /\ Ucore!KernelThread /\ UNCHANGED <<prog, procs, told, shm, mail, msgs, sysv, hand, scheduler, client>>)

-----------------------------------------------------------------------------
Queue == INSTANCE BoundedQueue
           WITH Capacity <- TEXT_NUM,
                made <- IF prog = "shm" THEN sent ELSE 0,
                queue <- IF prog = "shm" THEN Shm!Waiting ELSE <<>>,
                out <- IF prog = "shm" THEN got ELSE <<>>

(* The ring in shared memory is a bounded queue: no text is overwritten    *)
(* before it is printed, printed twice or printed out of order, and there  *)
(* are never more than TEXT_NUM of them, although no lock protects it.     *)
ShmQueueSpec == Queue!Spec

(* Every program hands on what it was given, in order and no item twice.   *)
(* Where an item can stay behind, the definition says which one and when;  *)
(* where the repository denies that, ReadToTheEnd of MsgQueue and          *)
(* LineTakenLater of ChatClient state its claim.                           *)
MessagesKept ==
  /\ prog = "mail" => Mail!MailKept
  /\ prog = "posix" => Posix!MessagesKept
  /\ prog = "sysv" => SysV!LinesKept
  /\ prog = "hand" => Hand!TextsKept
  /\ prog = "client" => Client!LinesSent

(* The receiver of msgrcv.c does not stop reading before the sender has    *)
(* written the whole file.                                                 *)
ReadToTheEnd == prog = "sysv" => SysV!ReadToTheEnd

(* Every program ends: no two of its processes are left waiting for each   *)
(* other, unless a call failed or one of the races they admit happened.    *)
(* The client ends, in both its processes, once one of them does, which    *)
(* may be never.                                                           *)
EveryoneEnds ==
  (prog = "client" => Client!SomeoneEnds) ~>
    (/\ prog = "shm" => Shm!Finished
     /\ prog = "mail" => Mail!Finished
     /\ prog = "posix" => Posix!Finished
     /\ prog = "sysv" => SysV!Finished
     /\ prog = "hand" => Hand!Finished
     /\ prog = "scheduler" => Round!Finished
     /\ prog = "client" => Client!BothEnd
     /\ prog = "ucore" => Ucore!Finished)

(* The scheduler's list stays in the order of the policy and has a node    *)
(* for every task, whatever signals cross, and while none has crossed the  *)
(* task at its head runs, and only it, once all signals are delivered.     *)
ScheduleKept == Round!ScheduleKept

(* The kernel's screen shows the end of what was printed, and interrupts   *)
(* are on when they can be handled and off while the screen is written.    *)
KernelSound == prog = "ucore" => Ucore!KernelSound
=============================================================================
