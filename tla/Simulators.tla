----------------------------- MODULE Simulators -----------------------------
(***************************************************************************)
(* The sequential programs, and the two concurrent ones that run for ever: *)
(* the chat server and the processes that share a heap; and the sequential *)
(* parts of the ucore kernel.  A behaviour runs one of them; the others    *)
(* stay in one fixed initial state.                                        *)
(***************************************************************************)
EXTENDS Integers, Sequences, FiniteSets

CONSTANTS MAXSIZE, Ids, Names, Pointer, Pages, FRAME_SIZE, CYLINDER_NUM, CYLINDER_REQ_NUM,
          MAX_CONN_NUM, PipeMax, MaxTyped, Procs, Goal, Removers, MaxOps,
          Lines, Commands, CONSBUFSIZE, MaxEvents, SECTSIZE, MemSize, BUFSIZE, MAXARGS, MaxKeys

ASSUME Sizes == /\ {MAX_CONN_NUM, PipeMax, Removers, MAXSIZE} \subseteq Nat
                /\ FRAME_SIZE \in Nat \ {0} /\ CONSBUFSIZE \in Nat \ {0}

(* A page is given by its number, the id of a student is an integer, and   *)
(* the processes are finitely many.                                        *)
ASSUME Inputs == Pages \subseteq Nat /\ Ids \subseteq Int /\ IsFiniteSet(Procs)

VARIABLES prog, heap, phase, fifo, stack, matrix, clock, recent,
          cylinder_req, cylinder_head, head_dir, algorithm, served, head_move_sum,
          registers, main, connect_sn, fd_max, fd_stat, fd_msg, fd, nonblock, recv, round,
          max_sn, stat, nickname, typed, log, heard, missed, quit, lagged,
          proc, size, lock, operation_time, removed, saw,
          kbd, com, shift, cons, polling, rebooted, held, caps, waiting, asked, doubled, lost, events,
          call, result

Heap == INSTANCE StudentHeap
Paging == INSTANCE PageReplacement
Disk == INSTANCE DiskScheduling
Chat == INSTANCE ChatServer
Shared == INSTANCE SharedHeap
Input == INSTANCE ConsoleInput
Tools == INSTANCE KernelTools

hvars == <<heap, phase>>
pvars == <<fifo, stack, matrix, clock, recent>>
dvars == <<cylinder_req, cylinder_head, head_dir, algorithm, served, head_move_sum>>
tvars == <<registers, main, connect_sn, fd_max, fd_stat, fd_msg, fd, nonblock, recv, round,
           max_sn, stat, nickname, typed, log, heard, missed, quit, lagged>>
kvars == <<proc, size, lock, operation_time, removed, saw>>
ivars == <<kbd, com, shift, cons, polling, rebooted, held, caps, waiting, asked, doubled, lost, events>>
lvars == <<call, result>>

NoDisk ==
  /\ cylinder_req = <<>> /\ cylinder_head = 0 /\ head_dir = 0
  /\ algorithm = 0 /\ served = <<>> /\ head_move_sum = 0

Init ==
  /\ prog \in {"heap", "paging", "disk", "chat", "shared", "input", "tools"}
  /\ Heap!Init
  /\ Paging!Init
  /\ Shared!Init
  /\ Input!Init
  /\ Tools!Init
  /\ Chat!Init /\ (prog = "chat" \/ registers)
  /\ \/ prog # "disk" /\ NoDisk
     \/ prog = "disk" /\ Disk!Init

RunHeap == prog = "heap" /\ Heap!Next /\ UNCHANGED <<prog, pvars, dvars, tvars, kvars, ivars, lvars>>
RunPaging == prog = "paging" /\ Paging!Next /\ UNCHANGED <<prog, hvars, dvars, tvars, kvars, ivars, lvars>>
RunDisk == prog = "disk" /\ Disk!Next /\ UNCHANGED <<prog, hvars, pvars, tvars, kvars, ivars, lvars>>
RunChat == prog = "chat" /\ Chat!Next /\ UNCHANGED <<prog, hvars, pvars, dvars, kvars, ivars, lvars>>
RunShared == prog = "shared" /\ Shared!Next /\ UNCHANGED <<prog, hvars, pvars, dvars, tvars, ivars, lvars>>
RunInput == prog = "input" /\ Input!Next /\ UNCHANGED <<prog, hvars, pvars, dvars, tvars, kvars, lvars>>
RunTools == prog = "tools" /\ Tools!Next /\ UNCHANGED <<prog, hvars, pvars, dvars, tvars, kvars, ivars>>

Next == RunHeap \/ RunPaging \/ RunDisk \/ RunChat \/ RunShared \/ RunInput \/ RunTools

Spec == Init /\ [][Next]_<<prog, hvars, pvars, dvars, tvars, kvars, ivars, lvars>>

(* The linked list runs through exactly the live slots of the heap.        *)
ListSound == prog = "heap" => Heap!ListSound

(* The heap operations leave a heap, and the searches are complete.        *)
HeapSound == prog = "heap" => Heap!HeapSound

(* Moving students between slots never changes the order of the list.      *)
ListOrderKept == Heap!ListOrderKept

(* Both LRU algorithms keep exactly the pages used last.                   *)
LRUExact == prog = "paging" => Paging!LRUExact

(* No algorithm drops a page while a frame is free, or keeps it twice.     *)
FramesSound == prog = "paging" => Paging!FramesSound

(* A page with its reference bit set is dropped only when all are set.     *)
SecondChanceGiven == Paging!SecondChanceGiven

(* Every disk algorithm serves every request once, in its order, and moves *)
(* as it reports (of LOOK and C_LOOK, see OneSweepDistance there).         *)
DiskSound == prog = "disk" => Disk!DiskSound

(* No two users of the chat have the same name, and the operator has his   *)
(* own, unless a name was taken before pipe_data knew of the client.       *)
NicknamesUnique == prog = "chat" => Chat!NicknamesUnique

(* Who takes part in the chat hears every public message, in one order;    *)
(* with nicknames, who has quit does not come back.                        *)
ConversationKept == prog = "chat" => Chat!ConversationKept

(* Who has quit the chat does not come back, with nicknames or without.    *)
QuitForGood == prog = "chat" => Chat!QuitForGood

(* No two users of the chat have the same name.                            *)
NamesDistinct == prog = "chat" => Chat!NamesDistinct

(* The shared memory is not removed before all but one process have left.  *)
RemovedLate == prog = "shared" => Shared!RemovedLate

(* What is typed comes out of the console once, in order and as it was     *)
(* meant, unless too much was left waiting or two like keys were held.     *)
InputSound == prog = "input" => Input!InputSound

(* The kernel in memory is the kernel of the file, numbers that are        *)
(* printed are read back, an address is found in its function, and the     *)
(* monitor runs the command on the screen.                                 *)
ToolsSound == prog = "tools" => Tools!ToolsSound
=============================================================================
