------------------------------ MODULE HandOff ------------------------------
(***************************************************************************)
(* The writer and the reader process of Labweek14: each starts N threads   *)
(* that pass, one after the other, through the filter lock of their own    *)
(* process; inside it a thread writes, or reads, the shared text once,     *)
(* using the flag written.                                                 *)
(*                                                                         *)
(* FilterLock models the lock.  As the threads are numbered here it can    *)
(* admit two (run filter_shm), so entering is not guarded: overlap records *)
(* that it happened, and the counter's check may then kill the process.    *)
(***************************************************************************)
EXTENDS Integers, Sequences, FiniteSets

CONSTANTS N    \* THREAD_NUM

VARIABLES
  con,             \* shmcon.c
  wthread, rthread,   \* where the threads of the two processes are
  written, box,    \* the shared struct
  put, got,        \* texts written and texts read (history)
  overlap          \* two threads of one process were inside together

ovars == <<con, wthread, rthread, written, box, put, got, overlap>>

Threads == 1 .. N
Inside(th) == {t \in Threads : th[t] \in {"in", "used", "flagged"}}
Over(th) == \A t \in Threads : th[t] \in {"off", "left", "killed"}

Init ==
  /\ con = "setup" /\ written = 0 /\ box = 0 /\ put = <<>> /\ got = <<>> /\ overlap = FALSE
  /\ wthread = [t \in Threads |-> "off"] /\ rthread = wthread

Create ==
  /\ con = "setup" /\ con' \in {"first", "failed"}
  /\ written' = 0
  /\ UNCHANGED <<wthread, rthread, box, put, got, overlap>>

(* vfork, exec, attach and the creation of the threads; a thread that      *)
(* cannot be created is skipped.                                           *)
Starts(th) == th' \in [Threads -> {"out", "off"}]

StartReader ==
  /\ con = "first"
  /\ \/ con' = "failed" /\ UNCHANGED rthread
     \/ con' = "second" /\ Starts(rthread)
  /\ UNCHANGED <<wthread, written, box, put, got, overlap>>

StartWriter ==
  /\ con = "second"
  /\ \/ con' = "failed" /\ UNCHANGED wthread
     \/ con' = "wait" /\ Starts(wthread)
  /\ UNCHANGED <<rthread, written, box, put, got, overlap>>

(* The lock and the counter behind it.                                     *)
Enters(th, t) ==
  /\ th[t] = "out"
  /\ overlap' = (overlap \/ Inside(th) # {})
  /\ \/ th' = [th EXCEPT ![t] = "in"]
     \/ Inside(th) # {} /\ th' = [u \in Threads |-> "killed"]

WriterEnters(t) == Enters(wthread, t) /\ UNCHANGED <<con, rthread, written, box, put, got>>
ReaderEnters(t) == Enters(rthread, t) /\ UNCHANGED <<con, wthread, written, box, put, got>>

WriteText(t) ==
  /\ wthread[t] = "in" /\ written = 0
  /\ wthread' = [wthread EXCEPT ![t] = "used"]
  /\ box' = t
  /\ put' = Append(put, t)
  /\ UNCHANGED <<con, rthread, written, got, overlap>>

SetWritten(t) ==
  /\ wthread[t] = "used"
  /\ wthread' = [wthread EXCEPT ![t] = "flagged"]
  /\ written' = 1
  /\ UNCHANGED <<con, rthread, box, put, got, overlap>>

ReadText(t) ==
  /\ rthread[t] = "in" /\ written = 1
  /\ rthread' = [rthread EXCEPT ![t] = "used"]
  /\ got' = Append(got, box)
  /\ UNCHANGED <<con, wthread, written, box, put, overlap>>

(* A mutant of ClearWritten: the flag stays set.                           *)
LeavesWritten(t) ==
  /\ rthread[t] = "used"
  /\ rthread' = [rthread EXCEPT ![t] = "flagged"]
  /\ UNCHANGED <<con, wthread, written, box, put, got, overlap>>

ClearWritten(t) ==
  /\ rthread[t] = "used"
  /\ rthread' = [rthread EXCEPT ![t] = "flagged"]
  /\ written' = 0
  /\ UNCHANGED <<con, wthread, box, put, got, overlap>>

Leaves(th, t) == th[t] = "flagged" /\ th' = [th EXCEPT ![t] = "left"]
WriterLeaves(t) == Leaves(wthread, t) /\ UNCHANGED <<con, rthread, written, box, put, got, overlap>>
ReaderLeaves(t) == Leaves(rthread, t) /\ UNCHANGED <<con, wthread, written, box, put, got, overlap>>

(* Both processes have joined their threads and ended.                     *)
Remove ==
  /\ con = "wait" /\ Over(wthread) /\ Over(rthread)
  /\ con' \in {"removed", "failed"}
  /\ UNCHANGED <<wthread, rthread, written, box, put, got, overlap>>

Writer(t) == WriterEnters(t) \/ WriteText(t) \/ SetWritten(t) \/ WriterLeaves(t)
Reader(t) == ReaderEnters(t) \/ ReadText(t) \/ ClearWritten(t) \/ ReaderLeaves(t)

Next ==
  \/ Create \/ StartReader \/ StartWriter \/ Remove
  \/ \E t \in Threads : Writer(t) \/ Reader(t)

Spec == Init /\ [][Next]_ovars /\ WF_ovars(Next)

-----------------------------------------------------------------------------
Started(th) == Cardinality({t \in Threads : th[t] # "off"})

(* While each lock admits one thread at a time, every text is read once,   *)
(* in the order of writing, before the next one is written.                *)
TextsKept ==
  overlap \/ (/\ Len(put) - Len(got) \in {0, 1}
              /\ \A k \in DOMAIN got : got[k] = put[k])

(* Both processes end when each of them could start as many threads as the *)
(* other; a thread that could not be created leaves its partner waiting.   *)
Finished ==
  \/ overlap \/ con \in {"removed", "failed"}
  \/ con = "wait" /\ Started(wthread) # Started(rthread)
=============================================================================
