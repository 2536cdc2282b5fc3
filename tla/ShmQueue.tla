------------------------------ MODULE ShmQueue ------------------------------
(***************************************************************************)
(* The circular buffer of Labweek6: shmwrite.c puts the texts the user     *)
(* types into shared memory, shmread.c prints them, shmcon.c starts both.  *)
(* The struct has TEXT_NUM + 1 slots, of which one stays free.  Neither    *)
(* process takes a lock; each moves one of the two indexes.                *)
(***************************************************************************)
EXTENDS TwoChildren

CONSTANTS TEXT_NUM

VARIABLES front, rear, mtext

buffer == <<front, rear, mtext>>
qvars == <<procs, told, buffer>>

Slots == 0 .. TEXT_NUM
Next1(i) == (i + 1) % (TEXT_NUM + 1)
Full == Next1(rear) = front

(* New shared memory is zero; a text of 0 is no text.                      *)
Init == InitProcesses /\ front = 0 /\ rear = 0 /\ mtext = [i \in Slots |-> 0]

Create == Setup /\ front' = 0 /\ rear' = 0 /\ UNCHANGED <<told, mtext>>
StartReader == ForkReader("first", "second") /\ UNCHANGED <<told, buffer>>
StartWriter == ForkWriter("second", "wait") /\ UNCHANGED <<told, buffer>>
Remove == WaitBoth /\ UNCHANGED <<told, buffer>>

WriterAttach == AttachWriter /\ UNCHANGED <<told, buffer>>
ReaderAttach == AttachReader /\ UNCHANGED <<told, buffer>>

(* A mutant of WriteText: the queue may be full.                           *)
WriteTextAlways == /\ Write("wait", "publish")
                   /\ mtext' = [mtext EXCEPT ![rear] = sent + 1]
                   /\ UNCHANGED <<told, front, rear>>

WriteText ==
  /\ ~Full
  /\ Write("wait", "publish")
  /\ mtext' = [mtext EXCEPT ![rear] = sent + 1]
  /\ UNCHANGED <<told, front, rear>>

Publish ==
  /\ Write("publish", IF IsEnd(sent + 1) THEN "done" ELSE "wait")
  /\ rear' = Next1(rear)
  /\ sent' = sent + 1
  /\ UNCHANGED <<length, got, front, mtext>>

PrintText ==
  /\ front # rear
  /\ Read("wait", "check")
  /\ got' = Append(got, mtext[front])
  /\ UNCHANGED <<length, sent, buffer>>

(* The slot is read a second time.                                         *)
CheckEnd ==
  \/ /\ IsEnd(mtext[front])
     /\ Read("check", "done")
     /\ UNCHANGED <<told, buffer>>
  \/ /\ ~IsEnd(mtext[front])
     /\ Read("check", "wait")
     /\ front' = Next1(front)
     /\ UNCHANGED <<told, rear, mtext>>

Next ==
  \/ Create \/ StartReader \/ StartWriter \/ Remove
  \/ WriterAttach \/ WriteText \/ Publish
  \/ ReaderAttach \/ PrintText \/ CheckEnd

Spec == Init /\ [][Next]_qvars /\ WF_qvars(Next)

-----------------------------------------------------------------------------
(* The slots that are published and not yet printed, oldest first.         *)
First == IF reader = "check" \/ (reader = "done" /\ front # rear) THEN Next1(front) ELSE front
Waiting ==
  [k \in 1 .. (rear + TEXT_NUM + 1 - First) % (TEXT_NUM + 1) |->
     mtext[(First + k - 1) % (TEXT_NUM + 1)]]

Promise == INSTANCE BoundedQueue
             WITH Capacity <- TEXT_NUM, MaxItem <- MaxItem, made <- sent, queue <- Waiting, out <- got

(* The shared buffer is a bounded queue: without a lock, no text is        *)
(* overwritten before it is printed, printed twice or printed out of       *)
(* order, and there are never more than TEXT_NUM of them.                  *)
ShmQueueSpec == Promise!Spec

(* Once both children are attached the program ends, with "end" printed.   *)
Finished == Failed \/ (con = "removed" /\ Len(got) = length)
=============================================================================
