----------------------------- MODULE PosixQueue -----------------------------
(***************************************************************************)
(* The POSIX message queue of Labweek8 (msgpthreadcon.c, msgproducer.c,    *)
(* msgconsumer.c).  Both processes poll mq_curmsgs: the producer sends     *)
(* when it read 0, the consumer receives when it read more than 0.         *)
(***************************************************************************)
EXTENDS TwoChildren

VARIABLES msgs    \* the queue in the kernel (external)

mvars == <<procs, told, msgs>>

Init == InitProcesses /\ msgs = <<>>

Create == Setup /\ UNCHANGED <<told, msgs>>
StartProducer == ForkWriter("first", "second") /\ UNCHANGED <<told, msgs>>
StartConsumer == ForkReader("second", "wait") /\ UNCHANGED <<told, msgs>>
Unlink == WaitBoth /\ UNCHANGED <<told, msgs>>

OpenProducer == AttachWriter /\ UNCHANGED <<told, msgs>>
OpenConsumer == AttachReader /\ UNCHANGED <<told, msgs>>

SeesEmpty == msgs = <<>> /\ Write("wait", "send") /\ UNCHANGED <<told, msgs>>

Send ==
  /\ Write("send", IF IsEnd(sent + 1) THEN "done" ELSE "wait")
  /\ msgs' = Append(msgs, sent + 1)
  /\ sent' = sent + 1
  /\ UNCHANGED <<length, got>>

SeesMessage == msgs # <<>> /\ Read("wait", "receive") /\ UNCHANGED <<told, msgs>>

Receive ==
  /\ msgs # <<>>
  /\ Read("receive", IF IsEnd(Head(msgs)) THEN "done" ELSE "wait")
  /\ got' = Append(got, Head(msgs))
  /\ msgs' = Tail(msgs)
  /\ UNCHANGED <<length, sent>>

Next ==
  \/ Create \/ StartProducer \/ StartConsumer \/ Unlink
  \/ OpenProducer \/ SeesEmpty \/ Send
  \/ OpenConsumer \/ SeesMessage \/ Receive

Spec == Init /\ [][Next]_mvars /\ WF_mvars(Next)

-----------------------------------------------------------------------------
(* Although each side acts on a number it read earlier, there is never     *)
(* more than one message in the queue, none is lost, and when the queue is *)
(* removed it is empty.                                                    *)
MessagesKept ==
  /\ InOrder
  /\ Len(msgs) <= 1
  /\ Len(got) + Len(msgs) = sent
  /\ con = "removed" /\ ~Failed => msgs = <<>>

(* Neither side can be left polling.                                       *)
Finished == Failed \/ con = "removed"
=============================================================================
