------------------------------ MODULE Mailbox ------------------------------
(***************************************************************************)
(* The demonstration of Labweek6 (alg.8-1 to alg.8-3): one text in shared  *)
(* memory and the flag written, which the writer sets and the reader       *)
(* clears.                                                                 *)
(***************************************************************************)
EXTENDS TwoChildren

VARIABLES written, box

mail == <<written, box>>
bvars == <<procs, told, mail>>

Init == InitProcesses /\ written = 0 /\ box = 0

Create == Setup /\ written' = 0 /\ UNCHANGED <<told, box>>
StartReader == ForkReader("first", "second") /\ UNCHANGED <<told, mail>>
StartWriter == ForkWriter("second", "wait") /\ UNCHANGED <<told, mail>>
Remove == WaitBoth /\ UNCHANGED <<told, mail>>

WriterAttach == AttachWriter /\ UNCHANGED <<told, mail>>
ReaderAttach == AttachReader /\ UNCHANGED <<told, mail>>

CopyText ==
  /\ written = 0
  /\ Write("wait", "flag")
  /\ box' = sent + 1
  /\ UNCHANGED <<told, written>>

SetWritten ==
  /\ Write("flag", IF IsEnd(sent + 1) THEN "done" ELSE "wait")
  /\ written' = 1
  /\ sent' = sent + 1
  /\ UNCHANGED <<length, got, box>>

PrintText ==
  /\ written = 1
  /\ Read("wait", "clear")
  /\ got' = Append(got, box)
  /\ UNCHANGED <<length, sent, mail>>

ClearWritten ==
  /\ Read("clear", "check")
  /\ written' = 0
  /\ UNCHANGED <<told, box>>

(* The text is compared after the flag is cleared: the writer may have put *)
(* the next one there.                                                     *)
CheckEnd == Read("check", IF IsEnd(box) THEN "done" ELSE "wait") /\ UNCHANGED <<told, mail>>

Next ==
  \/ Create \/ StartReader \/ StartWriter \/ Remove
  \/ WriterAttach \/ CopyText \/ SetWritten
  \/ ReaderAttach \/ PrintText \/ ClearWritten \/ CheckEnd

Spec == Init /\ [][Next]_bvars /\ WF_bvars(Next)

-----------------------------------------------------------------------------
(* shmread.c calls the flag "not reliable ... for process synchronization".*)
(* What that costs, exactly: the texts come out in order and each at most  *)
(* once, but the comparison after the flag is cleared may already see the  *)
(* next text, and then the reader leaves without printing the text "end";  *)
(* no other text is lost.                                                  *)
MailKept ==
  /\ InOrder
  /\ Len(got) \in sent - 1 .. sent
  /\ reader = "done" => Len(got) >= length - 1

(* The program ends although the comparison races with the next text.      *)
Finished == Failed \/ con = "removed"
=============================================================================
