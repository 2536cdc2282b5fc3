------------------------------ MODULE MsgQueue ------------------------------
(***************************************************************************)
(* The System V message queue of Labweek8.  A sender puts the lines of a   *)
(* file, each with a type, into the queue; a receiver takes them without   *)
(* blocking and stops at the first miss.  Two pairs of programs: in        *)
(* msgsnd.c the sender starts the receiver and waits for it (forked); in   *)
(* alg.9-1 and alg.9-2 the user starts the receiver, for one type or for   *)
(* all of them (type 0).                                                   *)
(***************************************************************************)
EXTENDS Integers, Sequences, SequencesExt

CONSTANTS Lines,      \* the types of the lines of the file, in order
          QueueMax    \* messages the kernel's queue holds

VARIABLES
  forked, msgtype,    \* which pair runs, and the type the receiver asks for
  snd, rcv,           \* where the two processes are
  exists, kernel,     \* the queue in the kernel: there or not, its messages (external)
  sent, got,          \* lines sent so far; messages received (history)
  qnum,               \* msqattr.msg_qnum of the receiver
  dropped             \* messages that were in the queue when it was removed (history)

svars == <<forked, msgtype, snd, rcv, exists, kernel, sent, got, qnum, dropped>>

Init ==
  /\ forked \in BOOLEAN
  /\ msgtype \in IF forked THEN {0} ELSE {0} \cup Range(Lines)
  /\ snd = "open" /\ rcv = "off" /\ exists = FALSE /\ kernel = <<>>
  /\ sent = 0 /\ got = <<>> /\ qnum = 0 /\ dropped = <<>>

SndOpen ==
  /\ snd = "open"
  /\ \/ snd' = "failed" /\ UNCHANGED exists
     \/ snd' = (IF forked THEN "fork" ELSE "send") /\ exists' = TRUE
  /\ UNCHANGED <<forked, msgtype, rcv, kernel, sent, got, qnum, dropped>>

(* A child whose execv fails returns from main on the stack it shares with *)
(* the sender: it receives nothing, and the sender goes on or crashes.     *)
ForkRcv ==
  /\ snd = "fork"
  /\ \/ snd' = "failed" /\ UNCHANGED rcv
     \/ snd' = "send" /\ rcv' = "open"
     \/ snd' \in {"send", "failed"} /\ rcv' = "failed"
  /\ UNCHANGED <<forked, msgtype, exists, kernel, sent, got, qnum, dropped>>

UserStartsRcv ==
  /\ ~forked /\ rcv = "off"
  /\ rcv' = "open"
  /\ UNCHANGED <<forked, msgtype, snd, exists, kernel, sent, got, qnum, dropped>>

(* A blocking send; it fails once the queue is removed.                    *)
Send ==
  /\ snd = "send" /\ sent < Len(Lines)
  /\ \/ ~exists /\ snd' = "failed" /\ UNCHANGED <<kernel, sent>>
     \/ /\ exists /\ Len(kernel) < QueueMax
        /\ kernel' = Append(kernel, sent + 1)
        /\ sent' = sent + 1
        /\ snd' = IF forked THEN "stat" ELSE "send"
  /\ UNCHANGED <<forked, msgtype, rcv, exists, got, qnum, dropped>>

SndStat ==
  /\ snd = "stat"
  /\ snd' = IF exists THEN "send" ELSE "failed"
  /\ UNCHANGED <<forked, msgtype, rcv, exists, kernel, sent, got, qnum, dropped>>

SndEnd ==
  /\ snd = "send" /\ sent = Len(Lines)
  /\ forked => rcv \in {"done", "failed"}
  /\ snd' = "done"
  /\ UNCHANGED <<forked, msgtype, rcv, exists, kernel, sent, got, qnum, dropped>>

(* msgget without IPC_CREAT, then the first look at the queue.             *)
RcvOpen ==
  /\ rcv = "open"
  /\ rcv' = IF exists THEN "receive" ELSE "failed"
  /\ qnum' = Len(kernel)
  /\ UNCHANGED <<forked, msgtype, snd, exists, kernel, sent, got, dropped>>

Wanted == {k \in DOMAIN kernel : msgtype \in {0, Lines[kernel[k]]}}

(* msgrcv with IPC_NOWAIT: the first message of the type.                  *)
Receive ==
  /\ rcv = "receive" /\ Wanted # {}
  /\ LET k == CHOOSE k \in Wanted : \A j \in Wanted : k <= j
     IN  got' = Append(got, kernel[k]) /\ kernel' = RemoveAt(kernel, k)
  /\ rcv' = IF forked THEN "stat" ELSE "receive"
  /\ UNCHANGED <<forked, msgtype, snd, exists, sent, qnum, dropped>>

(* The first miss ends the loop; alg.9-2 looks at the queue only now.      *)
Miss ==
  /\ rcv = "receive" /\ Wanted = {}
  /\ rcv' = IF forked THEN "ask" ELSE "stat_last"
  /\ UNCHANGED <<forked, msgtype, snd, exists, kernel, sent, got, qnum, dropped>>

RcvStat ==
  /\ rcv \in {"stat", "stat_last"}
  /\ qnum' = Len(kernel)
  /\ rcv' = IF rcv = "stat" THEN "receive" ELSE "ask"
  /\ UNCHANGED <<forked, msgtype, snd, exists, kernel, sent, got, dropped>>

(* A mutant of Ask: the user is asked whatever is left.                    *)
AskAlways ==
  /\ rcv = "ask"
  /\ exists' = FALSE /\ dropped' = kernel /\ kernel' = <<>> /\ rcv' = "done"
  /\ UNCHANGED <<forked, msgtype, snd, sent, got, qnum>>

(* When the last look showed no messages the user may have the queue       *)
(* removed, with what has come in since.                                   *)
Ask ==
  /\ rcv = "ask"
  /\ \/ UNCHANGED <<exists, kernel, dropped>>
     \/ qnum = 0 /\ exists' = FALSE /\ dropped' = kernel /\ kernel' = <<>>
  /\ rcv' = "done"
  /\ UNCHANGED <<forked, msgtype, snd, sent, got, qnum>>

Next ==
  \/ SndOpen \/ ForkRcv \/ Send \/ SndStat \/ SndEnd
  \/ UserStartsRcv \/ RcvOpen \/ Receive \/ Miss \/ RcvStat \/ Ask

Spec == Init /\ [][Next]_svars /\ WF_svars(Next)

-----------------------------------------------------------------------------
(* Every line that was sent is received, still in the queue or was removed *)
(* with it, each exactly once, and the ones received keep their order.     *)
(* A receiver that asked for one type leaves the others alone, and what is *)
(* lost with the queue was sent after everything that was received.  That  *)
(* nothing is left behind is ReadToTheEnd.                                 *)
LinesKept ==
  /\ LET lines == got \o kernel \o dropped
     IN  IsInjective(lines) /\ Range(lines) = 1 .. sent
  /\ \A j, k \in DOMAIN got : j < k => got[j] < got[k]
  /\ \A n \in Range(got) : msgtype \in {0, Lines[n]}
  /\ \A d \in Range(dropped), n \in Range(got) : n < d

(* The report on msgsnd.c and msgrcv.c: the receiver does not stop reading *)
(* before the sender, which sends every 2 s where it reads every 3 s, has  *)
(* written the whole file.                                                 *)
ReadToTheEnd == forked /\ rcv \in {"ask", "done"} => sent = Len(Lines)

(* The sender is stuck only on a full queue that nobody empties; with a    *)
(* queue that holds the whole file both processes end.                     *)
Finished ==
  /\ snd \in {"done", "failed"}
  /\ rcv \in {"done", "failed"} \/ (forked /\ snd = "failed")
=============================================================================
