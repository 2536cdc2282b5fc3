----------------------------- MODULE ChatClient -----------------------------
(***************************************************************************)
(* The chat client of Labweek9 (connector-BBS-2.c) with its input terminal *)
(* (input-2.c).  The terminal writes lines into a fifo, without blocking;  *)
(* the client's parent process sends them to the server, its child prints  *)
(* what the server sends.  Whichever ends first kills the other.           *)
(***************************************************************************)
EXTENDS Integers, Sequences

CONSTANTS FifoMax,    \* lines the fifo holds
          MaxTyped,   \* bound on the lines typed
          MaxInbox    \* bound on the messages under way from the server

VARIABLES
  parent, child, line,    \* the two processes, and the parent's stdin_buf
  fifo, keyed, quit,      \* the fifo; lines typed, the quit-th of which is "#0"
  accepted, out,          \* lines that went into the fifo, and lines sent (history)
  up, inbox               \* the connection and what the server has sent (external)

wvars == <<parent, child, line, fifo, keyed, quit, accepted, out, up, inbox>>

Init ==
  /\ parent = "connect" /\ child = "off" /\ line = 0
  /\ fifo = <<>> /\ keyed = 0 /\ quit \in 0 .. MaxTyped
  /\ accepted = <<>> /\ out = <<>>
  /\ up = TRUE /\ inbox = <<>>

Over == {"exit", "killed"}

(* Everything up to connect and getsockname; a failure ends the client.    *)
Connect ==
  /\ parent = "connect" /\ parent' \in {"fork", "exit"}
  /\ UNCHANGED <<child, line, fifo, keyed, quit, accepted, out, up, inbox>>

Fork ==
  /\ parent = "fork"
  /\ \/ parent' = "exit" /\ UNCHANGED child
     \/ parent' = "read" /\ child' = "recv"
  /\ UNCHANGED <<line, fifo, keyed, quit, accepted, out, up, inbox>>

(* input-2.c: a line that finds the fifo full is gone.                     *)
TypeLine ==
  /\ keyed < MaxTyped
  /\ keyed' = keyed + 1
  /\ IF Len(fifo) < FifoMax
     THEN fifo' = Append(fifo, keyed + 1) /\ accepted' = Append(accepted, keyed + 1)
     ELSE UNCHANGED <<fifo, accepted>>
  /\ UNCHANGED <<parent, child, line, quit, out, up, inbox>>

ReadLine ==
  /\ parent = "read" /\ fifo # <<>>
  /\ parent' = "send"
  /\ line' = Head(fifo)
  /\ fifo' = Tail(fifo)
  /\ UNCHANGED <<child, keyed, quit, accepted, out, up, inbox>>

(* A send on a broken connection fails or kills the process (SIGPIPE).     *)
SendLine ==
  /\ parent = "send"
  /\ \/ /\ up
        /\ out' = Append(out, line)
        /\ parent' = IF line = quit THEN "quit" ELSE "read"
     \/ ~up /\ parent' \in {"close", "killed"} /\ UNCHANGED out
  /\ UNCHANGED <<child, line, fifo, keyed, quit, accepted, up, inbox>>

(* "I quit ... " is sent, and whether it was is not looked at.             *)
SendQuit ==
  /\ parent = "quit"
  /\ parent' \in IF up THEN {"close"} ELSE {"close", "killed"}
  /\ UNCHANGED <<child, line, fifo, keyed, quit, accepted, out, up, inbox>>

KillChild ==
  /\ parent = "close"
  /\ parent' = "exit"
  /\ child' = IF child = "exit" THEN child ELSE "killed"
  /\ UNCHANGED <<line, fifo, keyed, quit, accepted, out, up, inbox>>

Recv ==
  /\ child = "recv"
  /\ \/ /\ inbox # <<>>
        /\ inbox' = Tail(inbox)
        /\ child' = IF Head(inbox) = "#0" THEN "close" ELSE "recv"
     \/ inbox = <<>> /\ ~up /\ child' = "close" /\ UNCHANGED inbox
  /\ UNCHANGED <<parent, line, fifo, keyed, quit, accepted, out, up>>

KillParent ==
  /\ child = "close"
  /\ child' = "exit"
  /\ parent' = IF parent \in Over THEN parent ELSE "killed"
  /\ UNCHANGED <<line, fifo, keyed, quit, accepted, out, up, inbox>>

Server ==
  /\ child # "off"
  /\ \/ \E m \in {"text", "#0"} : Len(inbox) < MaxInbox /\ up /\ inbox' = Append(inbox, m) /\ UNCHANGED up
     \/ up /\ up' = FALSE /\ UNCHANGED inbox
  /\ UNCHANGED <<parent, child, line, fifo, keyed, quit, accepted, out>>

Client ==
  \/ Connect \/ Fork \/ ReadLine \/ SendLine \/ SendQuit \/ KillChild
  \/ Recv \/ KillParent

Next == Client \/ TypeLine \/ Server

Spec == Init /\ [][Next]_wvars /\ WF_wvars(Client)

-----------------------------------------------------------------------------
(* What the fifo took is sent in order and once, up to the line "#0" and   *)
(* nothing behind it.  That the fifo takes every line is LineTakenLater.   *)
LinesSent ==
  /\ \A k \in DOMAIN out : out[k] = accepted[k] /\ (out[k] = quit => k = Len(out))
  /\ (IF parent = "send" THEN <<line>> ELSE <<>>) \o fifo
       = SubSeq(accepted, Len(accepted) - Len(fifo) + (IF parent = "send" THEN 0 ELSE 1), Len(accepted))

(* input-2.c of a full fifo: "Pipe blocked, try again ...".  A line that   *)
(* was typed goes into the fifo in the end, unless the client stops        *)
(* emptying it.                                                            *)
LineTakenLater ==
  \A n \in 1 .. MaxTyped :
    (keyed >= n) ~> (parent \in Over \/ \E k \in DOMAIN accepted : accepted[k] = n)

(* When one of the two processes ends, so does the other, whichever of     *)
(* quitting, the server's "#0" and the loss of the connection comes first. *)
SomeoneEnds == parent \in Over \/ child \in Over
BothEnd == parent \in Over /\ child \in Over \cup {"off"}
=============================================================================
