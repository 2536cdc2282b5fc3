---------------------------- MODULE TwoChildren ----------------------------
(***************************************************************************)
(* What the controllers of Labweek6, Labweek8 and Labweek14 have in common:*)
(* a process makes the shared object, starts a reading and a writing       *)
(* process, waits for both and removes the object.  Every call that can    *)
(* fail ends the process that made it, and only that one.                  *)
(***************************************************************************)
EXTENDS Integers, Sequences

CONSTANTS MaxItem   \* bound on the texts typed, the last of which is "end"

VARIABLES
  con, reader, writer,   \* where the three processes are
  length,                \* the user types length texts; they are 1 .. length
  sent, got              \* texts written so far, and texts printed (history)

procs == <<con, reader, writer>>
told == <<length, sent, got>>

InitProcesses ==
  /\ con = "setup" /\ reader = "off" /\ writer = "off"
  /\ length \in 1 .. MaxItem /\ sent = 0 /\ got = <<>>

Ended == {"done", "failed"}
Failed == "failed" \in {con, reader, writer}
IsEnd(text) == text = length

Setup == con = "setup" /\ con' \in {"first", "failed"} /\ UNCHANGED <<reader, writer>>

(* vfork and exec; the child goes on to open the shared object.            *)
ForkReader(at, next) ==
  /\ con = at
  /\ \/ con' = "failed" /\ UNCHANGED reader
     \/ con' = next /\ reader' = "attach"
  /\ UNCHANGED writer

ForkWriter(at, next) ==
  /\ con = at
  /\ \/ con' = "failed" /\ UNCHANGED writer
     \/ con' = next /\ writer' = "attach"
  /\ UNCHANGED reader

AttachReader == reader = "attach" /\ reader' \in {"wait", "failed"} /\ UNCHANGED <<con, writer>>
AttachWriter == writer = "attach" /\ writer' \in {"wait", "failed"} /\ UNCHANGED <<con, reader>>

Read(at, next) == reader = at /\ reader' = next /\ UNCHANGED <<con, writer>>
Write(at, next) == writer = at /\ writer' = next /\ UNCHANGED <<con, reader>>

WaitBoth ==
  /\ con = "wait" /\ reader \in Ended /\ writer \in Ended
  /\ con' \in {"removed", "failed"}
  /\ UNCHANGED <<reader, writer>>

(* The texts come out in the order they went in, each of them once.        *)
InOrder == \A k \in DOMAIN got : got[k] = k
=============================================================================
