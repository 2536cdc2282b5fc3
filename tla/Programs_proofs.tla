--------------------------- MODULE Programs_proofs ---------------------------
(***************************************************************************)
(* Proofs about the programs that hand messages on (the ring in shared     *)
(* memory, the mailbox, the two kinds of message queues, the hand-off of   *)
(* Labweek14 and the chat client) and about the scheduler of Labweek16,    *)
(* for any number of texts, slots, lines, threads and tasks.               *)
(***************************************************************************)
EXTENDS Programs, ProofLemmas

(***************************************************************************)
(* The inductive invariants, one for each program.                         *)
(***************************************************************************)
\* What is common to the programs with a controller: a child runs only once it
\* is started, and the controller removes the shared object when both ended.
\* The reader is the first child of shm and mail, the writer that of posix.
Children ==
  /\ length \in 1 .. MaxItem /\ sent \in Nat /\ got \in Seq(Nat)
  /\ con \in {"setup", "first", "second", "wait", "removed", "failed"}
  /\ con = "setup" => sent = 0 /\ got = <<>>
  /\ con \in {"setup", "first"} => reader = "off" /\ writer = "off"
  /\ con = "second" => IF prog = "posix" THEN reader = "off" ELSE writer = "off"
  /\ con = "removed" => reader \in {"done", "failed"} /\ writer \in {"done", "failed"}
  /\ IF writer = "done" THEN sent = length ELSE sent < length \/ writer = "failed"
  /\ sent <= length
  /\ \A k \in 1 .. Len(got) : got[k] = k

\* The ring: the reader has moved front once for each text it has gone past,
\* text n is in slot n - 1 modulo the size from the moment the writer stores it
\* until the reader goes past it, and the writer, between the store and the
\* move of rear, still has its slot free.
Past == IF reader \in {"check", "done"} THEN Len(got) - 1 ELSE Len(got)

ShmInv ==
  /\ Children
  /\ mtext \in [0 .. TEXT_NUM -> Nat]
  /\ Past \in Nat /\ Len(got) <= sent /\ sent - Past <= TEXT_NUM
  /\ rear = sent % (TEXT_NUM + 1) /\ front = Past % (TEXT_NUM + 1)
  /\ \A n \in Past + 1 .. sent : mtext[(n - 1) % (TEXT_NUM + 1)] = n
  /\ writer = "publish" => sent - Past < TEXT_NUM /\ mtext[rear] = sent + 1
  /\ reader = "done" => Len(got) = length

\* The mailbox: it holds the last text that was copied, and the flag says
\* whether that text is still to be printed.
MailInv ==
  /\ Children
  /\ written \in {0, 1}
  /\ box = IF writer = "flag" THEN sent + 1 ELSE sent
  /\ writer = "flag" => written = 0
  /\ reader = "clear" => written = 1
  /\ Len(got) = IF written = 1 /\ reader # "clear" THEN sent - 1 ELSE sent
  /\ reader = "done" => Len(got) >= length - 1

\* The POSIX queue: empty while the producer is about to send, and never with
\* more than the last message in it.
PosixInv ==
  /\ Children
  /\ \/ msgs = <<>> /\ Len(got) = sent
     \/ msgs = <<sent>> /\ Len(got) = sent - 1 /\ writer # "send"
  /\ reader = "done" => Len(got) = length

\* The System V queue: the three places a line can be in are increasing and
\* partition what was sent; what the receiver still wants of the queue is newer
\* than what it has; and once it found the queue empty, so is everything else.
Increasing(s) == \A j, k \in 1 .. Len(s) : j < k => s[j] < s[k]
Sorted(s, n) == s \in Seq(1 .. n) /\ Increasing(s)
Members(s) == {s[k] : k \in 1 .. Len(s)}

SysVInv ==
  /\ sent \in Nat
  /\ Sorted(got, sent) /\ Sorted(kernel, sent) /\ Sorted(dropped, sent)
  /\ Members(got) \cup Members(kernel) \cup Members(dropped) = 1 .. sent
  /\ Members(got) \cap Members(kernel) = {}
  /\ Members(dropped) \cap (Members(got) \cup Members(kernel)) = {}
  /\ forked => msgtype = 0 /\ (snd \in {"open", "fork"} => rcv = "off")
  /\ snd = "fork" => forked
  /\ \A m \in Members(got) : msgtype \in {0, Lines[m]}
  /\ \A m \in Members(got), n \in Members(kernel) : msgtype \in {0, Lines[n]} => m < n
  /\ \A m \in Members(got), n \in Members(dropped) : m < n
  /\ rcv = "ask" /\ qnum = 0 => \A m \in Members(got), n \in Members(kernel) : m < n
  /\ rcv \notin {"off", "open", "failed"} => snd # "open"
  /\ rcv # "done" => dropped = <<>>
  /\ dropped # <<>> => ~exists /\ kernel = <<>>
  /\ snd = "open" => ~exists

\* The hand-off: while no two threads of a process are inside together, the flag
\* says whose turn it is and the box holds the text that is still to be read.
Using(th) == \E t \in 1 .. N : th[t] = "used"
Alone(th) == \A t, u \in Hand!Inside(th) : t = u
Places == {"off", "out", "in", "used", "flagged", "left"}
AllOff == [t \in 1 .. N |-> "off"]

HandBase ==
  /\ con = "setup" => written = 0
  /\ con \in {"setup", "first"} => rthread = AllOff
  /\ con \in {"setup", "first", "second"} => wthread = AllOff
  /\ put \in Seq(Nat) /\ got \in Seq(Nat) /\ box \in Nat

HandTurns ==
  /\ wthread \in [1 .. N -> Places] /\ Alone(wthread)
  /\ rthread \in [1 .. N -> Places] /\ Alone(rthread)
  /\ Using(wthread) => written = 0
  /\ Using(rthread) => written = 1
  /\ written \in {0, 1}
  /\ Len(put) = IF Using(wthread) \/ (written = 1 /\ ~Using(rthread)) THEN Len(got) + 1 ELSE Len(got)
  /\ Len(put) = Len(got) + 1 => box = put[Len(put)]
  /\ \A k \in 1 .. Len(got) : got[k] = put[k]

HandInv == HandBase /\ (overlap \/ HandTurns)

\* The chat client: what was sent is a beginning of what the fifo took, what is
\* in the fifo its end, and while the parent can still send, the line in its
\* hands is all there is between them.
Sending == {"connect", "fork", "read", "send"}
Held == IF parent = "send" THEN 1 ELSE 0

ClientInv ==
  /\ fifo \in Seq(Nat) /\ accepted \in Seq(Nat) /\ out \in Seq(Nat) /\ line \in Nat /\ keyed \in Nat
  /\ Len(out) + Held + Len(fifo) <= Len(accepted)
  /\ parent \in Sending => Len(out) + Held + Len(fifo) = Len(accepted)
  /\ parent \in Sending => \A k \in 1 .. Len(out) : out[k] # quit
  /\ \A k \in 1 .. Len(out) : out[k] = accepted[k] /\ (out[k] = quit => k = Len(out))
  /\ \A k \in 1 .. Len(fifo) : fifo[k] = accepted[Len(accepted) - Len(fifo) + k]
  /\ parent = "send" => line = accepted[Len(accepted) - Len(fifo)]

\* The scheduler: its list holds, once each, the tasks that were inserted and not
\* yet removed; a task that is inserting or removing a node has the mutex; and a
\* task that is not yet in the list was sent nothing.
Tasks == DOMAIN WCT
Listed == {"sem", "run", "deleting"}

ListInv ==
  /\ head \in Seq(Tasks)
  /\ \A i, j \in 1 .. Len(head) : head[i] = head[j] => i = j
  /\ \A t \in Tasks : t \in Members(head) <=> task[t] \in Listed
  /\ \A t \in Tasks : task[t] \in {"insert", "deleting"} => mutex = t

TaskTypes ==
  /\ task \in [Tasks -> {"arrive", "insert", "count", "store", "exit"} \cup Listed]
  /\ susp \in [Tasks -> {"no", "entering", "in"}]
  /\ pend \in [Tasks -> SUBSET {"USR1", "CONT"}]
  /\ wait_sem \in [Tasks -> Nat]
  /\ schedule_status \in [Tasks -> {"NONE", "WAITING", "READY", "RUNNING"}]
  /\ \A t \in Tasks : task[t] \in {"arrive", "insert"} => pend[t] = {} /\ susp[t] = "no" /\ wait_sem[t] = 0

\* The tasks in the list that do not run: those that have not been started yet,
\* and those that were told to stop and have done so or are about to; of them,
\* the ones that are about to be woken.  The tasks that run or are free to.
Fresh == {t \in Tasks : task[t] = "sem" /\ susp[t] = "no" /\ wait_sem[t] = 0 /\ "USR1" \notin pend[t]}
Preempted ==
  {t \in Tasks : /\ task[t] \in {"sem", "run"}
                 /\ IF susp[t] = "no" THEN "USR1" \in pend[t] /\ (task[t] = "sem" => wait_sem[t] > 0)
                    ELSE "USR1" \notin pend[t]}
Called == {t \in Tasks : "CONT" \in pend[t]}
Stopped == (Fresh \cup Preempted) \ Called
Woken == (Fresh \cup Preempted) \cap Called
Going == {t \in Tasks : /\ pend[t] = {} /\ susp[t] = "no"
                        /\ task[t] \in {"run", "deleting"} \/ (task[t] = "sem" /\ wait_sem[t] > 0)}

\* From the moment a task stops the head until the scheduler thread has acted.
Inserting == {t \in Tasks : task[t] = "insert"}
Acting == sched \in {"post", "cont"}
Switching == usr2 \/ Acting \/ Inserting # {}

\* Only the head of the list runs or is woken, and while the scheduler switches
\* not even that one; what the scheduler is about to do suits the head.
TurnsInv ==
  /\ \A i \in 2 .. Len(head) : head[i] \in Stopped
  /\ head # <<>> => IF Switching THEN head[1] \in Stopped ELSE head[1] \in Going \cup Woken
  /\ \A t \in Inserting :
       /\ ~usr2 /\ ~Acting /\ schedule_status[t] = "WAITING"
       /\ head # <<>> => head[1] \in Preempted /\ schedule_status[head[1]] = "READY"
  /\ usr2 => /\ ~Acting /\ head # <<>>
             /\ \/ schedule_status[head[1]] = "WAITING" /\ head[1] \in Fresh
                \/ schedule_status[head[1]] = "READY" /\ head[1] \in Preempted
  /\ sched = "post" => head # <<>> /\ head[1] \in Fresh
  /\ sched = "cont" => head # <<>> /\ head[1] \in Preempted

\* The tasks that end with a SIGUSR1 on its way: the round races when the signal
\* is delivered or lost with its task.
Doomed == {t \in Tasks : "USR1" \in pend[t] /\ task[t] \in {"deleting", "count", "store"}}

RoundInv == TaskTypes /\ ListInv /\ (Doomed # {} \/ TurnsInv)

\* What the list keeps whatever signals cross: it holds no node twice, none of a
\* task that is not inserted yet, and as many as there are tasks in the round.
InRound == {t \in Tasks : task[t] \in Listed}

NodesInv ==
  /\ task \in [Tasks -> {"arrive", "insert", "count", "store", "exit"} \cup Listed]
  /\ head \in Seq(Tasks)
  /\ \A i, j \in 1 .. Len(head) : head[i] = head[j] => i = j
  /\ \A i \in 1 .. Len(head) : task[head[i]] \notin {"arrive", "insert"}
  /\ Len(head) = Cardinality(InRound)

ScheduleInv ==
  /\ schedule_policy \in Round!Policies
  /\ raced \in BOOLEAN /\ corrupt \in BOOLEAN /\ usr2 \in BOOLEAN
  /\ Round!ListOrdered
  /\ NodesInv
  /\ Round!Sound => RoundInv

\* A behaviour runs one program.
MessagesInv ==
  /\ prog = "shm" => ShmInv
  /\ prog = "mail" => MailInv
  /\ prog = "posix" => PosixInv
  /\ prog = "sysv" => SysVInv
  /\ prog = "hand" => HandInv
  /\ prog = "client" => ClientInv

(***************************************************************************)
(* The ring in shared memory.                                              *)
(***************************************************************************)
LEMMA ShmInit == Init /\ prog = "shm" => ShmInv
<1> SUFFICES ASSUME Init, prog = "shm"  PROVE ShmInv
  OBVIOUS
<1> USE Sizes
<1>1. /\ con = "setup" /\ reader = "off" /\ writer = "off" /\ sent = 0 /\ got = <<>>
      /\ length \in 1 .. MaxItem /\ front = 0 /\ rear = 0 /\ mtext = [i \in 0 .. TEXT_NUM |-> 0]
  BY DEF Init, Shm!Init, Shm!InitProcesses, Shm!Slots
<1>2. Children
  BY <1>1 DEF Children
<1>3. mtext \in [0 .. TEXT_NUM -> Nat] /\ Past = 0 /\ 0 % (TEXT_NUM + 1) = 0
  BY <1>1 DEF Past
<1> QED  BY <1>1, <1>2, <1>3 DEF ShmInv

\* The steps of the controller and of the children's start, which leave the
\* texts and the ring alone, and change no process that is already running.
LEMMA ShmControl ==
  ASSUME prog = "shm", prog' = prog, ShmInv,
         Shm!Create \/ Shm!StartReader \/ Shm!StartWriter \/ Shm!Remove
           \/ Shm!WriterAttach \/ Shm!ReaderAttach
  PROVE  ShmInv'
<1> USE Sizes
<1>0. Children
  BY DEF ShmInv
<1>1. /\ UNCHANGED <<length, sent, got, mtext>>
      /\ front' = front /\ rear' = rear
  <2>1. CASE Shm!Create
    <3>1. front = 0 /\ rear = 0
      BY <2>1, <1>0 DEF Shm!Create, Shm!Setup, Children, ShmInv, Past
    <3> QED  BY <3>1, <2>1 DEF Shm!Create, Shm!told
  <2> QED  BY <2>1 DEF Shm!StartReader, Shm!StartWriter, Shm!Remove, Shm!WriterAttach,
                       Shm!ReaderAttach, Shm!told, Shm!buffer
<1>2. /\ Past' = Past
      /\ writer' = "publish" => writer = "publish"
      /\ reader' = "done" => reader = "done"
      /\ IF writer' = "done" THEN writer = "done" ELSE writer # "done"
      /\ writer = "failed" => writer' = "failed"
  BY <1>0, <1>1 DEF Children, Past, Shm!Create, Shm!StartReader, Shm!StartWriter, Shm!Remove,
       Shm!WriterAttach, Shm!ReaderAttach, Shm!Setup, Shm!ForkReader, Shm!ForkWriter, Shm!WaitBoth,
       Shm!AttachReader, Shm!AttachWriter, Shm!Ended
<1>3. Children'
  <2>1. /\ con' \in {"setup", "first", "second", "wait", "removed", "failed"}
        /\ con' # "setup"  \/ con = "setup"
        /\ con' \in {"setup", "first"} => reader' = "off" /\ writer' = "off"
        /\ con' = "second" => writer' = "off"
        /\ con' = "removed" => reader' \in {"done", "failed"} /\ writer' \in {"done", "failed"}
    BY <1>0 DEF Children, Shm!Create, Shm!StartReader, Shm!StartWriter, Shm!Remove,
         Shm!WriterAttach, Shm!ReaderAttach, Shm!Setup, Shm!ForkReader, Shm!ForkWriter, Shm!WaitBoth,
         Shm!AttachReader, Shm!AttachWriter, Shm!Ended
  <2> QED  BY <1>0, <1>1, <1>2, <2>1 DEF Children
<1> QED  BY <1>1, <1>2, <1>3 DEF ShmInv

LEMMA ShmWriteText ==
  ASSUME prog = "shm", prog' = prog, ShmInv, Shm!WriteText
  PROVE  ShmInv'
<1> USE Sizes
<1> DEFINE B == TEXT_NUM + 1
<1>0. Children /\ Past \in Nat /\ sent \in Nat /\ B \in Nat \ {0}
  BY DEF ShmInv, Children
<1>1. /\ UNCHANGED <<length, sent, got, front, rear, con, reader>>
      /\ writer = "wait" /\ writer' = "publish"
      /\ mtext' = [mtext EXCEPT ![rear] = sent + 1]
      /\ (rear + 1) % B # front
  BY DEF Shm!WriteText, Shm!told, Shm!Write, Shm!Full, Shm!Next1
<1>2. Past' = Past
  BY <1>1 DEF Past
<1>3. Children'
  BY <1>0, <1>1 DEF Children
<1>4. sent - Past < TEXT_NUM
  <2>0. sent - Past <= TEXT_NUM /\ rear = sent % B /\ front = Past % B /\ TEXT_NUM \in Nat
    BY DEF ShmInv
  <2> SUFFICES ASSUME sent - Past = TEXT_NUM  PROVE FALSE
    BY <1>0, <2>0
  <2>1. (sent + 1) % B = (Past + B) % B
    BY <1>0
  <2>2. ((sent % B) + 1) % B = (sent + 1) % B
    BY <1>0, ModPlus
  <2>3. (Past + B) % B = Past % B
    <3> HIDE DEF B
    <3> QED  BY <1>0, ModPeriod
  <2> QED  BY <1>1, <2>0, <2>1, <2>2, <2>3
<1>5. rear \in 0 .. TEXT_NUM
  <2>1. rear = sent % B
    BY DEF ShmInv
  <2>2. sent % B \in 0 .. B - 1
    <3> HIDE DEF B
    <3> QED  BY <1>0, ModRange
  <2> QED  BY <2>1, <2>2
<1>6. mtext' \in [0 .. TEXT_NUM -> Nat] /\ mtext'[rear] = sent + 1
  BY <1>0, <1>1, <1>5 DEF ShmInv
<1>7. ASSUME NEW n \in Past + 1 .. sent  PROVE mtext'[(n - 1) % B] = n
  <2>1. n - 1 \in Nat /\ n - 1 < sent /\ sent - (n - 1) < B
    BY <1>0, <1>4
  <2>2. (n - 1) % B # sent % B
    <3> HIDE DEF B
    <3> QED  BY <1>0, <2>1, ModDistinct
  <2>3. (n - 1) % B \in 0 .. TEXT_NUM
    <3>1. (n - 1) % B \in 0 .. B - 1
      <4> HIDE DEF B
      <4> QED  BY <1>0, <2>1, ModRange
    <3> QED  BY <3>1
  <2>4. mtext[(n - 1) % B] = n /\ rear = sent % B /\ mtext \in [0 .. TEXT_NUM -> Nat]
    BY DEF ShmInv
  <2> HIDE DEF B
  <2> QED  BY <1>1, <2>2, <2>3, <2>4
<1> QED  BY <1>0, <1>1, <1>2, <1>3, <1>4, <1>6, <1>7 DEF ShmInv

LEMMA ShmPublish ==
  ASSUME prog = "shm", prog' = prog, ShmInv, Shm!Publish
  PROVE  ShmInv' /\ sent < MaxItem /\ sent - Len(got) < TEXT_NUM
<1> USE Sizes
<1> DEFINE B == TEXT_NUM + 1
<1>0. Children /\ Past \in Nat /\ sent \in Nat /\ B \in Nat \ {0} /\ length \in 1 .. MaxItem
  BY DEF ShmInv, Children
<1>1. /\ UNCHANGED <<length, got, front, mtext, con, reader>>
      /\ writer = "publish" /\ writer' = IF sent + 1 = length THEN "done" ELSE "wait"
      /\ rear' = (rear + 1) % B /\ sent' = sent + 1
  BY DEF Shm!Publish, Shm!IsEnd, Shm!Write, Shm!Next1
<1>2. Past' = Past /\ Past <= Len(got) /\ Len(got) \in Nat
  BY <1>0, <1>1 DEF Past, Children
<1>3. sent < length /\ Children'
  BY <1>0, <1>1 DEF Children
<1>4. rear' = sent' % B
  <2> HIDE DEF B
  <2> QED  BY <1>0, <1>1, ModPlus DEF ShmInv, B
<1>5. ASSUME NEW n \in Past + 1 .. sent'  PROVE mtext'[(n - 1) % B] = n
  <2>1. CASE n = sent + 1
    <3>1. mtext[rear] = sent + 1 /\ rear = sent % B
      BY <1>1 DEF ShmInv
    <3>2. n - 1 = sent
      BY <2>1, <1>0
    <3> HIDE DEF B
    <3> QED  BY <1>1, <2>1, <3>1, <3>2
  <2>2. CASE n # sent + 1
    <3>1. n \in Past + 1 .. sent
      BY <1>0, <1>1, <2>2
    <3> QED  BY <1>1, <3>1 DEF ShmInv
  <2> QED  BY <2>1, <2>2
<1>6. sent - Past < TEXT_NUM /\ TEXT_NUM \in Nat
  BY <1>1 DEF ShmInv
<1>7. ShmInv'
  <2>1. /\ Past' \in Nat /\ Len(got)' <= sent' /\ sent' - Past' <= TEXT_NUM
        /\ writer' # "publish"
    BY <1>0, <1>1, <1>2, <1>6 DEF ShmInv
  <2>2. mtext' \in [0 .. TEXT_NUM -> Nat] /\ front' = Past' % B /\ (reader' = "done" => Len(got)' = length')
    BY <1>1, <1>2 DEF ShmInv
  <2>3. \A n \in Past' + 1 .. sent' : mtext'[(n - 1) % B] = n
    BY <1>2, <1>5
  <2> QED  BY <1>3, <1>4, <2>1, <2>2, <2>3 DEF ShmInv
<1> QED  BY <1>0, <1>2, <1>3, <1>6, <1>7

\* The text the reader finds at front is the next one.
LEMMA ShmFront ==
  ASSUME ShmInv, Past < sent
  PROVE  mtext[front] = Past + 1
<1>1. Past \in Nat /\ sent \in Nat
  BY DEF ShmInv, Children
<1>2. Past + 1 \in Past + 1 .. sent /\ (Past + 1) - 1 = Past
  BY <1>1
<1>3. mtext[((Past + 1) - 1) % (TEXT_NUM + 1)] = Past + 1
  BY <1>2 DEF ShmInv
<1>4. front = Past % (TEXT_NUM + 1)
  BY DEF ShmInv
<1> QED  BY <1>2, <1>3, <1>4

LEMMA ShmPrintText ==
  ASSUME prog = "shm", prog' = prog, ShmInv, Shm!PrintText
  PROVE  ShmInv' /\ Len(got) < sent /\ got' = Append(got, Len(got) + 1) /\ sent' = sent
<1> USE Sizes
<1>0. Children /\ Past \in Nat /\ sent \in Nat /\ got \in Seq(Nat)
  BY DEF ShmInv, Children
<1>1. /\ UNCHANGED <<length, sent, front, rear, mtext, con, writer>>
      /\ reader = "wait" /\ reader' = "check" /\ front # rear
      /\ got' = Append(got, mtext[front])
  BY DEF Shm!PrintText, Shm!Read, Shm!buffer
<1>2. Past = Len(got) /\ Past < sent
  <2>1. Past = Len(got) /\ Past <= sent /\ front = Past % (TEXT_NUM + 1) /\ rear = sent % (TEXT_NUM + 1)
    BY <1>1 DEF ShmInv, Past
  <2> QED  BY <1>0, <1>1, <2>1
<1>3. got' = Append(got, Len(got) + 1)
  BY <1>1, <1>2, ShmFront
<1>4. /\ got' \in Seq(Nat) /\ Len(got') = Len(got) + 1
      /\ \A k \in 1 .. Len(got') : got'[k] = IF k = Len(got) + 1 THEN Len(got) + 1 ELSE got[k]
  BY <1>0, <1>3
<1>5. Past' = Past
  BY <1>0, <1>1, <1>2, <1>4 DEF Past
<1>6. \A k \in 1 .. Len(got') : got'[k] = k
  <2>1. \A k \in 1 .. Len(got) : got[k] = k
    BY <1>0 DEF Children
  <2>2. Len(got) \in Nat /\ \A k \in 1 .. Len(got') : k = Len(got) + 1 \/ k \in 1 .. Len(got)
    BY <1>0, <1>4
  <2> QED  BY <1>4, <2>1, <2>2
<1>7. con # "setup"
  BY <1>0, <1>1 DEF Children
<1>8. Children'
  BY <1>0, <1>1, <1>4, <1>6, <1>7 DEF Children
<1>9. Len(got') <= sent'
  BY <1>0, <1>1, <1>2, <1>4
<1>10. ShmInv'
  BY <1>1, <1>5, <1>8, <1>9 DEF ShmInv
<1> QED  BY <1>1, <1>2, <1>3, <1>10

LEMMA ShmCheckEnd ==
  ASSUME prog = "shm", prog' = prog, ShmInv, Shm!CheckEnd
  PROVE  ShmInv' /\ UNCHANGED <<sent, got>>
<1> USE Sizes
<1> DEFINE B == TEXT_NUM + 1
<1>0. Children /\ Past \in Nat /\ sent \in Nat /\ got \in Seq(Nat) /\ B \in Nat \ {0} /\ Len(got) <= sent
  BY DEF ShmInv, Children
<1>1. /\ UNCHANGED <<length, sent, got, rear, mtext, con, writer>>
      /\ reader = "check"
      /\ \/ mtext[front] = length /\ reader' = "done" /\ front' = front
         \/ reader' = "wait" /\ front' = (front + 1) % B
  BY DEF Shm!CheckEnd, Shm!Read, Shm!buffer, Shm!told, Shm!IsEnd, Shm!Next1
<1>2. Past = Len(got) - 1 /\ Len(got) \in Nat /\ Past < sent
  BY <1>0, <1>1 DEF Past
<1>3. mtext[front] = Len(got)
  BY <1>0, <1>2, ShmFront
<1>4. Children'
  BY <1>0, <1>1 DEF Children
<1>5. CASE mtext[front] = length /\ reader' = "done" /\ front' = front
  <2>1. Past' = Past
    BY <1>1, <1>5 DEF Past
  <2>2. Len(got') = length'
    BY <1>1, <1>3, <1>5
  <2> QED  BY <1>1, <1>4, <1>5, <2>1, <2>2 DEF ShmInv
<1>6. CASE reader' = "wait" /\ front' = (front + 1) % B
  <2>1. Past' = Past + 1
    BY <1>0, <1>1, <1>2, <1>6 DEF Past
  <2>2. front' = Past' % B
    <3>1. front = Past % B
      BY DEF ShmInv
    <3>2. ((Past % B) + 1) % B = (Past + 1) % B
      <4> HIDE DEF B
      <4> QED  BY <1>0, ModPlus
    <3> QED  BY <1>6, <2>1, <3>1, <3>2
  <2>3. /\ mtext \in [0 .. TEXT_NUM -> Nat] /\ rear = sent % B
        /\ sent - Past <= TEXT_NUM
        /\ \A n \in Past + 1 .. sent : mtext[(n - 1) % B] = n
        /\ writer = "publish" => sent - Past < TEXT_NUM /\ mtext[rear] = sent + 1
    BY DEF ShmInv
  <2>4. Past' \in Nat /\ sent - Past' <= TEXT_NUM /\ (sent - Past < TEXT_NUM => sent - Past' < TEXT_NUM)
    BY <1>0, <2>1, <2>3
  <2>5. \A n \in Past' + 1 .. sent : n \in Past + 1 .. sent
    BY <1>0, <2>1
  <2> HIDE DEF B
  <2>6. \A n \in Past' + 1 .. sent : mtext[(n - 1) % B] = n
    BY <2>3, <2>5
  <2> QED  BY <1>0, <1>1, <1>4, <1>6, <2>2, <2>3, <2>4, <2>6 DEF ShmInv, B
<1> QED  BY <1>1, <1>5, <1>6

\* A step of the ring program preserves its invariant, and either puts the next
\* text into the ring, takes the oldest one out, or does neither.
LEMMA ShmStep ==
  ASSUME prog = "shm", ShmInv, RunShm
  PROVE  /\ ShmInv'
         /\ \/ UNCHANGED <<sent, got>>
            \/ sent < MaxItem /\ sent - Len(got) < TEXT_NUM /\ sent' = sent + 1 /\ got' = got
            \/ Len(got) < sent /\ got' = Append(got, Len(got) + 1) /\ sent' = sent
<1>0. prog' = prog /\ Shm!Next
  BY DEF RunShm
<1>1. CASE Shm!Create \/ Shm!StartReader \/ Shm!StartWriter \/ Shm!Remove
             \/ Shm!WriterAttach \/ Shm!ReaderAttach
  <2>1. UNCHANGED <<sent, got>>
    BY <1>1 DEF Shm!Create, Shm!StartReader, Shm!StartWriter, Shm!Remove, Shm!WriterAttach,
                Shm!ReaderAttach, Shm!told
  <2> QED  BY <1>0, <1>1, <2>1, ShmControl
<1>2. CASE Shm!WriteText
  <2>1. UNCHANGED <<sent, got>>
    BY <1>2 DEF Shm!WriteText, Shm!told
  <2> QED  BY <1>0, <1>2, <2>1, ShmWriteText
<1>3. CASE Shm!Publish
  <2>1. sent' = sent + 1 /\ got' = got
    BY <1>3 DEF Shm!Publish
  <2> QED  BY <1>0, <1>3, <2>1, ShmPublish
<1>4. CASE Shm!PrintText
  BY <1>0, <1>4, ShmPrintText
<1>5. CASE Shm!CheckEnd
  BY <1>0, <1>5, ShmCheckEnd
<1> QED  BY <1>0, <1>1, <1>2, <1>3, <1>4, <1>5 DEF Shm!Next

\* The texts that are published and not yet printed, in terms of the two counts.
LEMMA ShmWaiting ==
  ASSUME ShmInv
  PROVE  Shm!Waiting = [k \in 1 .. sent - Len(got) |-> Len(got) + k]
<1> USE Sizes
<1> DEFINE B == TEXT_NUM + 1
           g == Len(got)
<1>0. /\ Past \in Nat /\ sent \in Nat /\ g \in Nat /\ B \in Nat \ {0} /\ TEXT_NUM \in Nat
      /\ g <= sent /\ sent - Past <= TEXT_NUM /\ Past \in {g - 1, g}
      /\ rear = sent % B /\ front = Past % B
  BY DEF ShmInv, Children, Past
<1>1. Shm!First = g % B
  <2>1. CASE reader \notin {"check", "done"}
    BY <2>1, <1>0 DEF Shm!First, Past
  <2>2. CASE reader \in {"check", "done"}
    <3>0. Past = g - 1
      BY <2>2 DEF Past
    <3>1. Past < sent /\ sent - Past < B /\ Past + 1 = g
      BY <1>0, <3>0
    <3>2. Past % B # sent % B
      <4> HIDE DEF B, g
      <4> QED  BY <1>0, <3>1, ModDistinct
    <3>3. Shm!First = (front + 1) % B
      BY <1>0, <2>2, <3>2 DEF Shm!First, Shm!Next1
    <3>4. ((Past % B) + 1) % B = (Past + 1) % B
      <4> HIDE DEF B
      <4> QED  BY <1>0, ModPlus
    <3> HIDE DEF B, g
    <3> QED  BY <1>0, <3>1, <3>3, <3>4
  <2> QED  BY <2>1, <2>2
<1>2. (rear + TEXT_NUM + 1 - Shm!First) % B = sent - g
  <2> DEFINE q == sent \div B
             p == g \div B
             u == sent % B
             v == g % B
             a == u + B - v
  <2>1. /\ q \in Int /\ p \in Int /\ u \in 0 .. B - 1 /\ v \in 0 .. B - 1
        /\ sent = B * q + u /\ g = B * p + v
    <3> HIDE DEF B, g
    <3> QED  BY <1>0
  <2>2. B * (p + 1 - q) = B * p + B - B * q /\ p + 1 - q \in Int
    <3> HIDE DEF B, g
    <3> QED  BY <1>0, <2>1
  <2>3. a \in Nat /\ a = B * (p + 1 - q) + (sent - g) /\ sent - g \in 0 .. B - 1
    <3>1. sent - g \in 0 .. B - 1
      BY <1>0
    <3> HIDE DEF B, g, p, q, u, v
    <3> QED  BY <1>0, <2>1, <2>2, <3>1
  <2>4. a % B = sent - g
    <3> HIDE DEF B, g, a, p, q
    <3> QED  BY <1>0, <2>1, <2>2, <2>3, ModUnique
  <2>5. rear + TEXT_NUM + 1 - Shm!First = a
    <3>1. u = rear /\ v = Shm!First
      BY <1>0, <1>1
    <3> HIDE DEF u, v
    <3> QED  BY <1>0, <2>1, <3>1
  <2> QED  BY <2>4, <2>5
<1>3. ASSUME NEW k \in 1 .. sent - g  PROVE mtext[(Shm!First + k - 1) % B] = g + k
  <2>1. g + k \in Past + 1 .. sent /\ k - 1 \in Nat /\ g + k - 1 = g + (k - 1)
    BY <1>0
  <2>2. ((g % B) + (k - 1)) % B = (g + (k - 1)) % B
    <3> HIDE DEF B, g
    <3> QED  BY <1>0, <2>1, ModPlus
  <2>3. mtext[(g + k - 1) % B] = g + k
    BY <2>1 DEF ShmInv
  <2>4. Shm!First + k - 1 = (g % B) + (k - 1)
    <3>1. g % B \in 0 .. B - 1
      <4> HIDE DEF B, g
      <4> QED  BY <1>0, ModRange
    <3> QED  BY <1>1, <2>1, <3>1
  <2> QED  BY <2>1, <2>2, <2>3, <2>4
<1> QED  BY <1>2, <1>3 DEF Shm!Waiting

LEMMA ShmWaitingNext ==
  (ShmInv => Shm!Waiting = [k \in 1 .. sent - Len(got) |-> Len(got) + k])'
<1>1. ShmInv => Shm!Waiting = [k \in 1 .. sent - Len(got) |-> Len(got) + k]
  BY ShmWaiting
<1> QED  BY <1>1, PTL

LEMMA ShmAlways == Spec => [](prog = "shm" => ShmInv)
<1>1. Init => (prog = "shm" => ShmInv)
  BY ShmInit
<1>2. (prog = "shm" => ShmInv) /\ [Next]_vars => (prog = "shm" => ShmInv)'
  <2> SUFFICES ASSUME prog = "shm" => ShmInv, [Next]_vars, prog' = "shm"  PROVE ShmInv'
    OBVIOUS
  <2>1. CASE UNCHANGED vars
    BY <2>1 DEF vars, procs, told, shm, ShmInv, Children, Past
  <2>2. CASE RunShm
    BY <2>2, ShmStep DEF RunShm
  <2> QED  BY <2>1, <2>2 DEF Next, RunMail, RunPosix, RunSysV, RunHand, RunRound, RunClient, RunUcore
<1> QED  BY <1>1, <1>2, PTL DEF Spec

\* The ring in shared memory is a bounded queue (shmread.c, shmwrite.c), for any
\* number of slots and of texts and although neither process takes a lock: no
\* text is overwritten before it is printed, printed twice or out of order.
THEOREM RingIsQueue == Spec => ShmQueueSpec
<1> USE Sizes
<1> DEFINE Inv == prog = "shm" => ShmInv
           W(s, g) == [k \in 1 .. s - Len(g) |-> Len(g) + k]
<1>1. Init => Queue!Init
  <2> SUFFICES ASSUME Init  PROVE Queue!Init
    OBVIOUS
  <2>1. sent = 0 /\ got = <<>>
    BY DEF Init, Shm!Init, Shm!InitProcesses
  <2>2. prog = "shm" => Shm!Waiting = <<>>
    <3> SUFFICES ASSUME prog = "shm"  PROVE Shm!Waiting = <<>>
      OBVIOUS
    <3>1. Shm!Waiting = W(sent, got)
      BY ShmInit, ShmWaiting
    <3> QED  BY <2>1, <3>1
  <2> QED  BY <2>1, <2>2 DEF Queue!Init
<1>2. Inv /\ Inv' /\ [Next]_vars => [Queue!Next]_Queue!vars
  <2> SUFFICES ASSUME Inv, Inv', [Next]_vars  PROVE [Queue!Next]_Queue!vars
    OBVIOUS
  <2>0. prog' = prog
    BY DEF Next, vars, RunShm, RunMail, RunPosix, RunSysV, RunHand, RunRound, RunClient, RunUcore
  <2>1. CASE prog # "shm"
    BY <2>0, <2>1 DEF Queue!vars
  <2>2. CASE prog = "shm"
    <3> DEFINE q == Shm!Waiting
    <3>1. /\ q = W(sent, got) /\ ShmInv /\ sent \in Nat /\ got \in Seq(Nat)
          /\ Len(got) <= sent /\ Len(got) \in Nat
      BY <2>2, ShmWaiting DEF ShmInv, Children
    <3>4. q' = W(sent', got')
      BY <2>0, <2>2, ShmWaitingNext
    <3>5. \/ UNCHANGED <<sent, got>>
          \/ sent < MaxItem /\ sent - Len(got) < TEXT_NUM /\ sent' = sent + 1 /\ got' = got
          \/ Len(got) < sent /\ got' = Append(got, Len(got) + 1) /\ sent' = sent
      <4>1. CASE UNCHANGED vars
        BY <4>1 DEF vars, told
      <4>2. CASE RunShm
        BY <2>2, <3>1, <4>2, ShmStep
      <4> QED  BY <2>2, <4>1, <4>2 DEF Next, RunMail, RunPosix, RunSysV, RunHand, RunRound,
                                       RunClient, RunUcore
    <3> HIDE DEF q
    <3>6. CASE UNCHANGED <<sent, got>>
      <4>1. q' = q
        BY <3>1, <3>4, <3>6
      <4> QED  BY <2>0, <2>2, <3>6, <4>1 DEF Queue!vars, q
    <3>7. CASE sent < MaxItem /\ sent - Len(got) < TEXT_NUM /\ sent' = sent + 1 /\ got' = got
      <4>1. Len(q) < TEXT_NUM
        BY <3>1, <3>7
      <4>2. q' = Append(q, sent + 1)
        BY <3>1, <3>4, <3>7
      <4> QED  BY <2>0, <2>2, <3>7, <4>1, <4>2 DEF Queue!Next, Queue!Put, q
    <3>8. CASE Len(got) < sent /\ got' = Append(got, Len(got) + 1) /\ sent' = sent
      <4> DEFINE n == sent - Len(got)
                 g == Len(got)
      <4>0. /\ n \in Nat /\ g \in Nat /\ 1 \in 1 .. n
            /\ q = [k \in 1 .. n |-> g + k]
        BY <3>1, <3>8
      <4>2. Len(got') = g + 1 /\ sent' - (g + 1) = n - 1
        BY <3>1, <3>8
      <4>4. q' = [k \in 1 .. n - 1 |-> g + 1 + k]
        BY <3>4, <4>2
      <4> HIDE DEF n, g
      <4>5. Len(q) = n /\ q[1] = g + 1
        BY <4>0
      <4>6. q # <<>> /\ Head(q) = g + 1
        BY <4>0, <4>5
      <4>1. q # <<>> /\ Head(q) = Len(got) + 1
        BY <4>6 DEF g
      <4>3. q' = Tail(q)
        BY <4>0, <4>4
      <4> QED  BY <2>0, <2>2, <3>8, <4>1, <4>3 DEF Queue!Next, Queue!Get, q
    <3> QED  BY <3>5, <3>6, <3>7, <3>8
  <2> QED  BY <2>1, <2>2
<1> QED  BY <1>1, <1>2, ShmAlways, PTL DEF Spec, ShmQueueSpec, Queue!Spec

(***************************************************************************)
(* The mailbox.                                                            *)
(***************************************************************************)
LEMMA MailInit == Init /\ prog = "mail" => MailInv
<1> SUFFICES ASSUME Init, prog = "mail"  PROVE MailInv
  OBVIOUS
<1> USE Sizes
<1>1. /\ con = "setup" /\ reader = "off" /\ writer = "off" /\ sent = 0 /\ got = <<>>
      /\ length \in 1 .. MaxItem /\ written = 0 /\ box = 0
  BY DEF Init, Mail!Init, Mail!InitProcesses
<1>2. Children
  BY <1>1 DEF Children
<1> QED  BY <1>1, <1>2 DEF MailInv

LEMMA MailControl ==
  ASSUME prog = "mail", prog' = prog, MailInv,
         Mail!Create \/ Mail!StartReader \/ Mail!StartWriter \/ Mail!Remove
           \/ Mail!WriterAttach \/ Mail!ReaderAttach
  PROVE  MailInv'
<1> USE Sizes
<1>0. Children
  BY DEF MailInv
<1>1. UNCHANGED <<length, sent, got, box>> /\ written' = written
  <2>1. CASE Mail!Create
    <3>1. written = 0
      <4>1. con = "setup"
        BY <2>1 DEF Mail!Create, Mail!Setup
      <4>2. sent = 0 /\ Len(got) = 0 /\ reader = "off"
        BY <1>0, <4>1 DEF Children
      <4> QED  BY <4>2 DEF MailInv
    <3> QED  BY <3>1, <2>1 DEF Mail!Create, Mail!told
  <2> QED  BY <2>1 DEF Mail!StartReader, Mail!StartWriter, Mail!Remove, Mail!WriterAttach,
                       Mail!ReaderAttach, Mail!told, Mail!mail
<1>2. /\ (writer' = "flag") = (writer = "flag")
      /\ (reader' = "clear") = (reader = "clear")
      /\ reader' = "done" => reader = "done"
      /\ IF writer' = "done" THEN writer = "done" ELSE writer # "done"
      /\ writer = "failed" => writer' = "failed"
  BY <1>0, <1>1 DEF Children, Mail!Create, Mail!StartReader, Mail!StartWriter, Mail!Remove,
       Mail!WriterAttach, Mail!ReaderAttach, Mail!Setup, Mail!ForkReader, Mail!ForkWriter, Mail!WaitBoth,
       Mail!AttachReader, Mail!AttachWriter, Mail!Ended
<1>3. Children'
  <2>1. /\ con' \in {"setup", "first", "second", "wait", "removed", "failed"}
        /\ con' # "setup"  \/ con = "setup"
        /\ con' \in {"setup", "first"} => reader' = "off" /\ writer' = "off"
        /\ con' = "second" => writer' = "off"
        /\ con' = "removed" => reader' \in {"done", "failed"} /\ writer' \in {"done", "failed"}
    BY <1>0 DEF Children, Mail!Create, Mail!StartReader, Mail!StartWriter, Mail!Remove,
         Mail!WriterAttach, Mail!ReaderAttach, Mail!Setup, Mail!ForkReader, Mail!ForkWriter, Mail!WaitBoth,
         Mail!AttachReader, Mail!AttachWriter, Mail!Ended
  <2> QED  BY <1>0, <1>1, <1>2, <2>1 DEF Children
<1> QED  BY <1>1, <1>2, <1>3 DEF MailInv

LEMMA MailStep ==
  ASSUME prog = "mail", MailInv, RunMail
  PROVE  MailInv'
<1> USE Sizes
<1>0. prog' = prog /\ Mail!Next /\ Children /\ sent \in Nat /\ got \in Seq(Nat) /\ Len(got) \in Nat
  BY DEF RunMail, MailInv, Children
<1>1. CASE Mail!Create \/ Mail!StartReader \/ Mail!StartWriter \/ Mail!Remove
             \/ Mail!WriterAttach \/ Mail!ReaderAttach
  BY <1>0, <1>1, MailControl
<1>2. CASE Mail!CopyText
  <2>1. /\ UNCHANGED <<length, sent, got, written, con, reader>>
        /\ writer = "wait" /\ writer' = "flag" /\ box' = sent + 1 /\ written = 0
    BY <1>2 DEF Mail!CopyText, Mail!Write, Mail!told
  <2>2. Children'
    BY <1>0, <2>1 DEF Children
  <2> QED  BY <1>0, <2>1, <2>2 DEF MailInv
<1>3. CASE Mail!SetWritten
  <2>1. /\ UNCHANGED <<length, got, box, con, reader>>
        /\ writer = "flag" /\ writer' = IF sent + 1 = length THEN "done" ELSE "wait"
        /\ written' = 1 /\ sent' = sent + 1
    BY <1>3 DEF Mail!SetWritten, Mail!Write, Mail!IsEnd
  <2>2. Children'
    BY <1>0, <2>1 DEF Children
  <2>3. box = sent + 1 /\ written = 0 /\ reader # "clear" /\ Len(got) = sent
    BY <2>1 DEF MailInv
  <2>4. box' = sent' /\ Len(got') = sent' - 1 /\ writer' # "flag"
    BY <1>0, <2>1, <2>3
  <2> QED  BY <2>1, <2>2, <2>3, <2>4 DEF MailInv
<1>4. CASE Mail!PrintText
  <2>1. /\ UNCHANGED <<length, sent, written, box, con, writer>>
        /\ reader = "wait" /\ reader' = "clear" /\ written = 1 /\ got' = Append(got, box)
    BY <1>4 DEF Mail!PrintText, Mail!Read, Mail!mail
  <2>2. writer # "flag" /\ box = sent /\ Len(got) = sent - 1
    BY <2>1 DEF MailInv
  <2>3. /\ got' \in Seq(Nat) /\ Len(got') = Len(got) + 1 /\ Len(got') = sent
        /\ \A k \in 1 .. Len(got') : got'[k] = IF k = Len(got) + 1 THEN sent ELSE got[k]
    BY <1>0, <2>1, <2>2
  <2>4. \A k \in 1 .. Len(got') : got'[k] = k
    <3>1. \A k \in 1 .. Len(got) : got[k] = k
      BY <1>0 DEF Children
    <3>2. \A k \in 1 .. Len(got') : k = Len(got) + 1 \/ k \in 1 .. Len(got)
      BY <1>0, <2>3
    <3> QED  BY <1>0, <2>2, <2>3, <3>1, <3>2
  <2>5. con # "setup"
    BY <1>0, <2>1 DEF Children
  <2>6. Children'
    BY <1>0, <2>1, <2>3, <2>4, <2>5 DEF Children
  <2> QED  BY <2>1, <2>2, <2>3, <2>6 DEF MailInv
<1>5. CASE Mail!ClearWritten
  <2>1. /\ UNCHANGED <<length, sent, got, box, con, writer>>
        /\ reader = "clear" /\ reader' = "check" /\ written' = 0
    BY <1>5 DEF Mail!ClearWritten, Mail!Read, Mail!told
  <2>2. Children'
    BY <1>0, <2>1 DEF Children
  <2> QED  BY <2>1, <2>2 DEF MailInv
<1>6. CASE Mail!CheckEnd
  <2>1. /\ UNCHANGED <<length, sent, got, box, written, con, writer>>
        /\ reader = "check" /\ reader' = IF box = length THEN "done" ELSE "wait"
    BY <1>6 DEF Mail!CheckEnd, Mail!Read, Mail!told, Mail!mail, Mail!IsEnd
  <2>2. Children'
    BY <1>0, <2>1 DEF Children
  <2>3. ASSUME box = length  PROVE Len(got) >= length - 1
    <3>1. CASE writer = "flag"
      <4>1. box = sent + 1 /\ written = 0 /\ Len(got) = sent
        BY <2>1, <3>1 DEF MailInv
      <4> QED  BY <1>0, <2>3, <4>1
    <3>2. CASE writer # "flag"
      <4>1. box = sent /\ (Len(got) = sent \/ Len(got) = sent - 1)
        BY <2>1, <3>2 DEF MailInv
      <4> QED  BY <1>0, <2>3, <4>1
    <3> QED  BY <3>1, <3>2
  <2> QED  BY <2>1, <2>2, <2>3 DEF MailInv
<1> QED  BY <1>0, <1>1, <1>2, <1>3, <1>4, <1>5, <1>6 DEF Mail!Next

LEMMA MailKeeps == ASSUME MailInv PROVE Mail!MailKept
<1>1. /\ sent \in Nat /\ got \in Seq(Nat) /\ Len(got) \in Nat /\ DOMAIN got = 1 .. Len(got)
      /\ \A k \in 1 .. Len(got) : got[k] = k
  BY DEF MailInv, Children
<1>2. Len(got) = sent \/ Len(got) = sent - 1
  BY DEF MailInv
<1>3. Len(got) \in sent - 1 .. sent
  <2> DEFINE n == Len(got)
  <2>1. n \in Nat /\ (n = sent \/ n = sent - 1)
    BY <1>1, <1>2
  <2> HIDE DEF n
  <2>2. n \in Int /\ sent - 1 <= n /\ n <= sent
    BY <1>1, <2>1
  <2>3. n \in (sent - 1) .. sent
    BY <1>1, <2>2
  <2> QED  BY <2>3 DEF n
<1> QED  BY <1>1, <1>3 DEF Mail!MailKept, Mail!InOrder, MailInv

(***************************************************************************)
(* The POSIX message queue.                                                *)
(***************************************************************************)
LEMMA PosixInit == Init /\ prog = "posix" => PosixInv
<1> SUFFICES ASSUME Init, prog = "posix"  PROVE PosixInv
  OBVIOUS
<1> USE Sizes
<1>1. /\ con = "setup" /\ reader = "off" /\ writer = "off" /\ sent = 0 /\ got = <<>>
      /\ length \in 1 .. MaxItem /\ msgs = <<>>
  BY DEF Init, Posix!Init, Posix!InitProcesses
<1>2. Children
  BY <1>1 DEF Children
<1> QED  BY <1>1, <1>2 DEF PosixInv

LEMMA PosixControl ==
  ASSUME prog = "posix", prog' = prog, PosixInv,
         Posix!Create \/ Posix!StartProducer \/ Posix!StartConsumer \/ Posix!Unlink
           \/ Posix!OpenProducer \/ Posix!OpenConsumer
  PROVE  PosixInv'
<1> USE Sizes
<1>0. Children
  BY DEF PosixInv
<1>1. UNCHANGED <<length, sent, got, msgs>>
  BY DEF Posix!Create, Posix!StartProducer, Posix!StartConsumer, Posix!Unlink, Posix!OpenProducer,
         Posix!OpenConsumer, Posix!told
<1>2. /\ writer' = "send" => writer = "send"
      /\ reader' = "done" => reader = "done"
      /\ IF writer' = "done" THEN writer = "done" ELSE writer # "done"
      /\ writer = "failed" => writer' = "failed"
  BY <1>0, <1>1 DEF Children, Posix!Create, Posix!StartProducer, Posix!StartConsumer, Posix!Unlink,
       Posix!OpenProducer, Posix!OpenConsumer, Posix!Setup, Posix!ForkReader, Posix!ForkWriter,
       Posix!WaitBoth, Posix!AttachReader, Posix!AttachWriter, Posix!Ended
<1>3. Children'
  <2>1. /\ con' \in {"setup", "first", "second", "wait", "removed", "failed"}
        /\ con' # "setup"  \/ con = "setup"
        /\ con' \in {"setup", "first"} => reader' = "off" /\ writer' = "off"
        /\ con' = "second" => reader' = "off"
        /\ con' = "removed" => reader' \in {"done", "failed"} /\ writer' \in {"done", "failed"}
    BY <1>0 DEF Children, Posix!Create, Posix!StartProducer, Posix!StartConsumer, Posix!Unlink,
         Posix!OpenProducer, Posix!OpenConsumer, Posix!Setup, Posix!ForkReader, Posix!ForkWriter,
         Posix!WaitBoth, Posix!AttachReader, Posix!AttachWriter, Posix!Ended
  <2> QED  BY <1>0, <1>1, <1>2, <2>1 DEF Children
<1> QED  BY <1>1, <1>2, <1>3 DEF PosixInv

LEMMA PosixStep ==
  ASSUME prog = "posix", PosixInv, RunPosix
  PROVE  PosixInv'
<1> USE Sizes
<1>0. prog' = prog /\ Posix!Next /\ Children /\ sent \in Nat /\ got \in Seq(Nat) /\ Len(got) \in Nat
  BY DEF RunPosix, PosixInv, Children
<1>1. CASE Posix!Create \/ Posix!StartProducer \/ Posix!StartConsumer \/ Posix!Unlink
             \/ Posix!OpenProducer \/ Posix!OpenConsumer
  BY <1>0, <1>1, PosixControl
<1>2. CASE Posix!SeesEmpty
  <2>1. /\ UNCHANGED <<length, sent, got, msgs, con, reader>>
        /\ writer = "wait" /\ writer' = "send" /\ msgs = <<>>
    BY <1>2 DEF Posix!SeesEmpty, Posix!Write, Posix!told
  <2>2. Children'
    BY <1>0, <2>1 DEF Children
  <2> QED  BY <1>0, <2>1, <2>2 DEF PosixInv
<1>3. CASE Posix!Send
  <2>1. /\ UNCHANGED <<length, got, con, reader>>
        /\ writer = "send" /\ writer' = IF sent + 1 = length THEN "done" ELSE "wait"
        /\ msgs' = Append(msgs, sent + 1) /\ sent' = sent + 1
    BY <1>3 DEF Posix!Send, Posix!Write, Posix!IsEnd
  <2>2. Children'
    BY <1>0, <2>1 DEF Children
  <2>3. msgs = <<>> /\ Len(got) = sent
    BY <2>1 DEF PosixInv
  <2>4. msgs' = <<sent'>> /\ Len(got') = sent' - 1 /\ writer' # "send"
    BY <1>0, <2>1, <2>3
  <2> QED  BY <2>1, <2>2, <2>4 DEF PosixInv
<1>4. CASE Posix!SeesMessage
  <2>1. /\ UNCHANGED <<length, sent, got, msgs, con, writer>>
        /\ reader = "wait" /\ reader' = "receive"
    BY <1>4 DEF Posix!SeesMessage, Posix!Read, Posix!told
  <2>2. Children'
    BY <1>0, <2>1 DEF Children
  <2> QED  BY <2>1, <2>2 DEF PosixInv
<1>5. CASE Posix!Receive
  <2>1. /\ UNCHANGED <<length, sent, con, writer>> /\ msgs # <<>>
        /\ reader = "receive" /\ reader' = IF Head(msgs) = length THEN "done" ELSE "wait"
        /\ got' = Append(got, Head(msgs)) /\ msgs' = Tail(msgs)
    BY <1>5 DEF Posix!Receive, Posix!Read, Posix!IsEnd
  <2>2. msgs = <<sent>> /\ Len(got) = sent - 1
    BY <2>1 DEF PosixInv
  <2>3. Head(msgs) = sent /\ msgs' = <<>>
    BY <2>1, <2>2
  <2>4. /\ got' \in Seq(Nat) /\ Len(got') = Len(got) + 1 /\ Len(got') = sent
        /\ \A k \in 1 .. Len(got') : got'[k] = IF k = Len(got) + 1 THEN sent ELSE got[k]
    BY <1>0, <2>1, <2>2, <2>3
  <2>5. \A k \in 1 .. Len(got') : got'[k] = k
    <3>1. \A k \in 1 .. Len(got) : got[k] = k
      BY <1>0 DEF Children
    <3>2. \A k \in 1 .. Len(got') : k = Len(got) + 1 \/ k \in 1 .. Len(got)
      BY <1>0, <2>4
    <3> QED  BY <1>0, <2>2, <2>4, <3>1, <3>2
  <2>6. con # "setup"
    BY <1>0, <2>1 DEF Children
  <2>7. Children'
    BY <1>0, <2>1, <2>4, <2>5, <2>6 DEF Children
  <2> QED  BY <2>1, <2>3, <2>4, <2>7 DEF PosixInv
<1> QED  BY <1>0, <1>1, <1>2, <1>3, <1>4, <1>5 DEF Posix!Next

LEMMA PosixKeeps == ASSUME PosixInv PROVE Posix!MessagesKept
<1>1. /\ sent \in Nat /\ got \in Seq(Nat) /\ Len(got) \in Nat /\ DOMAIN got = 1 .. Len(got)
      /\ length \in Nat /\ sent <= length
      /\ \A k \in 1 .. Len(got) : got[k] = k
  BY Sizes DEF PosixInv, Children
<1>2. Len(msgs) <= 1 /\ Len(got) + Len(msgs) = sent
  <2>1. CASE msgs = <<>> /\ Len(got) = sent
    BY <1>1, <2>1
  <2>2. CASE msgs = <<sent>> /\ Len(got) = sent - 1
    BY <1>1, <2>2
  <2> QED  BY <2>1, <2>2 DEF PosixInv
<1>3. ASSUME con = "removed", ~Posix!Failed  PROVE msgs = <<>>
  <2>1. reader = "done"
    BY <1>3 DEF PosixInv, Children, Posix!Failed
  <2>2. Len(got) = length
    BY <2>1 DEF PosixInv
  <2>3. Len(got) # sent - 1
    BY <1>1, <2>2
  <2> QED  BY <2>3 DEF PosixInv
<1> QED  BY <1>1, <1>2, <1>3 DEF Posix!MessagesKept, Posix!InOrder

(***************************************************************************)
(* The System V message queue.                                             *)
(***************************************************************************)
\* A sorted sequence stays sorted when something larger is put behind it.
LEMMA SortedAppend ==
  ASSUME NEW n \in Nat, NEW m \in Nat, n <= m, NEW s, Sorted(s, n), NEW x \in 1 .. m,
         \A y \in Members(s) : y < x
  PROVE  Sorted(Append(s, x), m) /\ Members(Append(s, x)) = Members(s) \cup {x}
<1> DEFINE t == Append(s, x)
           l == Len(s)
<1>1. s \in Seq(1 .. n) /\ Increasing(s) /\ l \in Nat /\ \A k \in 1 .. l : s[k] \in 1 .. n
  BY DEF Sorted
<1>2. s \in Seq(1 .. m)
  <2>1. \A k \in 1 .. l : s[k] \in 1 .. m
    BY <1>1
  <2>2. s = [k \in 1 .. l |-> s[k]]
    BY <1>1
  <2> QED  BY <1>1, <2>1, <2>2
<1>3. t \in Seq(1 .. m) /\ Len(t) = l + 1 /\ t[l + 1] = x /\ \A k \in 1 .. l : t[k] = s[k]
  BY <1>2
<1>4. \A k \in 1 .. l : s[k] < x
  BY DEF Members
<1> HIDE DEF t, l
<1>5. \A k \in 1 .. l + 1 : k = l + 1 \/ k \in 1 .. l
  BY <1>1
<1>6. Increasing(t)
  <2> SUFFICES ASSUME NEW j \in 1 .. l + 1, NEW k \in 1 .. l + 1, j < k  PROVE t[j] < t[k]
    BY <1>3 DEF Increasing
  <2>1. j \in 1 .. l
    BY <1>1, <1>5
  <2>2. CASE k = l + 1
    BY <1>3, <1>4, <2>1, <2>2
  <2>3. CASE k \in 1 .. l
    <3>1. s[j] < s[k]
      BY <1>1, <2>1, <2>3 DEF Increasing, l
    <3> QED  BY <1>3, <2>1, <2>3, <3>1
  <2> QED  BY <1>5, <2>2, <2>3
<1>7. Members(t) = Members(s) \cup {x}
  <2>1. Members(t) \subseteq Members(s) \cup {x}
    BY <1>3, <1>5 DEF Members, l
  <2>2. Members(s) \subseteq Members(t)
    <3>1. \A k \in 1 .. l : k \in 1 .. l + 1
      BY <1>1
    <3> QED  BY <1>3, <3>1 DEF Members, l
  <2>3. x \in Members(t)
    <3>1. l + 1 \in 1 .. l + 1
      BY <1>1
    <3> QED  BY <1>3, <3>1 DEF Members
  <2> QED  BY <2>1, <2>2, <2>3
<1> QED  BY <1>3, <1>6, <1>7 DEF Sorted, t

LEMMA SortedWiden ==
  ASSUME NEW n \in Nat, NEW m \in Nat, n <= m, NEW s, Sorted(s, n)
  PROVE  Sorted(s, m) /\ \A y \in Members(s) : y \in 1 .. n
<1> DEFINE l == Len(s)
<1>1. s \in Seq(1 .. n) /\ l \in Nat /\ \A k \in 1 .. l : s[k] \in 1 .. n
  BY DEF Sorted
<1>2. \A k \in 1 .. l : s[k] \in 1 .. m
  BY <1>1
<1>3. s = [k \in 1 .. l |-> s[k]]
  BY <1>1
<1>4. s \in Seq(1 .. m)
  BY <1>1, <1>2, <1>3
<1> QED  BY <1>1, <1>4 DEF Sorted, Members

\* Nor does taking something out of it change the order of the rest.
LEMMA SortedRemove ==
  ASSUME NEW n \in Nat, NEW s, Sorted(s, n), NEW k \in 1 .. Len(s)
  PROVE  Sorted(SysV!RemoveAt(s, k), n) /\ Members(SysV!RemoveAt(s, k)) = Members(s) \ {s[k]}
<1> DEFINE t == SysV!RemoveAt(s, k)
           l == Len(s)
           At(i) == IF i < k THEN i ELSE i + 1
<1>1. s \in Seq(1 .. n) /\ Increasing(s) /\ l \in Nat /\ \A i \in 1 .. l : s[i] \in 1 .. n
  BY DEF Sorted
<1>2. t \in Seq(1 .. n) /\ Len(t) = l - 1 /\ \A i \in 1 .. l - 1 : t[i] = s[At(i)]
  <2>1. t = SubSeq(s, 1, k - 1) \o SubSeq(s, k + 1, l)
    BY DEF SysV!RemoveAt
  <2>2. /\ SubSeq(s, 1, k - 1) \in Seq(1 .. n) /\ Len(SubSeq(s, 1, k - 1)) = k - 1
        /\ \A i \in 1 .. k - 1 : SubSeq(s, 1, k - 1)[i] = s[i]
    BY <1>1
  <2>3. /\ SubSeq(s, k + 1, l) \in Seq(1 .. n) /\ Len(SubSeq(s, k + 1, l)) = l - k
        /\ \A i \in 1 .. l - k : SubSeq(s, k + 1, l)[i] = s[k + i]
    BY <1>1
  <2> DEFINE u == SubSeq(s, 1, k - 1)
             v == SubSeq(s, k + 1, l)
  <2> HIDE DEF u, v
  <2>4. /\ u \in Seq(1 .. n) /\ Len(u) = k - 1 /\ \A i \in 1 .. k - 1 : u[i] = s[i]
        /\ v \in Seq(1 .. n) /\ Len(v) = l - k /\ \A i \in 1 .. l - k : v[i] = s[k + i]
        /\ t = u \o v
    BY <2>1, <2>2, <2>3 DEF u, v
  <2> HIDE DEF t, l
  <2>5. k \in 1 .. l
    BY DEF l
  <2>6. t \in Seq(1 .. n) /\ Len(t) = l - 1
    <3>1. t \in Seq(1 .. n)
      BY <2>4
    <3>0. u \in Seq(1 .. n) /\ v \in Seq(1 .. n)
      BY <2>4
    <3>2. Len(t) = Len(u) + Len(v)
      <4>1. Len(u \o v) = Len(u) + Len(v)
        BY <3>0
      <4> QED  BY <2>4, <4>1
    <3> QED  BY <1>1, <2>4, <2>5, <3>1, <3>2
  <2>7. ASSUME NEW i \in 1 .. l - 1  PROVE t[i] = s[At(i)]
    <3>1. CASE i < k
      BY <1>1, <2>4, <2>5, <3>1
    <3>2. CASE ~(i < k)
      <4>1. i - (k - 1) \in 1 .. l - k /\ k + (i - (k - 1)) = i + 1
        BY <1>1, <2>5, <3>2
      <4>2. t[i] = v[i - (k - 1)]
        <5>1. u \in Seq(1 .. n) /\ v \in Seq(1 .. n)
          BY <2>4
        <5>2. i \in Len(u) + 1 .. Len(u) + Len(v) /\ Len(u) = k - 1
          BY <1>1, <2>4, <2>5, <3>2
        <5>3. (u \o v)[i] = v[i - Len(u)]
          BY <5>1, <5>2, ConcatAt
        <5> QED  BY <2>4, <5>2, <5>3
      <4> QED  BY <2>4, <3>2, <4>1, <4>2
    <3> QED  BY <3>1, <3>2
  <2> QED  BY <2>6, <2>7
<1>3. /\ \A i \in 1 .. l - 1 : At(i) \in 1 .. l /\ At(i) # k
      /\ \A i, j \in 1 .. l - 1 : i < j => At(i) < At(j)
      /\ \A i \in 1 .. l : i # k => \E j \in 1 .. l - 1 : At(j) = i
  <2>0. k \in 1 .. l /\ l \in Nat
    BY <1>1
  <2> HIDE DEF l
  <2>1. /\ \A i \in 1 .. l - 1 : At(i) \in 1 .. l /\ At(i) # k
        /\ \A i, j \in 1 .. l - 1 : i < j => At(i) < At(j)
    BY <2>0
  <2>2. ASSUME NEW i \in 1 .. l, i # k  PROVE \E j \in 1 .. l - 1 : At(j) = i
    <3>1. CASE i < k
      <4>1. i \in 1 .. l - 1 /\ At(i) = i
        BY <2>0, <3>1
      <4> QED  BY <4>1
    <3>2. CASE ~(i < k)
      <4>1. i - 1 \in 1 .. l - 1 /\ At(i - 1) = i
        BY <2>0, <2>2, <3>2
      <4> QED  BY <4>1
    <3> QED  BY <3>1, <3>2
  <2> QED  BY <2>1, <2>2
<1>4. \A i, j \in 1 .. l : i # j => s[i] # s[j]
  BY <1>1 DEF Increasing
<1>5. k \in 1 .. l
  OBVIOUS
<1> HIDE DEF t, l, At
<1>6. Increasing(t)
  <2> SUFFICES ASSUME NEW i \in 1 .. l - 1, NEW j \in 1 .. l - 1, i < j  PROVE t[i] < t[j]
    BY <1>2 DEF Increasing
  <2>1. s[At(i)] < s[At(j)]
    BY <1>1, <1>3 DEF Increasing, l
  <2> QED  BY <1>2, <2>1
<1>7. Members(t) = Members(s) \ {s[k]}
  <2>0. ASSUME NEW i \in 1 .. l - 1  PROVE t[i] \in Members(s)
    BY <1>2, <1>3 DEF Members, l
  <2>1. Members(t) \subseteq Members(s)
    <3>1. \A x \in Members(t) : \E i \in 1 .. l - 1 : x = t[i]
      BY <1>2 DEF Members
    <3> QED  BY <2>0, <3>1
  <2>2. s[k] \notin Members(t)
    <3> SUFFICES ASSUME NEW i \in 1 .. l - 1, s[k] = t[i]  PROVE FALSE
      BY <1>2 DEF Members
    <3>1. At(i) \in 1 .. l /\ At(i) # k /\ t[i] = s[At(i)]
      BY <1>2, <1>3
    <3> QED  BY <1>4, <1>5, <3>1
  <2>3. ASSUME NEW i \in 1 .. l, s[i] # s[k]  PROVE s[i] \in Members(t)
    <3>1. PICK j \in 1 .. l - 1 : At(j) = i
      BY <1>3, <2>3
    <3> QED  BY <1>2, <3>1 DEF Members
  <2> QED  BY <2>1, <2>2, <2>3 DEF Members, l
<1> QED  BY <1>2, <1>6, <1>7 DEF Sorted, t

\* Two sequences without repetition and without a common member, one behind the
\* other, have no repetition either.
Distinct(s) == s \in Seq(Nat) /\ \A j, k \in 1 .. Len(s) : s[j] = s[k] => j = k

LEMMA SortedDistinct ==
  ASSUME NEW n \in Nat, NEW s, Sorted(s, n)
  PROVE  Distinct(s)
<1>1. s \in Seq(1 .. n) /\ Increasing(s) /\ \A k \in 1 .. Len(s) : s[k] \in 1 .. n
  BY DEF Sorted
<1>2. s \in Seq(Nat)
  <2>1. s = [k \in 1 .. Len(s) |-> s[k]] /\ Len(s) \in Nat
    BY <1>1
  <2> QED  BY <1>1, <2>1
<1>3. ASSUME NEW j \in 1 .. Len(s), NEW k \in 1 .. Len(s), s[j] = s[k], j # k  PROVE FALSE
  BY <1>1, <1>3 DEF Increasing
<1> QED  BY <1>2, <1>3 DEF Distinct

LEMMA DistinctConcat ==
  ASSUME NEW s, Distinct(s), NEW t, Distinct(t), Members(s) \cap Members(t) = {}
  PROVE  Distinct(s \o t) /\ Members(s \o t) = Members(s) \cup Members(t)
<1> DEFINE r == s \o t
           l == Len(s)
           m == Len(t)
<1>1. s \in Seq(Nat) /\ t \in Seq(Nat)
  BY DEF Distinct
<1>2. /\ l \in Nat /\ m \in Nat /\ r \in Seq(Nat) /\ Len(r) = l + m
      /\ \A k \in 1 .. l : r[k] = s[k]
      /\ \A k \in 1 .. m : r[l + k] = t[k]
  BY <1>1
<1>3. \A j \in 1 .. l, k \in 1 .. m : s[j] # t[k]
  BY DEF Members
<1>4. /\ \A j, k \in 1 .. l : s[j] = s[k] => j = k
      /\ \A j, k \in 1 .. m : t[j] = t[k] => j = k
  BY DEF Distinct
<1> HIDE DEF r, l, m
<1>5. /\ \A k \in 1 .. l + m : k \in 1 .. l \/ (k - l \in 1 .. m /\ l + (k - l) = k)
      /\ \A k \in 1 .. l : k \in 1 .. l + m
      /\ \A k \in 1 .. m : l + k \in 1 .. l + m
  BY <1>2
<1>6. ASSUME NEW j \in 1 .. l + m, NEW k \in 1 .. l + m, r[j] = r[k]  PROVE j = k
  <2>1. CASE j \in 1 .. l /\ k \in 1 .. l
    BY <1>2, <1>4, <1>6, <2>1
  <2>2. CASE j \in 1 .. l /\ k - l \in 1 .. m /\ l + (k - l) = k
    BY <1>2, <1>3, <1>6, <2>2
  <2>3. CASE k \in 1 .. l /\ j - l \in 1 .. m /\ l + (j - l) = j
    BY <1>2, <1>3, <1>6, <2>3
  <2>4. CASE j - l \in 1 .. m /\ l + (j - l) = j /\ k - l \in 1 .. m /\ l + (k - l) = k
    <3>1. r[j] = t[j - l] /\ r[k] = t[k - l]
      BY <1>2, <2>4
    <3>2. j - l = k - l
      BY <1>4, <1>6, <2>4, <3>1
    <3> QED  BY <2>4, <3>2
  <2> QED  BY <1>5, <2>1, <2>2, <2>3, <2>4
<1>7. Members(r) = Members(s) \cup Members(t)
  <2>1. ASSUME NEW k \in 1 .. l + m  PROVE r[k] \in Members(s) \cup Members(t)
    <3>1. CASE k \in 1 .. l
      BY <1>2, <3>1 DEF Members, l
    <3>2. CASE k - l \in 1 .. m /\ l + (k - l) = k
      <4>1. r[k] = t[k - l]
        BY <1>2, <3>2
      <4> QED  BY <3>2, <4>1 DEF Members, m
    <3> QED  BY <1>5, <3>1, <3>2
  <2>2. ASSUME NEW k \in 1 .. l  PROVE s[k] \in Members(r)
    BY <1>2, <1>5 DEF Members
  <2>3. ASSUME NEW k \in 1 .. m  PROVE t[k] \in Members(r)
    BY <1>2, <1>5 DEF Members
  <2>4. /\ \A x \in Members(r) : \E k \in 1 .. l + m : x = r[k]
        /\ \A x \in Members(s) : \E k \in 1 .. l : x = s[k]
        /\ \A x \in Members(t) : \E k \in 1 .. m : x = t[k]
    BY <1>2 DEF Members, l, m
  <2>5. Members(r) \subseteq Members(s) \cup Members(t)
    BY <2>1, <2>4
  <2>6. Members(s) \subseteq Members(r) /\ Members(t) \subseteq Members(r)
    BY <2>2, <2>3, <2>4
  <2> QED  BY <2>5, <2>6
<1> QED  BY <1>2, <1>6, <1>7 DEF Distinct, r

LEMMA SysVInit == Init /\ prog = "sysv" => SysVInv
<1> SUFFICES ASSUME Init, prog = "sysv"  PROVE SysVInv
  OBVIOUS
<1>1. /\ snd = "open" /\ rcv = "off" /\ exists = FALSE /\ kernel = <<>>
      /\ sent = 0 /\ got = <<>> /\ dropped = <<>> /\ (forked => msgtype = 0)
  BY DEF Init, SysV!Init
<1>2. Sorted(<<>>, 0) /\ Members(<<>>) = {}
  BY DEF Sorted, Increasing, Members
<1>3. 1 .. 0 = {}
  OBVIOUS
<1> QED  BY <1>1, <1>2, <1>3 DEF SysVInv

\* The steps that only move one of the two processes.
LEMMA SysVControl ==
  ASSUME SysVInv,
         SysV!SndOpen \/ SysV!ForkRcv \/ SysV!SndStat \/ SysV!SndEnd \/ SysV!UserStartsRcv
           \/ SysV!RcvOpen \/ SysV!Miss \/ SysV!RcvStat
  PROVE  SysVInv'
<1>1. UNCHANGED <<forked, msgtype, kernel, sent, got, dropped>>
  BY DEF SysV!SndOpen, SysV!ForkRcv, SysV!SndStat, SysV!SndEnd, SysV!UserStartsRcv,
         SysV!RcvOpen, SysV!Miss, SysV!RcvStat
<1>2. /\ rcv = "done" => rcv' = "done"
      /\ snd' = "open" => snd = "open" /\ ~exists'
      /\ exists' => exists \/ (snd = "open" /\ rcv # "done")
      /\ rcv' \notin {"off", "open", "failed"} => snd' # "open"
      /\ forked /\ snd' \in {"open", "fork"} => rcv' = "off"
      /\ snd' = "fork" => forked
  <2>1. CASE SysV!SndOpen
    BY <2>1 DEF SysV!SndOpen, SysVInv
  <2>2. CASE SysV!RcvOpen
    BY <2>2 DEF SysV!RcvOpen, SysVInv
  <2>3. CASE SysV!ForkRcv \/ SysV!SndStat \/ SysV!SndEnd
    BY <2>3 DEF SysV!ForkRcv, SysV!SndStat, SysV!SndEnd, SysVInv
  <2>4. CASE SysV!UserStartsRcv \/ SysV!Miss \/ SysV!RcvStat
    BY <2>4 DEF SysV!UserStartsRcv, SysV!Miss, SysV!RcvStat, SysVInv
  <2> QED  BY <2>1, <2>2, <2>3, <2>4
<1>3. ASSUME rcv' = "ask", qnum' = 0, NEW m \in Members(got), NEW n \in Members(kernel)  PROVE m < n
  <2>1. CASE SysV!Miss
    <3>1. msgtype = 0
      BY <1>3, <2>1 DEF SysV!Miss, SysVInv
    <3> QED  BY <3>1, <1>3 DEF SysVInv
  <2>2. CASE SysV!RcvStat
    <3>1. Len(kernel) = 0
      BY <1>3, <2>2 DEF SysV!RcvStat
    <3> QED  BY <3>1, <1>3 DEF Members
  <2>3. CASE SysV!SndOpen \/ SysV!ForkRcv \/ SysV!SndStat \/ SysV!SndEnd
    <3>1. rcv = "ask" /\ qnum = 0
      BY <1>3, <2>3 DEF SysV!SndOpen, SysV!ForkRcv, SysV!SndStat, SysV!SndEnd
    <3> QED  BY <3>1, <1>3 DEF SysVInv
  <2> QED  BY <1>3, <2>1, <2>2, <2>3 DEF SysV!UserStartsRcv, SysV!RcvOpen
<1>4. /\ rcv' # "done" => dropped' = <<>>
      /\ dropped' # <<>> => ~exists' /\ kernel' = <<>>
  BY <1>1, <1>2 DEF SysVInv
<1> HIDE DEF Sorted
<1> QED  BY <1>1, <1>2, <1>3, <1>4 DEF SysVInv

LEMMA SysVSend ==
  ASSUME SysVInv, SysV!Send
  PROVE  SysVInv'
<1>0. /\ sent \in Nat /\ Sorted(got, sent) /\ Sorted(kernel, sent) /\ Sorted(dropped, sent)
      /\ snd = "send"
      /\ UNCHANGED <<forked, msgtype, rcv, exists, got, qnum, dropped>>
  BY DEF SysVInv, SysV!Send
<1>1. CASE ~exists /\ snd' = "failed" /\ UNCHANGED <<kernel, sent>>
  BY <1>0, <1>1 DEF SysVInv
<1>2. CASE /\ exists /\ kernel' = Append(kernel, sent + 1) /\ sent' = sent + 1
           /\ snd' = IF forked THEN "stat" ELSE "send"
  <2>1. \A s : Sorted(s, sent) => Sorted(s, sent') /\ \A y \in Members(s) : y \in 1 .. sent
    <3>1. sent + 1 \in Nat /\ sent <= sent + 1
      BY <1>0
    <3> QED  BY <1>0, <1>2, <3>1, SortedWiden
  <2>2. Sorted(kernel', sent') /\ Members(kernel') = Members(kernel) \cup {sent + 1}
    <3>1. \A y \in Members(kernel) : y < sent + 1
      BY <1>0, <2>1
    <3>2. sent + 1 \in Nat /\ sent <= sent + 1 /\ sent + 1 \in 1 .. sent + 1
      BY <1>0
    <3> QED  BY <1>0, <1>2, <3>1, <3>2, SortedAppend
  <2>3. Sorted(got', sent') /\ Sorted(dropped', sent')
    BY <1>0, <2>1
  <2>4. dropped = <<>> /\ Members(dropped) = {}
    BY <1>2 DEF SysVInv, Members
  <2>5. \A m \in Members(got) : m < sent + 1 /\ m # sent + 1
    BY <1>0, <2>1
  <2>6. Members(got') \cup Members(kernel') \cup Members(dropped') = 1 .. sent'
    <3>1. Members(got) \cup Members(kernel) \cup Members(dropped) = 1 .. sent
      BY DEF SysVInv
    <3>2. 1 .. sent' = (1 .. sent) \cup {sent + 1}
      BY <1>0, <1>2
    <3> QED  BY <1>0, <2>2, <3>1, <3>2
  <2>7. /\ Members(got') \cap Members(kernel') = {}
        /\ Members(dropped') \cap (Members(got') \cup Members(kernel')) = {}
    <3>1. Members(got) \cap Members(kernel) = {}
      BY DEF SysVInv
    <3> QED  BY <1>0, <2>2, <2>4, <2>5, <3>1
  <2>8. \A m \in Members(got'), n \in Members(kernel') : msgtype' \in {0, Lines[n]} => m < n
    BY <1>0, <2>2, <2>5 DEF SysVInv
  <2>9. rcv' = "ask" /\ qnum' = 0 => \A m \in Members(got'), n \in Members(kernel') : m < n
    BY <1>0, <2>2, <2>5 DEF SysVInv
  <2>10. sent' \in Nat /\ snd' # "open" /\ snd' # "fork"
    BY <1>0, <1>2
  <2>11. /\ forked => msgtype = 0
         /\ \A m \in Members(got) : msgtype \in {0, Lines[m]}
         /\ \A m \in Members(got), n \in Members(dropped) : m < n
    BY DEF SysVInv
  <2> QED  BY <1>0, <2>2, <2>3, <2>4, <2>6, <2>7, <2>8, <2>9, <2>10, <2>11 DEF SysVInv
<1> QED  BY <1>1, <1>2 DEF SysV!Send

LEMMA SysVReceive ==
  ASSUME SysVInv, SysV!Receive
  PROVE  SysVInv'
<1> DEFINE W == SysV!Wanted
           k == CHOOSE i \in W : \A j \in W : i <= j
           x == kernel[k]
<1>0. /\ sent \in Nat /\ Sorted(got, sent) /\ Sorted(kernel, sent) /\ Sorted(dropped, sent)
      /\ rcv = "receive" /\ rcv' = (IF forked THEN "stat" ELSE "receive") /\ W # {}
      /\ got' = Append(got, x) /\ kernel' = SysV!RemoveAt(kernel, k)
      /\ UNCHANGED <<forked, msgtype, snd, exists, sent, qnum, dropped>>
  BY DEF SysVInv, SysV!Receive
<1>1. /\ kernel \in Seq(1 .. sent) /\ Increasing(kernel) /\ Len(kernel) \in Nat
      /\ DOMAIN kernel = 1 .. Len(kernel)
  BY <1>0 DEF Sorted
<1>2. W = {i \in 1 .. Len(kernel) : msgtype \in {0, Lines[kernel[i]]}}
  BY <1>1 DEF SysV!Wanted
<1>3. k \in W /\ \A j \in W : k <= j
  <2>1. W \in SUBSET Nat
    BY <1>1, <1>2
  <2> HIDE DEF W
  <2>2. \E i \in W : \A j \in W : i <= j
    BY <1>0, <2>1, SmallestInSet
  <2> QED  BY <2>2
<1> HIDE DEF W, k
<1>4. /\ k \in 1 .. Len(kernel) /\ msgtype \in {0, Lines[x]} /\ x \in Members(kernel) /\ x \in 1 .. sent
  <2>1. k \in 1 .. Len(kernel) /\ msgtype \in {0, Lines[x]}
    BY <1>2, <1>3
  <2>2. x \in Members(kernel)
    BY <2>1 DEF Members
  <2>3. sent <= sent
    BY <1>0
  <2>4. x \in 1 .. sent
    BY <1>0, <2>2, <2>3, SortedWiden
  <2> QED  BY <2>1, <2>2, <2>4
<1> HIDE DEF x
<1>5. \A m \in Members(got) : m < x
  BY <1>4 DEF SysVInv
<1>6. Sorted(got', sent') /\ Members(got') = Members(got) \cup {x}
  <2>1. sent <= sent
    BY <1>0
  <2> QED  BY <1>0, <1>4, <1>5, <2>1, SortedAppend
<1>7. Sorted(kernel', sent') /\ Members(kernel') = Members(kernel) \ {x}
  BY <1>0, <1>4, SortedRemove DEF x
<1>8. dropped = <<>> /\ Members(dropped) = {}
  BY <1>0 DEF SysVInv, Members
<1>9. ASSUME NEW n \in Members(kernel'), msgtype \in {0, Lines[n]}  PROVE x < n
  <2>1. PICK j \in 1 .. Len(kernel) : n = kernel[j]
    BY <1>7 DEF Members
  <2>2. j \in W /\ j # k
    BY <1>2, <1>7, <1>9, <2>1 DEF x
  <2>3. k < j
    BY <1>3, <1>4, <2>1, <2>2
  <2> QED  BY <1>1, <1>4, <2>1, <2>3 DEF Increasing, x
<1>10. \A m \in Members(got'), n \in Members(kernel') : msgtype' \in {0, Lines[n]} => m < n
  <2>1. \A m \in Members(got), n \in Members(kernel) : msgtype \in {0, Lines[n]} => m < n
    BY DEF SysVInv
  <2> QED  BY <1>0, <1>6, <1>7, <1>9, <2>1
<1>11. Members(got') \cup Members(kernel') \cup Members(dropped') = 1 .. sent'
  <2>1. Members(got) \cup Members(kernel) \cup Members(dropped) = 1 .. sent
    BY DEF SysVInv
  <2> QED  BY <1>0, <1>4, <1>6, <1>7, <2>1
<1>12. /\ Members(got') \cap Members(kernel') = {}
       /\ Members(dropped') \cap (Members(got') \cup Members(kernel')) = {}
  <2>1. Members(got) \cap Members(kernel) = {}
    BY DEF SysVInv
  <2> QED  BY <1>0, <1>6, <1>7, <1>8, <2>1
<1>13. \A m \in Members(got') : msgtype' \in {0, Lines[m]}
  <2>1. \A m \in Members(got) : msgtype \in {0, Lines[m]}
    BY DEF SysVInv
  <2> QED  BY <1>0, <1>4, <1>6, <2>1
<1>14. /\ rcv' # "ask" /\ rcv' # "done" /\ snd # "open" /\ snd # "fork"
       /\ forked => msgtype = 0
  BY <1>0 DEF SysVInv
<1>15. \A m \in Members(got'), n \in Members(dropped') : m < n
  BY <1>0, <1>8
<1> QED  BY <1>0, <1>6, <1>7, <1>8, <1>10, <1>11, <1>12, <1>13, <1>14, <1>15 DEF SysVInv

LEMMA SysVAsk ==
  ASSUME SysVInv, SysV!Ask
  PROVE  SysVInv'
<1>0. /\ rcv = "ask" /\ rcv' = "done"
      /\ UNCHANGED <<forked, msgtype, snd, sent, got, qnum>>
      /\ dropped = <<>> /\ snd # "open" /\ snd # "fork"
  BY DEF SysVInv, SysV!Ask
<1>1. CASE UNCHANGED <<exists, kernel, dropped>>
  BY <1>0, <1>1 DEF SysVInv
<1>2. CASE qnum = 0 /\ exists' = FALSE /\ dropped' = kernel /\ kernel' = <<>>
  <2>1. Sorted(<<>>, sent) /\ Members(<<>>) = {}
    BY DEF Sorted, Increasing, Members
  <2>2. /\ \A m \in Members(got), n \in Members(kernel) : m < n
        /\ Members(got) \cup Members(kernel) \cup Members(<<>>) = 1 .. sent
        /\ Members(got) \cap Members(kernel) = {}
        /\ sent \in Nat /\ Sorted(got, sent) /\ Sorted(kernel, sent)
        /\ forked => msgtype = 0
        /\ \A m \in Members(got) : msgtype \in {0, Lines[m]}
    BY <1>0, <1>2 DEF SysVInv
  <2> QED  BY <1>0, <1>2, <2>1, <2>2 DEF SysVInv
<1> QED  BY <1>1, <1>2 DEF SysV!Ask

LEMMA SysVStep ==
  ASSUME SysVInv, RunSysV
  PROVE  SysVInv'
BY SysVControl, SysVSend, SysVReceive, SysVAsk DEF RunSysV, SysV!Next

LEMMA SysVKeeps == ASSUME SysVInv PROVE SysV!LinesKept
<1> DEFINE lines == got \o kernel \o dropped
<1>1. /\ sent \in Nat /\ Sorted(got, sent) /\ Sorted(kernel, sent) /\ Sorted(dropped, sent)
      /\ Members(got) \cup Members(kernel) \cup Members(dropped) = 1 .. sent
      /\ Members(got) \cap Members(kernel) = {}
      /\ Members(dropped) \cap (Members(got) \cup Members(kernel)) = {}
      /\ \A m \in Members(got) : msgtype \in {0, Lines[m]}
      /\ \A m \in Members(got), n \in Members(dropped) : m < n
  BY DEF SysVInv
<1>2. Distinct(got) /\ Distinct(kernel) /\ Distinct(dropped)
  BY <1>1, SortedDistinct
<1>3. Distinct(got \o kernel) /\ Members(got \o kernel) = Members(got) \cup Members(kernel)
  BY <1>1, <1>2, DistinctConcat
<1>4. Distinct(lines) /\ Members(lines) = 1 .. sent
  <2>1. Members(got \o kernel) \cap Members(dropped) = {}
    BY <1>1, <1>3
  <2>2. Distinct(lines) /\ Members(lines) = Members(got \o kernel) \cup Members(dropped)
    BY <1>2, <1>3, <2>1, DistinctConcat
  <2> QED  BY <1>1, <1>3, <2>2
<1>5. \A s : Distinct(s) => SysV!Range(s) = Members(s) /\ SysV!IsInjective(s) /\ DOMAIN s = 1 .. Len(s)
  <2> SUFFICES ASSUME NEW s, Distinct(s)
               PROVE  SysV!Range(s) = Members(s) /\ SysV!IsInjective(s) /\ DOMAIN s = 1 .. Len(s)
    OBVIOUS
  <2>1. s \in Seq(Nat) /\ \A j, k \in 1 .. Len(s) : s[j] = s[k] => j = k
    BY DEF Distinct
  <2>2. DOMAIN s = 1 .. Len(s)
    BY <2>1
  <2> QED  BY <2>1, <2>2 DEF SysV!Range, SysV!IsInjective, Members
<1>6. \A j, k \in DOMAIN got : j < k => got[j] < got[k]
  BY <1>1, <1>2, <1>5 DEF Sorted, Increasing
<1> HIDE DEF lines
<1>7. SysV!IsInjective(lines) /\ SysV!Range(lines) = 1 .. sent
  BY <1>4, <1>5
<1>8. SysV!Range(got) = Members(got) /\ SysV!Range(dropped) = Members(dropped)
  BY <1>2, <1>5
<1> QED  BY <1>1, <1>6, <1>7, <1>8 DEF SysV!LinesKept, lines

(***************************************************************************)
(* The hand-off.                                                           *)
(***************************************************************************)
LEMMA HandInit == Init /\ prog = "hand" => HandInv
<1> SUFFICES ASSUME Init, prog = "hand"  PROVE HandInv
  OBVIOUS
<1>1. /\ con = "setup" /\ written = 0 /\ box = 0 /\ put = <<>> /\ got = <<>>
      /\ wthread = AllOff /\ rthread = AllOff
  BY DEF Init, Hand!Init, Hand!Threads, AllOff
<1>2. AllOff \in [1 .. N -> Places] /\ Alone(AllOff) /\ ~Using(AllOff)
  BY DEF AllOff, Places, Alone, Using, Hand!Inside, Hand!Threads
<1>3. HandBase
  BY <1>1 DEF HandBase
<1>4. HandTurns
  BY <1>1, <1>2 DEF HandTurns
<1> QED  BY <1>3, <1>4 DEF HandInv

\* What the move of one thread does to the threads that are inside.
LEMMA ThreadMoves ==
  ASSUME NEW th \in [1 .. N -> Places], Alone(th), NEW t \in 1 .. N, NEW v \in Places,
         NEW h, h = [th EXCEPT ![t] = v]
  PROVE  /\ h \in [1 .. N -> Places]
         /\ \/ t \in Hand!Inside(th) \/ v \notin {"in", "used", "flagged"} \/ Hand!Inside(th) = {}
            => Alone(h)
         /\ v = "used" => Using(h)
         /\ th[t] = "in" => ~Using(th)
         /\ th[t] = "used" => Using(th)
         /\ v # "used" /\ th[t] = "used" => ~Using(h)
         /\ v # "used" /\ th[t] # "used" => (Using(h) <=> Using(th))
<1>1. /\ h \in [1 .. N -> Places] /\ h[t] = v
      /\ \A u \in 1 .. N : u # t => h[u] = th[u]
  OBVIOUS
<1>2. /\ Hand!Inside(h) = {u \in 1 .. N : h[u] \in {"in", "used", "flagged"}}
      /\ Hand!Inside(th) = {u \in 1 .. N : th[u] \in {"in", "used", "flagged"}}
  BY DEF Hand!Inside, Hand!Threads
<1>3. \A u, w \in 1 .. N : u \in Hand!Inside(th) /\ w \in Hand!Inside(th) => u = w
  BY <1>2 DEF Alone
<1>4. ASSUME t \in Hand!Inside(th) \/ v \notin {"in", "used", "flagged"} \/ Hand!Inside(th) = {}
      PROVE  Alone(h)
  <2> SUFFICES ASSUME NEW u \in Hand!Inside(h), NEW w \in Hand!Inside(h)  PROVE u = w
    BY DEF Alone
  <2>1. u \in 1 .. N /\ w \in 1 .. N
    BY <1>2
  <2>2. (u = t \/ u \in Hand!Inside(th)) /\ (w = t \/ w \in Hand!Inside(th))
    BY <1>1, <1>2, <2>1
  <2>3. CASE v \notin {"in", "used", "flagged"}
    <3>1. u # t /\ w # t
      BY <1>1, <1>2, <2>3
    <3> QED  BY <1>3, <2>1, <2>2, <3>1
  <2> QED  BY <1>3, <1>4, <2>1, <2>2, <2>3
<1>5. /\ v = "used" => Using(h)
      /\ th[t] = "in" => ~Using(th)
      /\ th[t] = "used" => Using(th)
      /\ v # "used" /\ th[t] = "used" => ~Using(h)
  BY <1>1, <1>2, <1>3 DEF Using
<1>6. v # "used" /\ th[t] # "used" => (Using(h) <=> Using(th))
  BY <1>1 DEF Using
<1> QED  BY <1>1, <1>4, <1>5, <1>6

LEMMA HandBaseStep ==
  ASSUME HandBase, Hand!Next
  PROVE  HandBase'
<1>1. CASE Hand!Create
  BY <1>1 DEF Hand!Create, HandBase
<1>2. CASE Hand!StartReader
  BY <1>2 DEF Hand!StartReader, HandBase
<1>3. CASE Hand!StartWriter
  BY <1>3 DEF Hand!StartWriter, HandBase
<1>4. CASE Hand!Remove
  BY <1>4 DEF Hand!Remove, HandBase
<1>5. ASSUME NEW t \in 1 .. N, Hand!Writer(t)  PROVE HandBase'
  <2>1. wthread # AllOff
    BY <1>5 DEF Hand!Writer, Hand!WriterEnters, Hand!Enters, Hand!WriteText, Hand!SetWritten,
                Hand!WriterLeaves, Hand!Leaves, AllOff
  <2>2. con \notin {"setup", "first", "second"} /\ con' = con /\ UNCHANGED got
    BY <1>5, <2>1 DEF HandBase, Hand!Writer, Hand!WriterEnters, Hand!WriteText, Hand!SetWritten,
                      Hand!WriterLeaves
  <2>3. put' \in Seq(Nat) /\ box' \in Nat
    <3>1. CASE Hand!WriteText(t)
      BY <3>1 DEF Hand!WriteText, HandBase
    <3> QED  BY <1>5, <3>1 DEF Hand!Writer, Hand!WriterEnters, Hand!SetWritten, Hand!WriterLeaves, HandBase
  <2> QED  BY <2>2, <2>3 DEF HandBase
<1>6. ASSUME NEW t \in 1 .. N, Hand!Reader(t)  PROVE HandBase'
  <2>1. rthread # AllOff
    BY <1>6 DEF Hand!Reader, Hand!ReaderEnters, Hand!Enters, Hand!ReadText, Hand!ClearWritten,
                Hand!ReaderLeaves, Hand!Leaves, AllOff
  <2>2. con \notin {"setup", "first"} /\ con' = con /\ UNCHANGED <<put, box, wthread>>
    BY <1>6, <2>1 DEF HandBase, Hand!Reader, Hand!ReaderEnters, Hand!ReadText, Hand!ClearWritten,
                      Hand!ReaderLeaves
  <2>3. got' \in Seq(Nat)
    <3>1. CASE Hand!ReadText(t)
      BY <3>1 DEF Hand!ReadText, HandBase
    <3> QED  BY <1>6, <3>1 DEF Hand!Reader, Hand!ReaderEnters, Hand!ClearWritten, Hand!ReaderLeaves, HandBase
  <2> QED  BY <2>2, <2>3 DEF HandBase
<1> QED  BY <1>1, <1>2, <1>3, <1>4, <1>5, <1>6 DEF Hand!Next, Hand!Threads

LEMMA HandWriterStep ==
  ASSUME HandBase, HandTurns, NEW t \in 1 .. N, Hand!Writer(t), ~overlap'
  PROVE  HandTurns'
<1>0. /\ wthread \in [1 .. N -> Places] /\ Alone(wthread)
      /\ put \in Seq(Nat) /\ got \in Seq(Nat) /\ Len(put) \in Nat /\ Len(got) \in Nat
      /\ UNCHANGED <<rthread, got>>
  BY DEF HandBase, HandTurns, Hand!Writer, Hand!WriterEnters, Hand!WriteText, Hand!SetWritten,
         Hand!WriterLeaves
<1>1. CASE Hand!WriterEnters(t)
  <2>1. /\ wthread[t] = "out" /\ Hand!Inside(wthread) = {} /\ UNCHANGED <<written, box, put>>
        /\ wthread' = [wthread EXCEPT ![t] = "in"]
    BY <1>1 DEF Hand!WriterEnters, Hand!Enters
  <2>2. /\ wthread' \in [1 .. N -> Places] /\ Alone(wthread') /\ (Using(wthread') <=> Using(wthread))
    BY <1>0, <2>1, ThreadMoves DEF Places
  <2> QED  BY <1>0, <2>1, <2>2 DEF HandTurns
<1>2. CASE Hand!WriterLeaves(t)
  <2>1. /\ wthread[t] = "flagged" /\ UNCHANGED <<written, box, put>>
        /\ wthread' = [wthread EXCEPT ![t] = "left"]
    BY <1>2 DEF Hand!WriterLeaves, Hand!Leaves
  <2>2. /\ wthread' \in [1 .. N -> Places] /\ Alone(wthread') /\ (Using(wthread') <=> Using(wthread))
    BY <1>0, <2>1, ThreadMoves DEF Places
  <2> QED  BY <1>0, <2>1, <2>2 DEF HandTurns
<1>3. CASE Hand!WriteText(t)
  <2>1. /\ wthread[t] = "in" /\ written = 0 /\ written' = written
        /\ wthread' = [wthread EXCEPT ![t] = "used"]
        /\ box' = t /\ put' = Append(put, t)
    BY <1>3 DEF Hand!WriteText
  <2>2. /\ wthread' \in [1 .. N -> Places] /\ Alone(wthread') /\ Using(wthread') /\ ~Using(wthread)
    <3>1. t \in Hand!Inside(wthread)
      BY <2>1 DEF Hand!Inside, Hand!Threads
    <3> QED  BY <1>0, <2>1, <3>1, ThreadMoves DEF Places
  <2>3. Len(put) = Len(got) /\ ~Using(rthread)
    BY <2>1, <2>2 DEF HandTurns
  <2>4. /\ Len(put') = Len(got) + 1 /\ put'[Len(put')] = t
        /\ \A k \in 1 .. Len(got) : put'[k] = put[k]
    BY <1>0, <2>1, <2>3
  <2>5. \A k \in 1 .. Len(got') : got'[k] = put'[k]
    BY <1>0, <2>4 DEF HandTurns
  <2>6. rthread' \in [1 .. N -> Places] /\ Alone(rthread') /\ ~Using(rthread')
    BY <1>0, <2>3 DEF HandTurns
  <2> QED  BY <1>0, <2>1, <2>2, <2>4, <2>5, <2>6 DEF HandTurns
<1>4. CASE Hand!SetWritten(t)
  <2>1. /\ wthread[t] = "used" /\ written' = 1 /\ UNCHANGED <<box, put>>
        /\ wthread' = [wthread EXCEPT ![t] = "flagged"]
    BY <1>4 DEF Hand!SetWritten
  <2>2. /\ wthread' \in [1 .. N -> Places] /\ Alone(wthread') /\ Using(wthread) /\ ~Using(wthread')
    <3>1. t \in Hand!Inside(wthread)
      BY <2>1 DEF Hand!Inside, Hand!Threads
    <3> QED  BY <1>0, <2>1, <3>1, ThreadMoves DEF Places
  <2>3. written = 0 /\ ~Using(rthread) /\ Len(put) = Len(got) + 1
    BY <2>2 DEF HandTurns
  <2>4. rthread' \in [1 .. N -> Places] /\ Alone(rthread') /\ ~Using(rthread')
    BY <1>0, <2>3 DEF HandTurns
  <2>5. /\ Len(put') = Len(got') + 1 /\ box' = put'[Len(put')]
        /\ \A k \in 1 .. Len(got') : got'[k] = put'[k]
    BY <1>0, <2>1, <2>3 DEF HandTurns
  <2> QED  BY <2>1, <2>2, <2>4, <2>5 DEF HandTurns
<1> QED  BY <1>1, <1>2, <1>3, <1>4 DEF Hand!Writer

LEMMA HandReaderStep ==
  ASSUME HandBase, HandTurns, NEW t \in 1 .. N, Hand!Reader(t), ~overlap'
  PROVE  HandTurns'
<1>0. /\ rthread \in [1 .. N -> Places] /\ Alone(rthread)
      /\ put \in Seq(Nat) /\ got \in Seq(Nat) /\ Len(put) \in Nat /\ Len(got) \in Nat
      /\ UNCHANGED <<wthread, put, box>>
  BY DEF HandBase, HandTurns, Hand!Reader, Hand!ReaderEnters, Hand!ReadText, Hand!ClearWritten,
         Hand!ReaderLeaves
<1>1. CASE Hand!ReaderEnters(t)
  <2>1. /\ rthread[t] = "out" /\ Hand!Inside(rthread) = {} /\ UNCHANGED <<written, got>>
        /\ rthread' = [rthread EXCEPT ![t] = "in"]
    BY <1>1 DEF Hand!ReaderEnters, Hand!Enters
  <2>2. /\ rthread' \in [1 .. N -> Places] /\ Alone(rthread') /\ (Using(rthread') <=> Using(rthread))
    BY <1>0, <2>1, ThreadMoves DEF Places
  <2> QED  BY <1>0, <2>1, <2>2 DEF HandTurns
<1>2. CASE Hand!ReaderLeaves(t)
  <2>1. /\ rthread[t] = "flagged" /\ UNCHANGED <<written, got>>
        /\ rthread' = [rthread EXCEPT ![t] = "left"]
    BY <1>2 DEF Hand!ReaderLeaves, Hand!Leaves
  <2>2. /\ rthread' \in [1 .. N -> Places] /\ Alone(rthread') /\ (Using(rthread') <=> Using(rthread))
    BY <1>0, <2>1, ThreadMoves DEF Places
  <2> QED  BY <1>0, <2>1, <2>2 DEF HandTurns
<1>3. CASE Hand!ReadText(t)
  <2>1. /\ rthread[t] = "in" /\ written = 1 /\ written' = written
        /\ rthread' = [rthread EXCEPT ![t] = "used"]
        /\ got' = Append(got, box)
    BY <1>3 DEF Hand!ReadText
  <2>2. /\ rthread' \in [1 .. N -> Places] /\ Alone(rthread') /\ Using(rthread') /\ ~Using(rthread)
    <3>1. t \in Hand!Inside(rthread)
      BY <2>1 DEF Hand!Inside, Hand!Threads
    <3> QED  BY <1>0, <2>1, <3>1, ThreadMoves DEF Places
  <2>3. Len(put) = Len(got) + 1 /\ ~Using(wthread) /\ box = put[Len(put)]
    BY <2>1, <2>2 DEF HandTurns
  <2>4. /\ Len(got') = Len(got) + 1
        /\ \A k \in 1 .. Len(got') : got'[k] = IF k = Len(got) + 1 THEN box ELSE got[k]
    BY <1>0, <2>1 DEF HandBase
  <2>5. \A k \in 1 .. Len(got') : got'[k] = put'[k]
    <3>1. \A k \in 1 .. Len(got) : got[k] = put[k]
      BY DEF HandTurns
    <3>2. \A k \in 1 .. Len(got') : k = Len(got) + 1 \/ k \in 1 .. Len(got)
      BY <1>0, <2>4
    <3> QED  BY <1>0, <2>3, <2>4, <3>1, <3>2
  <2>6. wthread' \in [1 .. N -> Places] /\ Alone(wthread') /\ ~Using(wthread')
    BY <1>0, <2>3 DEF HandTurns
  <2>7. Len(put') = Len(got') /\ Len(put') # Len(got') + 1
    BY <1>0, <2>3, <2>4
  <2> QED  BY <2>1, <2>2, <2>5, <2>6, <2>7 DEF HandTurns
<1>4. CASE Hand!ClearWritten(t)
  <2>1. /\ rthread[t] = "used" /\ written' = 0 /\ UNCHANGED got
        /\ rthread' = [rthread EXCEPT ![t] = "flagged"]
    BY <1>4 DEF Hand!ClearWritten
  <2>2. /\ rthread' \in [1 .. N -> Places] /\ Alone(rthread') /\ Using(rthread) /\ ~Using(rthread')
    <3>1. t \in Hand!Inside(rthread)
      BY <2>1 DEF Hand!Inside, Hand!Threads
    <3> QED  BY <1>0, <2>1, <3>1, ThreadMoves DEF Places
  <2>3. written = 1 /\ ~Using(wthread) /\ Len(put) = Len(got)
    BY <2>2 DEF HandTurns
  <2>4. wthread' \in [1 .. N -> Places] /\ Alone(wthread') /\ ~Using(wthread')
    BY <1>0, <2>3 DEF HandTurns
  <2>5. /\ Len(put') = Len(got') /\ Len(put') # Len(got') + 1
        /\ \A k \in 1 .. Len(got') : got'[k] = put'[k]
    BY <1>0, <2>1, <2>3 DEF HandTurns
  <2> QED  BY <2>1, <2>2, <2>4, <2>5 DEF HandTurns
<1> QED  BY <1>1, <1>2, <1>3, <1>4 DEF Hand!Reader

LEMMA HandStep ==
  ASSUME HandInv, RunHand
  PROVE  HandInv'
<1>0. HandBase /\ Hand!Next /\ HandBase'
  BY HandBaseStep DEF HandInv, RunHand
<1> SUFFICES ASSUME ~overlap'  PROVE HandTurns'
  BY <1>0 DEF HandInv
<1>1. ~overlap
  BY <1>0 DEF Hand!Next, Hand!Create, Hand!StartReader, Hand!StartWriter, Hand!Remove, Hand!Writer,
       Hand!Reader, Hand!WriterEnters, Hand!ReaderEnters, Hand!Enters, Hand!WriteText, Hand!SetWritten,
       Hand!ReadText, Hand!ClearWritten, Hand!WriterLeaves, Hand!ReaderLeaves
<1>2. HandTurns
  BY <1>1 DEF HandInv
<1>3. \A h \in [1 .. N -> {"out", "off"}] :
         h \in [1 .. N -> Places] /\ Alone(h) /\ ~Using(h)
  BY DEF Places, Alone, Using, Hand!Inside, Hand!Threads
<1>4. ~Using(AllOff)
  BY DEF Using, AllOff
<1>5. CASE Hand!Create
  <2>1. written = 0 /\ written' = 0 /\ UNCHANGED <<wthread, rthread, box, put, got>>
    BY <1>0, <1>5 DEF Hand!Create, HandBase
  <2> QED  BY <1>2, <2>1 DEF HandTurns
<1>6. CASE Hand!StartReader
  <2>1. UNCHANGED <<wthread, written, box, put, got>> /\ rthread = AllOff
    BY <1>0, <1>6 DEF Hand!StartReader, HandBase
  <2>2. CASE rthread' = rthread
    BY <1>2, <2>1, <2>2 DEF HandTurns
  <2>3. CASE rthread' \in [1 .. N -> {"out", "off"}]
    <3>1. rthread' \in [1 .. N -> Places] /\ Alone(rthread') /\ ~Using(rthread') /\ ~Using(rthread)
      BY <1>3, <1>4, <2>1, <2>3
    <3> QED  BY <1>2, <2>1, <3>1 DEF HandTurns
  <2> QED  BY <1>6, <2>2, <2>3 DEF Hand!StartReader, Hand!Starts, Hand!Threads
<1>7. CASE Hand!StartWriter
  <2>1. UNCHANGED <<rthread, written, box, put, got>> /\ wthread = AllOff
    BY <1>0, <1>7 DEF Hand!StartWriter, HandBase
  <2>2. CASE wthread' = wthread
    BY <1>2, <2>1, <2>2 DEF HandTurns
  <2>3. CASE wthread' \in [1 .. N -> {"out", "off"}]
    <3>1. wthread' \in [1 .. N -> Places] /\ Alone(wthread') /\ ~Using(wthread') /\ ~Using(wthread)
      BY <1>3, <1>4, <2>1, <2>3
    <3> QED  BY <1>2, <2>1, <3>1 DEF HandTurns
  <2> QED  BY <1>7, <2>2, <2>3 DEF Hand!StartWriter, Hand!Starts, Hand!Threads
<1>8. CASE Hand!Remove
  BY <1>2, <1>8 DEF Hand!Remove, HandTurns
<1>9. ASSUME NEW t \in 1 .. N, Hand!Writer(t) \/ Hand!Reader(t)  PROVE HandTurns'
  BY <1>0, <1>2, <1>9, HandWriterStep, HandReaderStep
<1> QED  BY <1>0, <1>5, <1>6, <1>7, <1>8, <1>9 DEF Hand!Next, Hand!Threads

LEMMA HandKeeps == ASSUME HandInv PROVE Hand!TextsKept
<1> SUFFICES ASSUME HandTurns
             PROVE  Len(put) - Len(got) \in {0, 1} /\ \A k \in DOMAIN got : got[k] = put[k]
  BY DEF HandInv, Hand!TextsKept
<1>1. put \in Seq(Nat) /\ got \in Seq(Nat) /\ Len(put) \in Nat /\ Len(got) \in Nat
      /\ DOMAIN got = 1 .. Len(got)
  BY DEF HandInv, HandBase
<1>2. Len(put) = Len(got) \/ Len(put) = Len(got) + 1
  BY DEF HandTurns
<1>3. \A k \in 1 .. Len(got) : got[k] = put[k]
  BY DEF HandTurns
<1>4. Len(put) - Len(got) \in {0, 1}
  <2> DEFINE m == Len(put)
             n == Len(got)
  <2>1. m \in Nat /\ n \in Nat /\ (m = n \/ m = n + 1)
    BY <1>1, <1>2
  <2> HIDE DEF m, n
  <2>2. m - n \in {0, 1}
    BY <2>1
  <2> QED  BY <2>2 DEF m, n
<1> QED  BY <1>1, <1>3, <1>4

(***************************************************************************)
(* The chat client.                                                        *)
(***************************************************************************)
LEMMA ClientInit == Init /\ prog = "client" => ClientInv
<1> SUFFICES ASSUME Init, prog = "client"  PROVE ClientInv
  OBVIOUS
<1>1. /\ parent = "connect" /\ line = 0 /\ fifo = <<>> /\ keyed = 0 /\ accepted = <<>> /\ out = <<>>
  BY DEF Init, Client!Init
<1> QED  BY <1>1 DEF ClientInv, Sending, Held

LEMMA ClientTypes == Client!TypeLine /\ ClientInv => ClientInv'
<1> SUFFICES ASSUME Client!TypeLine, ClientInv  PROVE ClientInv'
  OBVIOUS
<1> DEFINE a == Len(accepted)
           f == Len(fifo)
<1>0. /\ fifo \in Seq(Nat) /\ accepted \in Seq(Nat) /\ out \in Seq(Nat) /\ line \in Nat /\ keyed \in Nat
      /\ a \in Nat /\ f \in Nat /\ Len(out) \in Nat /\ Held \in {0, 1} /\ Held' = Held
      /\ keyed' = keyed + 1 /\ UNCHANGED <<parent, line, quit, out>>
      /\ Len(out) + Held + f <= a
      /\ parent = "send" => Held = 1
  BY DEF Client!TypeLine, ClientInv, Held
<1>1. CASE UNCHANGED <<fifo, accepted>>
  BY <1>0, <1>1 DEF ClientInv
<1>2. CASE fifo' = Append(fifo, keyed + 1) /\ accepted' = Append(accepted, keyed + 1)
  <2>1. /\ fifo' \in Seq(Nat) /\ Len(fifo') = f + 1 /\ fifo'[f + 1] = keyed + 1
        /\ \A k \in 1 .. f : fifo'[k] = fifo[k]
    BY <1>0, <1>2
  <2>2. /\ accepted' \in Seq(Nat) /\ Len(accepted') = a + 1 /\ accepted'[a + 1] = keyed + 1
        /\ \A k \in 1 .. a : accepted'[k] = accepted[k]
    BY <1>0, <1>2
  <2>3. /\ \A k \in 1 .. Len(out) : out[k] = accepted[k] /\ (out[k] = quit => k = Len(out))
        /\ \A k \in 1 .. f : fifo[k] = accepted[a - f + k]
        /\ parent = "send" => line = accepted[a - f]
        /\ parent \in Sending => Len(out) + Held + f = a /\ \A k \in 1 .. Len(out) : out[k] # quit
    BY DEF ClientInv
  <2> HIDE DEF a, f
  <2>4. \A k \in 1 .. Len(out) : k \in 1 .. a
    BY <1>0
  <2>5. ASSUME NEW k \in 1 .. f + 1  PROVE fifo'[k] = accepted'[(a + 1) - (f + 1) + k]
    <3>1. CASE k = f + 1
      <4>1. (a + 1) - (f + 1) + k = a + 1
        BY <1>0, <3>1
      <4> QED  BY <2>1, <2>2, <3>1, <4>1
    <3>2. CASE k \in 1 .. f
      <4>1. (a + 1) - (f + 1) + k = a - f + k /\ a - f + k \in 1 .. a
        BY <1>0, <3>2
      <4> QED  BY <2>1, <2>2, <2>3, <3>2, <4>1
    <3> QED  BY <1>0, <3>1, <3>2
  <2>6. ASSUME parent = "send"  PROVE line = accepted'[(a + 1) - (f + 1)]
    <3>1. (a + 1) - (f + 1) = a - f /\ a - f \in 1 .. a
      BY <1>0, <2>6
    <3> QED  BY <2>2, <2>3, <2>6, <3>1
  <2>7. Len(out) + Held + (f + 1) <= a + 1 /\ (Len(out) + Held + f = a => Len(out) + Held + (f + 1) = a + 1)
    <3>1. Len(out) \in Nat /\ Held \in Nat /\ Len(out) + Held + f <= a
      BY <1>0
    <3> DEFINE o == Len(out)
    <3> HIDE DEF o
    <3>2. o \in Nat /\ o + Held + f <= a
      BY <3>1 DEF o
    <3>3. o + Held + (f + 1) <= a + 1 /\ (o + Held + f = a => o + Held + (f + 1) = a + 1)
      BY <1>0, <3>1, <3>2
    <3> QED  BY <3>3 DEF o
  <2>8. \A k \in 1 .. Len(out) : out[k] = accepted'[k] /\ (out[k] = quit => k = Len(out))
    BY <2>2, <2>3, <2>4
  <2>9. keyed' \in Nat
    BY <1>0
  <2> QED  BY <1>0, <2>1, <2>2, <2>3, <2>5, <2>6, <2>7, <2>8, <2>9 DEF ClientInv
<1> QED  BY <1>1, <1>2 DEF Client!TypeLine

LEMMA ClientReads == Client!ReadLine /\ ClientInv => ClientInv'
<1> SUFFICES ASSUME Client!ReadLine, ClientInv  PROVE ClientInv'
  OBVIOUS
<1> DEFINE a == Len(accepted)
           f == Len(fifo)
<1>0. /\ fifo \in Seq(Nat) /\ accepted \in Seq(Nat) /\ out \in Seq(Nat) /\ keyed \in Nat
      /\ a \in Nat /\ f \in Nat /\ Len(out) \in Nat
      /\ parent = "read" /\ parent' = "send" /\ fifo # <<>>
      /\ line' = Head(fifo) /\ fifo' = Tail(fifo)
      /\ UNCHANGED <<keyed, quit, accepted, out>>
      /\ \A k \in 1 .. f : fifo[k] = accepted[a - f + k]
  BY DEF Client!ReadLine, ClientInv
<1>1. Held = 0 /\ Held' = 1 /\ parent \in Sending /\ parent' \in Sending
  BY <1>0 DEF Held, Sending
<1>2. /\ Len(out) + f = a /\ \A k \in 1 .. Len(out) : out[k] # quit
  BY <1>0, <1>1 DEF ClientInv
<1>3. f # 0 /\ 1 \in 1 .. f
  BY <1>0
<1>4. /\ fifo' \in Seq(Nat) /\ Len(fifo') = f - 1 /\ line' = fifo[1] /\ line' \in Nat
      /\ \A k \in 1 .. f - 1 : fifo'[k] = fifo[k + 1]
  BY <1>0, <1>3
<1> HIDE DEF a, f
<1>5. ASSUME NEW k \in 1 .. f - 1  PROVE fifo'[k] = accepted[a - (f - 1) + k]
  <2>1. k + 1 \in 1 .. f /\ a - f + (k + 1) = a - (f - 1) + k
    BY <1>0
  <2> QED  BY <1>0, <1>4, <2>1
<1>6. line' = accepted[a - (f - 1)]
  <2>1. a - f + 1 = a - (f - 1)
    BY <1>0
  <2> QED  BY <1>0, <1>3, <1>4, <2>1
<1>7. Len(out) + 1 + (f - 1) = a /\ Len(out) + 1 + (f - 1) <= a
  BY <1>0, <1>2
<1>8. \A k \in 1 .. Len(out) : out[k] = accepted[k] /\ (out[k] = quit => k = Len(out))
  BY DEF ClientInv
<1> QED  BY <1>0, <1>1, <1>2, <1>4, <1>5, <1>6, <1>7, <1>8 DEF ClientInv, a

LEMMA ClientSends == Client!SendLine /\ ClientInv => ClientInv'
<1> SUFFICES ASSUME Client!SendLine, ClientInv  PROVE ClientInv'
  OBVIOUS
<1> DEFINE a == Len(accepted)
           f == Len(fifo)
           o == Len(out)
<1>0. /\ fifo \in Seq(Nat) /\ accepted \in Seq(Nat) /\ out \in Seq(Nat) /\ keyed \in Nat /\ line \in Nat
      /\ a \in Nat /\ f \in Nat /\ o \in Nat
      /\ parent = "send"
      /\ UNCHANGED <<line, fifo, keyed, quit, accepted>>
      /\ \A k \in 1 .. f : fifo[k] = accepted[a - f + k]
      /\ line = accepted[a - f]
      /\ \A k \in 1 .. o : out[k] = accepted[k]
  BY DEF Client!SendLine, ClientInv
<1>1. Held = 1 /\ parent \in Sending
  BY <1>0 DEF Held, Sending
<1>2. o + 1 + f = a /\ \A k \in 1 .. o : out[k] # quit
  BY <1>0, <1>1 DEF ClientInv
<1>3. CASE out' = Append(out, line) /\ parent' = (IF line = quit THEN "quit" ELSE "read")
  <2>1. Held' = 0 /\ (parent' \in Sending => line # quit)
    BY <1>3 DEF Held, Sending
  <2>2. /\ out' \in Seq(Nat) /\ Len(out') = o + 1
        /\ \A k \in 1 .. o + 1 : out'[k] = IF k = o + 1 THEN line ELSE out[k]
    BY <1>0, <1>3
  <2> HIDE DEF a, f, o
  <2>3. a - f = o + 1 /\ o + 1 + 0 + f = a /\ o + 1 + 0 + f <= a
    BY <1>0, <1>2
  <2>4. \A k \in 1 .. o + 1 : k = o + 1 \/ k \in 1 .. o
    BY <1>0
  <2>5. \A k \in 1 .. o + 1 : out'[k] = accepted[k] /\ (out'[k] = quit => k = o + 1)
    BY <1>0, <1>2, <2>2, <2>3, <2>4
  <2>6. parent' \in Sending => \A k \in 1 .. o + 1 : out'[k] # quit
    BY <1>2, <2>1, <2>2, <2>4
  <2>7. parent' # "send"
    BY <1>3
  <2> QED  BY <1>0, <2>1, <2>2, <2>3, <2>5, <2>6, <2>7 DEF ClientInv, a, f
<1>4. CASE parent' \in {"close", "killed"} /\ UNCHANGED out
  <2>1. Held' = 0 /\ parent' \notin Sending /\ parent' # "send"
    BY <1>4 DEF Held, Sending
  <2>2. o + 0 + f <= a
    BY <1>0, <1>2
  <2>3. \A k \in 1 .. o : out[k] = accepted[k] /\ (out[k] = quit => k = o)
    BY <1>0, <1>2
  <2> QED  BY <1>0, <1>4, <2>1, <2>2, <2>3 DEF ClientInv
<1> QED  BY <1>3, <1>4 DEF Client!SendLine

LEMMA ClientStep ==
  ASSUME ClientInv, RunClient
  PROVE  ClientInv'
<1>0. Client!Next
  BY DEF RunClient
<1>1. CASE Client!TypeLine
  BY <1>1, ClientTypes
<1>2. CASE Client!ReadLine
  BY <1>2, ClientReads
<1>3. CASE Client!SendLine
  BY <1>3, ClientSends
<1>4. CASE Client!Connect \/ Client!Fork \/ Client!SendQuit \/ Client!KillChild \/ Client!Recv
             \/ Client!KillParent \/ Client!Server
  <2>1. UNCHANGED <<line, fifo, keyed, quit, accepted, out>>
    BY <1>4 DEF Client!Connect, Client!Fork, Client!SendQuit, Client!KillChild, Client!Recv,
                Client!KillParent, Client!Server
  <2>2. /\ parent' \in Sending => parent \in Sending
        /\ parent' = "send" => parent = "send"
    BY <1>4 DEF Client!Connect, Client!Fork, Client!SendQuit, Client!KillChild, Client!Recv,
                Client!KillParent, Client!Server, Sending, Client!Over
  <2>3. (Held' = Held \/ (Held' = 0 /\ Held = 1)) /\ (Held' # Held => parent' \notin Sending) /\ Held \in {0, 1}
    BY <1>4 DEF Client!Connect, Client!Fork, Client!SendQuit, Client!KillChild, Client!Recv,
                Client!KillParent, Client!Server, Sending, Held, Client!Over
  <2>4. Len(out) + Held + Len(fifo) <= Len(accepted) => Len(out) + Held' + Len(fifo) <= Len(accepted)
    BY <2>3 DEF ClientInv
  <2> QED  BY <2>1, <2>2, <2>3, <2>4 DEF ClientInv
<1> QED  BY <1>0, <1>1, <1>2, <1>3, <1>4 DEF Client!Next, Client!Client

\* A sequence that agrees with the last places of another one is its end.
LEMMA EndOf ==
  ASSUME NEW e \in Seq(Nat), NEW w \in Seq(Nat), NEW f \in Nat, Len(e) = f, NEW a \in Nat, Len(w) = a,
         f <= a, \A k \in 1 .. f : e[k] = w[a - f + k]
  PROVE  e = SubSeq(w, a - f + 1, a)
<1> DEFINE b == a - f + 1
           s == SubSeq(w, b, a)
<1>1. b \in 1 .. a + 1 /\ a - b + 1 = f
  OBVIOUS
<1> HIDE DEF b
<1>2. s = [k \in 1 .. (a - b + 1) |-> w[b + k - 1]]
  BY <1>1
<1>3. e = [k \in 1 .. f |-> e[k]]
  OBVIOUS
<1>4. \A k \in 1 .. f : b + k - 1 = a - f + k
  BY <1>1 DEF b
<1> HIDE DEF s
<1>5. e = s
  BY <1>1, <1>2, <1>3, <1>4
<1> QED  BY <1>5 DEF s, b

LEMMA ClientKeeps == ASSUME ClientInv PROVE Client!LinesSent
<1> DEFINE a == Len(accepted)
           f == Len(fifo)
           o == Len(out)
           t == <<line>> \o fifo
<1>0. /\ fifo \in Seq(Nat) /\ accepted \in Seq(Nat) /\ out \in Seq(Nat) /\ line \in Nat
      /\ \A k \in 1 .. f : fifo[k] = accepted[a - f + k]
      /\ \A k \in 1 .. o : out[k] = accepted[k] /\ (out[k] = quit => k = o)
      /\ o + Held + f <= a
      /\ parent = "send" => line = accepted[a - f]
  BY DEF ClientInv
<1>1. a \in Nat /\ f \in Nat /\ o \in Nat /\ DOMAIN out = 1 .. o
  BY <1>0
<1>2. \A k \in DOMAIN out : out[k] = accepted[k] /\ (out[k] = quit => k = Len(out))
  BY <1>0, <1>1
<1>3. CASE parent = "send"
  <2>1. Held = 1
    BY <1>3 DEF Held
  <2>2. t \in Seq(Nat) /\ Len(t) = f + 1 /\ t[1] = line /\ \A k \in 2 .. f + 1 : t[k] = fifo[k - 1]
    BY <1>0
  <2>3. accepted \in Seq(Nat) /\ Len(accepted) = a
    BY <1>0
  <2>4. line = accepted[a - f]
    BY <1>0, <1>3
  <2> HIDE DEF a, f, o, t
  <2>5. f + 1 <= a /\ f + 1 \in Nat
    BY <1>0, <1>1, <2>1
  <2>6. ASSUME NEW k \in 1 .. f + 1  PROVE t[k] = accepted[a - (f + 1) + k]
    <3>1. CASE k = 1
      <4>1. a - (f + 1) + k = a - f
        BY <1>1, <3>1
      <4> QED  BY <2>2, <2>4, <3>1, <4>1
    <3>2. CASE k \in 2 .. f + 1
      <4>1. k - 1 \in 1 .. f /\ a - (f + 1) + k = a - f + (k - 1)
        BY <1>1, <3>2
      <4> QED  BY <1>0, <2>2, <3>2, <4>1
    <3> QED  BY <1>1, <3>1, <3>2
  <2>7. t = SubSeq(accepted, a - (f + 1) + 1, a)
    BY <1>1, <2>2, <2>3, <2>5, <2>6, EndOf
  <2>8. a - (f + 1) + 1 = a - f + 0
    BY <1>1
  <2>9. t = SubSeq(accepted, a - f + 0, a)
    BY <2>7, <2>8
  <2> QED  BY <1>2, <1>3, <2>9 DEF Client!LinesSent, t, a, f
<1>4. CASE parent # "send"
  <2>1. Held = 0
    BY <1>4 DEF Held
  <2>2. Len(fifo) = f /\ Len(accepted) = a
    OBVIOUS
  <2>3. <<>> \o fifo = fifo
    BY <1>0
  <2> HIDE DEF a, f, o
  <2>4. f <= a
    BY <1>0, <1>1, <2>1
  <2>5. fifo = SubSeq(accepted, a - f + 1, a)
    BY <1>0, <1>1, <2>2, <2>4, EndOf
  <2>6. <<>> \o fifo = SubSeq(accepted, a - f + 1, a)
    BY <2>3, <2>5
  <2> QED  BY <1>2, <1>4, <2>6 DEF Client!LinesSent, a, f
<1> QED  BY <1>3, <1>4

(***************************************************************************)
(* All of them.                                                            *)
(***************************************************************************)
LEMMA MessagesAlways == Spec => []MessagesInv
<1>1. Init => MessagesInv
  BY ShmInit, MailInit, PosixInit, SysVInit, HandInit, ClientInit DEF MessagesInv
<1>2. MessagesInv /\ [Next]_vars => MessagesInv'
  <2> SUFFICES ASSUME MessagesInv, [Next]_vars  PROVE MessagesInv'
    OBVIOUS
  <2>1. prog' = prog
    BY DEF Next, vars, RunShm, RunMail, RunPosix, RunSysV, RunHand, RunRound, RunClient, RunUcore
  <2>2. CASE UNCHANGED vars
    <3>1. ShmInv => ShmInv'
      BY <2>2 DEF vars, procs, told, shm, ShmInv, Children, Past
    <3>2. MailInv => MailInv'
      BY <2>2 DEF vars, procs, told, mail, MailInv, Children
    <3>3. PosixInv => PosixInv'
      BY <2>2 DEF vars, procs, told, PosixInv, Children
    <3>4. SysVInv => SysVInv'
      BY <2>2 DEF vars, told, sysv, SysVInv
    <3>5. HandInv => HandInv'
      BY <2>2 DEF vars, procs, told, hand, mail, HandInv, HandBase, HandTurns
    <3>6. ClientInv => ClientInv'
      BY <2>2 DEF vars, client, ClientInv, Held
    <3> QED  BY <2>1, <3>1, <3>2, <3>3, <3>4, <3>5, <3>6 DEF MessagesInv
  <2>3. CASE RunShm
    BY <2>1, <2>3, ShmStep DEF MessagesInv, RunShm
  <2>4. CASE RunMail
    BY <2>1, <2>4, MailStep DEF MessagesInv, RunMail
  <2>5. CASE RunPosix
    BY <2>1, <2>5, PosixStep DEF MessagesInv, RunPosix
  <2>6. CASE RunSysV
    BY <2>1, <2>6, SysVStep DEF MessagesInv, RunSysV
  <2>7. CASE RunHand
    BY <2>1, <2>7, HandStep DEF MessagesInv, RunHand
  <2>8. CASE RunClient
    BY <2>1, <2>8, ClientStep DEF MessagesInv, RunClient
  <2>9. CASE RunRound \/ RunUcore
    BY <2>1, <2>9 DEF MessagesInv, RunRound, RunUcore
  <2> QED  BY <2>2, <2>3, <2>4, <2>5, <2>6, <2>7, <2>8, <2>9 DEF Next
<1> QED  BY <1>1, <1>2, PTL DEF Spec

\* Every program hands on what it was given, in order and each item once, for any
\* number of texts, slots, lines and threads: the mailbox of Labweek6, whose late
\* comparison can lose only the last text, the two message queues of Labweek8,
\* whose processes act on a count they read earlier, the hand-off of Labweek14
\* while its locks hold, and the chat client of Labweek9 up to the line "#0".
THEOREM NothingLost == Spec => []MessagesKept
<1>1. MessagesInv => MessagesKept
  BY MailKeeps, PosixKeeps, SysVKeeps, HandKeeps, ClientKeeps DEF MessagesInv, MessagesKept
<1> QED  BY <1>1, MessagesAlways, PTL

(***************************************************************************)
(* The scheduler's list.                                                   *)
(***************************************************************************)
\* h is the list with t put in behind its first n nodes.
Placed(h, list, t, n) ==
  /\ n \in 0 .. Len(list) /\ h \in Seq(Tasks) /\ Len(h) = Len(list) + 1
  /\ \A i \in 1 .. Len(list) + 1 : h[i] = IF i <= n THEN list[i] ELSE IF i = n + 1 THEN t ELSE list[i - 1]

\* The list is ordered by the key from its k-th node on.
OrderedFrom(list, key, k) == \A i, j \in k .. Len(list) : i < j => key[list[i]] <= key[list[j]]

\* What each policy orders by, and from where.
Key(policy) == [t \in Tasks |-> IF policy \in {"SJF_PEM", "SJF_NOT_PEM"} THEN WCT[t]
                                ELSE IF policy = "FCFS" THEN 0 ELSE -priority[t]]
From(policy) == IF policy \in {"SJF_PEM", "PRIORITY_PEM"} THEN 1 ELSE 2

\* There is a place behind the nodes that may stand before the new one.
LEMMA PlaceExists ==
  ASSUME NEW l \in Nat, NEW k \in {1, 2}, k - 1 <= l, NEW G
  PROVE  \E n \in k - 1 .. l : (\A i \in k .. n : i \in G) /\ (n < l => n + 1 \notin G)
<1> DEFINE T == {n \in k - 1 .. l : n = l \/ n + 1 \notin G}
<1>1. T \in SUBSET Nat /\ l \in T
  OBVIOUS
<1>2. PICK m \in T : \A n \in T : m <= n
  <2> HIDE DEF T
  <2> QED  BY <1>1, SmallestInSet
<1>3. m \in k - 1 .. l /\ (m < l => m + 1 \notin G)
  BY <1>2
<1>4. ASSUME NEW i \in k .. m, i \notin G  PROVE FALSE
  <2>1. i - 1 \in k - 1 .. l /\ (i - 1) + 1 = i /\ i - 1 < m
    BY <1>3
  <2>2. i - 1 \in T
    BY <1>4, <2>1
  <2> QED  BY <1>2, <2>1, <2>2
<1> QED  BY <1>3, <1>4

LEMMA InsertPlaces ==
  ASSUME NEW list \in Seq(Tasks), NEW t \in Tasks, NEW n \in 0 .. Len(list)
  PROVE  Placed(Round!InsertAt(list, n + 1, t), list, t, n)
<1> DEFINE l == Len(list)
           u == SubSeq(list, 1, (n + 1) - 1)
           v == SubSeq(list, n + 1, l)
           h == Round!InsertAt(list, n + 1, t)
<1>0. l \in Nat /\ n \in 0 .. l
  OBVIOUS
<1>1. h = u \o <<t>> \o v
  BY DEF Round!InsertAt
<1>2. u \in Seq(Tasks) /\ Len(u) = n /\ \A i \in 1 .. n : u[i] = list[i]
  BY <1>0
<1>3. v \in Seq(Tasks) /\ Len(v) = l - n /\ \A i \in 1 .. l - n : v[i] = list[n + i]
  BY <1>0
<1> HIDE DEF u, v, h, l
<1> DEFINE w == u \o <<t>>
<1>4. w \in Seq(Tasks) /\ Len(w) = n + 1 /\ w[n + 1] = t /\ \A i \in 1 .. n : w[i] = list[i]
  BY <1>0, <1>2
<1>5. h = w \o v
  BY <1>1
<1> HIDE DEF w
<1>6. h \in Seq(Tasks) /\ Len(h) = Len(w) + Len(v)
  <2>1. w \in Seq(Tasks) /\ v \in Seq(Tasks)
    BY <1>3, <1>4
  <2>2. w \o v \in Seq(Tasks) /\ Len(w \o v) = Len(w) + Len(v)
    BY <2>1
  <2> QED  BY <1>5, <2>2
<1>7. Len(h) = l + 1
  BY <1>0, <1>3, <1>4, <1>6
<1>8. ASSUME NEW i \in 1 .. l + 1
      PROVE  h[i] = IF i <= n THEN list[i] ELSE IF i = n + 1 THEN t ELSE list[i - 1]
  <2>1. CASE i <= n + 1
    <3>1. h[i] = w[i]
      BY <1>0, <1>3, <1>4, <1>5, <2>1
    <3> QED  BY <1>0, <1>4, <2>1, <3>1
  <2>2. CASE i > n + 1
    <3>1. i - (n + 1) \in 1 .. l - n /\ n + (i - (n + 1)) = i - 1 /\ ~(i <= n) /\ i # n + 1
      BY <1>0, <2>2
    <3>2. h[i] = v[i - (n + 1)]
      BY <1>0, <1>3, <1>4, <1>5, <2>2
    <3> QED  BY <1>3, <3>1, <3>2
  <2> QED  BY <1>0, <2>1, <2>2
<1>9. h \in Seq(Tasks)
  BY <1>6
<1> QED  BY <1>0, <1>7, <1>8, <1>9 DEF Placed, h, l

LEMMA AppendPlaces ==
  ASSUME NEW list \in Seq(Tasks), NEW t \in Tasks
  PROVE  Placed(Append(list, t), list, t, Len(list))
<1> DEFINE l == Len(list)
           h == Append(list, t)
<1>1. l \in Nat /\ h \in Seq(Tasks) /\ Len(h) = l + 1 /\ h[l + 1] = t /\ \A i \in 1 .. l : h[i] = list[i]
  OBVIOUS
<1> HIDE DEF l, h
<1>2. \A i \in 1 .. l + 1 : h[i] = IF i <= l THEN list[i] ELSE IF i = l + 1 THEN t ELSE list[i - 1]
  BY <1>1
<1>3. l \in 0 .. l
  BY <1>1
<1> QED  BY <1>1, <1>2, <1>3 DEF Placed, l, h

Fits(list, key, t, k, n) ==
  /\ k - 1 <= n
  /\ \A i \in k .. n : key[list[i]] <= key[t]
  /\ n < Len(list) => ~(key[list[n + 1]] <= key[t])

\* Putting a node behind those that may stand before it, and before the first one
\* that may not, keeps the order; so does taking the first node away.
LEMMA PlacedOrdered ==
  ASSUME NEW list \in Seq(Tasks), NEW t \in Tasks, NEW h, NEW n, Placed(h, list, t, n),
         NEW key \in [Tasks -> Int], NEW k \in {1, 2},
         OrderedFrom(list, key, k), Fits(list, key, t, k, n)
  PROVE  OrderedFrom(h, key, k)
<1> DEFINE l == Len(list)
<1>0. /\ k - 1 <= n
      /\ \A i \in k .. n : key[list[i]] <= key[t]
      /\ n < Len(list) => ~(key[list[n + 1]] <= key[t])
  BY DEF Fits
<1>1. l \in Nat /\ n \in 0 .. l /\ Len(h) = l + 1 /\ (\A i \in 1 .. l : list[i] \in Tasks)
  BY DEF Placed
<1>2. \A i \in 1 .. l + 1 : h[i] = IF i <= n THEN list[i] ELSE IF i = n + 1 THEN t ELSE list[i - 1]
  BY DEF Placed
<1>3. \A i, j \in k .. l : i < j => key[list[i]] <= key[list[j]]
  BY DEF OrderedFrom
<1> HIDE DEF l
<1>4. \A i \in 1 .. l : key[list[i]] \in Int
  BY <1>1
<1>5. key[t] \in Int
  OBVIOUS
<1>6. n < l => key[t] < key[list[n + 1]]
  <2> SUFFICES ASSUME n < l  PROVE key[t] < key[list[n + 1]]
    OBVIOUS
  <2>1. n + 1 \in 1 .. l /\ ~(key[list[n + 1]] <= key[t])
    BY <1>0, <1>1 DEF l
  <2> QED  BY <1>4, <1>5, <2>1
<1> SUFFICES ASSUME NEW i \in k .. l + 1, NEW j \in k .. l + 1, i < j
             PROVE  key[h[i]] <= key[h[j]]
  BY <1>1 DEF OrderedFrom
<1>7. i \in 1 .. l + 1 /\ j \in 1 .. l + 1
  BY <1>1
<1>8. CASE j <= n
  <2>1. i \in k .. l /\ j \in k .. l /\ i <= n
    BY <1>1, <1>8
  <2> QED  BY <1>2, <1>3, <1>7, <1>8, <2>1
<1>9. CASE j = n + 1
  <2>1. i \in k .. n /\ i <= n /\ ~(j <= n)
    BY <1>1, <1>9
  <2> QED  BY <1>0, <1>2, <1>7, <1>9, <2>1
<1>10. CASE j > n + 1
  <2>1. /\ j - 1 \in k .. l /\ j - 1 \in 1 .. l /\ ~(j <= n) /\ j # n + 1 /\ n < l /\ n + 1 <= j - 1
        /\ n + 1 \in k .. l /\ n + 1 \in 1 .. l
    BY <1>0, <1>1, <1>10
  <2>2. h[j] = list[j - 1]
    BY <1>2, <1>7, <2>1
  <2>3. CASE i <= n
    <3>1. i \in k .. l /\ i < j - 1
      BY <1>1, <1>10, <2>3
    <3> QED  BY <1>2, <1>3, <1>7, <2>1, <2>2, <2>3, <3>1
  <2>4. CASE i = n + 1
    <3>1. key[list[n + 1]] <= key[list[j - 1]]
      <4>1. CASE n + 1 = j - 1
        BY <1>4, <2>1, <4>1
      <4>2. CASE n + 1 # j - 1
        <5>1. n + 1 < j - 1
          BY <1>1, <2>1, <4>2
        <5> QED  BY <1>3, <2>1, <5>1
      <4> QED  BY <4>1, <4>2
    <3>2. h[i] = t
      BY <1>1, <1>2, <1>7, <2>4
    <3> DEFINE x == key[t]
               y == key[list[n + 1]]
               z == key[list[j - 1]]
    <3>3. x \in Int /\ y \in Int /\ z \in Int /\ x < y /\ y <= z
      BY <1>4, <1>5, <1>6, <2>1, <3>1
    <3>4. x <= z
      <4> HIDE DEF x, y, z
      <4> QED  BY <3>3
    <3> QED  BY <2>2, <3>2, <3>4
  <2>5. CASE i > n + 1
    <3>1. i - 1 \in k .. l /\ ~(i <= n) /\ i # n + 1 /\ i - 1 < j - 1
      BY <1>1, <1>7, <2>1, <2>5
    <3>2. h[i] = list[i - 1]
      BY <1>2, <1>7, <3>1
    <3> QED  BY <1>3, <2>1, <2>2, <3>1, <3>2
  <2> QED  BY <1>1, <1>7, <2>3, <2>4, <2>5
<1> QED  BY <1>1, <1>7, <1>8, <1>9, <1>10

LEMMA TailOrdered ==
  ASSUME NEW list \in Seq(Tasks), list # <<>>, NEW key, NEW k \in {1, 2}, OrderedFrom(list, key, k)
  PROVE  OrderedFrom(Tail(list), key, k)
<1> DEFINE l == Len(list)
           r == Tail(list)
<1>1. l \in Nat \ {0} /\ Len(r) = l - 1 /\ \A i \in 1 .. l - 1 : r[i] = list[i + 1]
  OBVIOUS
<1>2. \A i, j \in k .. l : i < j => key[list[i]] <= key[list[j]]
  BY DEF OrderedFrom
<1> HIDE DEF l, r
<1>3. ASSUME NEW i \in k .. l - 1, NEW j \in k .. l - 1, i < j  PROVE key[r[i]] <= key[r[j]]
  <2>1. i \in 1 .. l - 1 /\ j \in 1 .. l - 1 /\ i + 1 \in k .. l /\ j + 1 \in k .. l /\ i + 1 < j + 1
    BY <1>1, <1>3
  <2> QED  BY <1>1, <1>2, <2>1
<1>4. OrderedFrom(r, key, k)
  BY <1>1, <1>3 DEF OrderedFrom
<1> QED  BY <1>4 DEF r

\* The order by the key is the order the policy asks for.
Ordered(policy, list) ==
  \A i, j \in From(policy) .. Len(list) :
    i < j => CASE policy = "FCFS" -> TRUE
               [] policy \in {"SJF_PEM", "SJF_NOT_PEM"} -> WCT[list[j]] >= WCT[list[i]]
               [] OTHER -> priority[list[j]] <= priority[list[i]]

LEMMA KeyOrders ==
  ASSUME NEW policy \in Round!Policies, NEW list \in Seq(Tasks)
  PROVE  /\ Ordered(policy, list) <=> OrderedFrom(list, Key(policy), From(policy))
         /\ Key(policy) \in [Tasks -> Int] /\ From(policy) \in {1, 2}
<1> DEFINE key == Key(policy)
           k == From(policy)
<1>0. WCT \in [Tasks -> Int] /\ priority \in [Tasks -> Int]
  BY Input DEF Tasks
<1>1. key \in [Tasks -> Int] /\ k \in {1, 2}
  BY <1>0 DEF Key, From
<1>2. Len(list) \in Nat /\ \A i \in 1 .. Len(list) : list[i] \in Tasks
  OBVIOUS
<1>3. \A i \in k .. Len(list) : list[i] \in Tasks
  BY <1>1, <1>2
<1>4. CASE policy = "FCFS"
  <2>1. \A t \in Tasks : key[t] = 0
    BY <1>4 DEF Key
  <2> HIDE DEF key, k
  <2>2. OrderedFrom(list, key, k)
    BY <1>3, <2>1 DEF OrderedFrom
  <2>3. Ordered(policy, list)
    BY <1>4 DEF Ordered
  <2> QED  BY <1>1, <2>2, <2>3 DEF key, k
<1>5. CASE policy \in {"SJF_PEM", "SJF_NOT_PEM"}
  <2>1. \A t \in Tasks : key[t] = WCT[t] /\ WCT[t] \in Int
    BY <1>0, <1>5 DEF Key
  <2>2. Ordered(policy, list) <=> \A i, j \in k .. Len(list) : i < j => WCT[list[j]] >= WCT[list[i]]
    BY <1>5 DEF Ordered
  <2> HIDE DEF key, k
  <2>3. OrderedFrom(list, key, k) <=> \A i, j \in k .. Len(list) : i < j => WCT[list[i]] <= WCT[list[j]]
    BY <1>3, <2>1 DEF OrderedFrom
  <2>4. \A i, j \in k .. Len(list) : WCT[list[i]] <= WCT[list[j]] <=> WCT[list[j]] >= WCT[list[i]]
    BY <1>3, <2>1
  <2>5. Ordered(policy, list) <=> OrderedFrom(list, key, k)
    BY <2>2, <2>3, <2>4
  <2> QED  BY <1>1, <2>5 DEF key, k
<1>6. CASE policy \in {"PRIORITY_PEM", "PRIORITY_NOT_PEM"}
  <2>1. \A t \in Tasks : key[t] = -priority[t] /\ priority[t] \in Int
    BY <1>0, <1>6 DEF Key
  <2>2. Ordered(policy, list) <=> \A i, j \in k .. Len(list) : i < j => priority[list[j]] <= priority[list[i]]
    BY <1>6 DEF Ordered
  <2> HIDE DEF key, k
  <2>3. \A i, j \in k .. Len(list) : key[list[i]] <= key[list[j]] <=> priority[list[j]] <= priority[list[i]]
    BY <1>3, <2>1
  <2>4. OrderedFrom(list, key, k) <=> \A i, j \in k .. Len(list) : i < j => priority[list[j]] <= priority[list[i]]
    BY <2>3 DEF OrderedFrom
  <2>5. Ordered(policy, list) <=> OrderedFrom(list, key, k)
    BY <2>2, <2>4
  <2> QED  BY <1>1, <2>5 DEF key, k
<1> QED  BY <1>4, <1>5, <1>6 DEF Round!Policies

\* InsertFrom puts the node where its key belongs.
LEMMA InsertFromPlaces ==
  ASSUME NEW list \in Seq(Tasks), NEW t \in Tasks, NEW key \in [Tasks -> Int], NEW k \in {1, 2},
         k - 1 <= Len(list), NEW n,
         n = CHOOSE m \in k - 1 .. Len(list) :
               /\ \A i \in k .. m : key[list[i]] <= key[t]
               /\ m < Len(list) => ~(key[list[m + 1]] <= key[t])
  PROVE  /\ Placed(Round!InsertAt(list, n + 1, t), list, t, n)
         /\ OrderedFrom(list, key, k) => OrderedFrom(Round!InsertAt(list, n + 1, t), key, k)
<1> DEFINE l == Len(list)
           G == {i \in 1 .. l : key[list[i]] <= key[t]}
           P(m) == /\ \A i \in k .. m : key[list[i]] <= key[t]
                   /\ m < l => ~(key[list[m + 1]] <= key[t])
<1>0. l \in Nat
  OBVIOUS
<1>1. PICK m \in k - 1 .. l : (\A i \in k .. m : i \in G) /\ (m < l => m + 1 \notin G)
  <2> HIDE DEF l, G
  <2>1. k - 1 <= l
    BY DEF l
  <2> QED  BY <1>0, <2>1, PlaceExists
<1>2. P(m)
  <2>1. m < l => m + 1 \in 1 .. l
    BY <1>0
  <2> QED  BY <1>1, <2>1
<1>3. n \in k - 1 .. l /\ P(n)
  <2>1. n = CHOOSE p \in k - 1 .. l : P(p)
    OBVIOUS
  <2> HIDE DEF P, l
  <2> QED  BY <1>2, <2>1
<1>4. n \in 0 .. l /\ k - 1 <= n
  BY <1>0, <1>3
<1> DEFINE h == Round!InsertAt(list, n + 1, t)
<1>5. Placed(h, list, t, n)
  BY <1>4, InsertPlaces
<1>6. (\A i \in k .. n : key[list[i]] <= key[t]) /\ (n < Len(list) => ~(key[list[n + 1]] <= key[t]))
  BY <1>3
<1>7. ASSUME OrderedFrom(list, key, k)  PROVE OrderedFrom(h, key, k)
  <2> HIDE DEF h, P, G, l
  <2>1. Fits(list, key, t, k, n)
    BY <1>4, <1>6 DEF Fits
  <2> QED  BY <1>5, <1>7, <2>1, PlacedOrdered
<1> QED  BY <1>5, <1>7

LEMMA InsertedPlaces ==
  ASSUME schedule_policy \in Round!Policies, NEW list \in Seq(Tasks), NEW t \in Tasks
  PROVE  /\ \E n : Placed(Round!Inserted(list, t), list, t, n)
         /\ Ordered(schedule_policy, list) => Ordered(schedule_policy, Round!Inserted(list, t))
<1> DEFINE h == Round!Inserted(list, t)
           p == schedule_policy
           key == Key(p)
           k == From(p)
<1>0. WCT \in [Tasks -> Int] /\ priority \in [Tasks -> Int] /\ Len(list) \in Nat
      /\ \A i \in 1 .. Len(list) : list[i] \in Tasks
  BY Input DEF Tasks
<1>1. key \in [Tasks -> Int] /\ k \in {1, 2}
  BY KeyOrders
<1> SUFFICES (\E n : Placed(h, list, t, n)) /\ (OrderedFrom(list, key, k) => OrderedFrom(h, key, k))
  <2>1. ASSUME NEW n, Placed(h, list, t, n)  PROVE h \in Seq(Tasks)
    BY <2>1 DEF Placed
  <2> QED  BY <2>1, KeyOrders
<1>2. CASE p = "FCFS"
  <2>1. h = Append(list, t) /\ h \in Seq(Tasks)
    BY <1>2 DEF Round!Inserted, Round!fcfs
  <2>2. \A u \in Tasks : key[u] = 0
    BY <1>2 DEF Key
  <2>3. Len(h) \in Nat /\ \A i \in 1 .. Len(h) : h[i] \in Tasks
    BY <2>1
  <2>4. OrderedFrom(h, key, k)
    <3> HIDE DEF h, key, k
    <3>1. \A i \in k .. Len(h) : i \in 1 .. Len(h)
      BY <1>1, <2>3
    <3> QED  BY <2>2, <2>3, <3>1 DEF OrderedFrom
  <2> QED  BY <2>1, <2>4, AppendPlaces
<1>3. CASE list = <<>> /\ p \in {"SJF_NOT_PEM", "PRIORITY_NOT_PEM"}
  <2>1. h = <<t>> /\ <<t>> = Append(list, t)
    BY <1>3 DEF Round!Inserted, Round!sjf_not_pem, Round!priority_not_pem
  <2>2. k = 2 /\ Len(h) = 1
    BY <1>3, <2>1 DEF From
  <2>3. OrderedFrom(h, key, k)
    BY <2>2 DEF OrderedFrom
  <2> QED  BY <2>1, <2>3, AppendPlaces
<1>4. CASE p \in {"SJF_PEM", "SJF_NOT_PEM"} /\ (k = 1 \/ list # <<>>)
  <2> DEFINE n == CHOOSE m \in k - 1 .. Len(list) :
                    /\ \A i \in k .. m : WCT[t] >= WCT[list[i]]
                    /\ m < Len(list) => ~(WCT[t] >= WCT[list[m + 1]])
  <2>1. h = Round!InsertAt(list, n + 1, t)
    <3>1. CASE p = "SJF_PEM"
      <4>1. k = 1 /\ h = Round!sjf_pem(list, t)
        BY <3>1 DEF Round!Inserted, From
      <4>2. Round!sjf_pem(list, t) = Round!InsertAt(list, (CHOOSE m \in 1 - 1 .. Len(list) :
                    /\ \A i \in 1 .. m : WCT[t] >= WCT[list[i]]
                    /\ m < Len(list) => ~(WCT[t] >= WCT[list[m + 1]])) + 1, t)
        BY DEF Round!sjf_pem, Round!InsertFrom, Round!Shorter
      <4> HIDE DEF k, h, key
      <4> QED  BY <4>1, <4>2
    <3>2. CASE p = "SJF_NOT_PEM"
      <4>1. k = 2 /\ h = Round!sjf_not_pem(list, t) /\ list # <<>>
        BY <3>2, <1>4 DEF Round!Inserted, From
      <4>2. Round!sjf_not_pem(list, t) = Round!InsertAt(list, (CHOOSE m \in 2 - 1 .. Len(list) :
                    /\ \A i \in 2 .. m : WCT[t] >= WCT[list[i]]
                    /\ m < Len(list) => ~(WCT[t] >= WCT[list[m + 1]])) + 1, t)
        BY <4>1 DEF Round!sjf_not_pem, Round!InsertFrom, Round!Shorter
      <4> HIDE DEF k, h, key
      <4> QED  BY <4>1, <4>2
    <3> QED  BY <1>4, <3>1, <3>2
  <2>2. k - 1 <= Len(list)
    <3>1. list # <<>> => Len(list) >= 1
      OBVIOUS
    <3>2. k = 1 \/ (k = 2 /\ Len(list) >= 1)
      BY <1>1, <3>1, <1>4
    <3> HIDE DEF k
    <3> QED  BY <1>0, <3>2
  <2>3. \A u \in Tasks : key[u] = WCT[u] /\ WCT[u] \in Int
    BY <1>0, <1>4 DEF Key
  <2> HIDE DEF key, k, p, h
  <2>4. \A m \in k - 1 .. Len(list) :
          (/\ \A i \in k .. m : WCT[t] >= WCT[list[i]]
           /\ m < Len(list) => ~(WCT[t] >= WCT[list[m + 1]]))
          <=> (/\ \A i \in k .. m : key[list[i]] <= key[t]
               /\ m < Len(list) => ~(key[list[m + 1]] <= key[t]))
    <3> SUFFICES ASSUME NEW m \in k - 1 .. Len(list)
                 PROVE  /\ \A i \in k .. m : WCT[t] >= WCT[list[i]] <=> key[list[i]] <= key[t]
                        /\ m < Len(list) => (WCT[t] >= WCT[list[m + 1]] <=> key[list[m + 1]] <= key[t])
      OBVIOUS
    <3>1. (\A i \in k .. m : list[i] \in Tasks) /\ (m < Len(list) => list[m + 1] \in Tasks)
      <4>1. (\A i \in k .. m : i \in 1 .. Len(list)) /\ (m < Len(list) => m + 1 \in 1 .. Len(list))
        BY <1>0, <1>1
      <4> QED  BY <1>0, <4>1
    <3> QED  BY <2>3, <3>1
  <2>5. n = CHOOSE m \in k - 1 .. Len(list) :
              /\ \A i \in k .. m : key[list[i]] <= key[t]
              /\ m < Len(list) => ~(key[list[m + 1]] <= key[t])
    BY <2>4, Zenon
  <2> HIDE DEF n
  <2> QED  BY <1>1, <2>1, <2>2, <2>5, InsertFromPlaces
<1>5. CASE p \in {"PRIORITY_PEM", "PRIORITY_NOT_PEM"} /\ (k = 1 \/ list # <<>>)
  <2> DEFINE n == CHOOSE m \in k - 1 .. Len(list) :
                    /\ \A i \in k .. m : priority[t] <= priority[list[i]]
                    /\ m < Len(list) => ~(priority[t] <= priority[list[m + 1]])
  <2>1. h = Round!InsertAt(list, n + 1, t)
    <3>1. CASE p = "PRIORITY_PEM"
      <4>1. k = 1 /\ h = Round!priority_pem(list, t)
        BY <3>1 DEF Round!Inserted, From
      <4>2. Round!priority_pem(list, t) = Round!InsertAt(list, (CHOOSE m \in 1 - 1 .. Len(list) :
                    /\ \A i \in 1 .. m : priority[t] <= priority[list[i]]
                    /\ m < Len(list) => ~(priority[t] <= priority[list[m + 1]])) + 1, t)
        BY DEF Round!priority_pem, Round!InsertFrom, Round!Higher
      <4> HIDE DEF k, h, key
      <4> QED  BY <4>1, <4>2
    <3>2. CASE p = "PRIORITY_NOT_PEM"
      <4>1. k = 2 /\ h = Round!priority_not_pem(list, t) /\ list # <<>>
        BY <3>2, <1>5 DEF Round!Inserted, From
      <4>2. Round!priority_not_pem(list, t) = Round!InsertAt(list, (CHOOSE m \in 2 - 1 .. Len(list) :
                    /\ \A i \in 2 .. m : priority[t] <= priority[list[i]]
                    /\ m < Len(list) => ~(priority[t] <= priority[list[m + 1]])) + 1, t)
        BY <4>1 DEF Round!priority_not_pem, Round!InsertFrom, Round!Higher
      <4> HIDE DEF k, h, key
      <4> QED  BY <4>1, <4>2
    <3> QED  BY <1>5, <3>1, <3>2
  <2>2. k - 1 <= Len(list)
    <3>1. list # <<>> => Len(list) >= 1
      OBVIOUS
    <3>2. k = 1 \/ (k = 2 /\ Len(list) >= 1)
      BY <1>1, <3>1, <1>5
    <3> HIDE DEF k
    <3> QED  BY <1>0, <3>2
  <2>3. \A u \in Tasks : key[u] = -priority[u] /\ priority[u] \in Int
    BY <1>0, <1>5 DEF Key
  <2> HIDE DEF key, k, p, h
  <2>4. \A m \in k - 1 .. Len(list) :
          (/\ \A i \in k .. m : priority[t] <= priority[list[i]]
           /\ m < Len(list) => ~(priority[t] <= priority[list[m + 1]]))
          <=> (/\ \A i \in k .. m : key[list[i]] <= key[t]
               /\ m < Len(list) => ~(key[list[m + 1]] <= key[t]))
    <3> SUFFICES ASSUME NEW m \in k - 1 .. Len(list)
                 PROVE  /\ \A i \in k .. m : priority[t] <= priority[list[i]] <=> key[list[i]] <= key[t]
                        /\ m < Len(list) => (priority[t] <= priority[list[m + 1]] <=> key[list[m + 1]] <= key[t])
      OBVIOUS
    <3>1. (\A i \in k .. m : list[i] \in Tasks) /\ (m < Len(list) => list[m + 1] \in Tasks)
      <4>1. (\A i \in k .. m : i \in 1 .. Len(list)) /\ (m < Len(list) => m + 1 \in 1 .. Len(list))
        BY <1>0, <1>1
      <4> QED  BY <1>0, <4>1
    <3> QED  BY <2>3, <3>1
  <2>5. n = CHOOSE m \in k - 1 .. Len(list) :
              /\ \A i \in k .. m : key[list[i]] <= key[t]
              /\ m < Len(list) => ~(key[list[m + 1]] <= key[t])
    BY <2>4, Zenon
  <2> HIDE DEF n
  <2> QED  BY <1>1, <2>1, <2>2, <2>5, InsertFromPlaces
<1>6. k = 1 <=> p \in {"SJF_PEM", "PRIORITY_PEM"}
  BY DEF From
<1> QED  BY <1>2, <1>3, <1>4, <1>5, <1>6 DEF Round!Policies

(***************************************************************************)
(* The scheduler's turns.                                                  *)
(***************************************************************************)
\* A node of the list is a task's that is between its insertion and its removal.
LEMMA ListedHead ==
  ASSUME ListInv
  PROVE  /\ Len(head) \in Nat /\ (head # <<>> => 1 \in 1 .. Len(head))
         /\ \A i \in 1 .. Len(head) : head[i] \in Tasks /\ task[head[i]] \in Listed
         /\ \A t \in Tasks : task[t] \notin Listed => \A i \in 1 .. Len(head) : head[i] # t
         /\ 0 \notin Tasks
<1>1. head \in Seq(Tasks) /\ \A t \in Tasks : t \in Members(head) <=> task[t] \in Listed
  BY DEF ListInv
<1>2. Len(head) \in Nat /\ (head # <<>> => 1 \in 1 .. Len(head)) /\ \A i \in 1 .. Len(head) : head[i] \in Tasks
  BY <1>1
<1>3. \A i \in 1 .. Len(head) : head[i] \in Members(head)
  BY DEF Members
<1>4. 0 \notin Tasks
  <2>1. WCT \in Seq(Int)
    BY Input
  <2>2. DOMAIN WCT = 1 .. Len(WCT) /\ Len(WCT) \in Nat
    BY <2>1
  <2> QED  BY <2>2 DEF Tasks
<1> QED  BY <1>1, <1>2, <1>3, <1>4

\* A step that leaves the list and the scheduler alone, inserts nothing, and stops
\* or wakes no task.
LEMMA TurnsKept ==
  ASSUME TurnsInv, ListInv, UNCHANGED <<head, usr2, schedule_status>>, Inserting' = Inserting,
         sched' = sched \/ (~Acting /\ ~Acting'),
         Fresh \ Called \subseteq Fresh' \ Called',
         Preempted \ Called \subseteq Preempted' \ Called',
         Going \cup Woken \subseteq Going' \cup Woken'
  PROVE  TurnsInv'
<1>0. Acting' <=> Acting
  BY DEF Acting
<1>1. Switching' <=> Switching
  BY <1>0 DEF Switching
<1>2. Stopped \subseteq Stopped'
  BY DEF Stopped
<1>3. \A i \in 2 .. Len(head') : head'[i] \in Stopped'
  BY <1>2 DEF TurnsInv
<1>4. head' # <<>> => IF Switching' THEN head'[1] \in Stopped' ELSE head'[1] \in Going' \cup Woken'
  BY <1>1, <1>2 DEF TurnsInv
<1>5. Switching => (head # <<>> => head[1] \notin Called)
  BY DEF TurnsInv, Stopped
<1>6. ASSUME NEW t \in Inserting'
      PROVE  /\ ~usr2' /\ ~Acting' /\ schedule_status'[t] = "WAITING"
             /\ head' # <<>> => head'[1] \in Preempted' /\ schedule_status'[head'[1]] = "READY"
  <2>1. Switching
    BY <1>6 DEF Switching
  <2> QED  BY <1>0, <1>5, <1>6, <2>1 DEF TurnsInv
<1>7. ASSUME usr2'
      PROVE  /\ ~Acting' /\ head' # <<>>
             /\ \/ schedule_status'[head'[1]] = "WAITING" /\ head'[1] \in Fresh'
                \/ schedule_status'[head'[1]] = "READY" /\ head'[1] \in Preempted'
  <2>1. Switching /\ usr2
    BY <1>7 DEF Switching
  <2> QED  BY <1>0, <1>5, <2>1 DEF TurnsInv
<1>8. ASSUME Acting'
      PROVE  /\ sched' = "post" => head' # <<>> /\ head'[1] \in Fresh'
             /\ sched' = "cont" => head' # <<>> /\ head'[1] \in Preempted'
  <2>1. Switching /\ sched' = sched
    BY <1>0, <1>8 DEF Switching
  <2> QED  BY <1>5, <2>1 DEF TurnsInv
<1>9. sched' \in {"post", "cont"} => Acting'
  BY DEF Acting
<1> QED  BY <1>3, <1>4, <1>6, <1>7, <1>8, <1>9 DEF TurnsInv

\* A step of one task that moves only that task and its own signals.
OneMoves(t) ==
  /\ UNCHANGED <<head, usr2, sched, schedule_status, mutex>>
  /\ \A u \in Tasks : u # t => /\ task'[u] = task[u] /\ susp'[u] = susp[u]
                               /\ pend'[u] = pend[u] /\ wait_sem'[u] = wait_sem[u]
  /\ TaskTypes'
  /\ task'[t] = task[t] \/ (task[t] # "insert" /\ task'[t] \notin {"insert", "deleting"})
  /\ task'[t] \in Listed <=> task[t] \in Listed

LEMMA OneMovesKeeps ==
  ASSUME NEW t \in Tasks, RoundInv, OneMoves(t),
         t \in Fresh \ Called => t \in Fresh' \ Called',
         t \in Preempted \ Called => t \in Preempted' \ Called',
         t \in Going \cup Woken => t \in Going' \cup Woken',
         t \in Doomed => t \in Doomed'
  PROVE  RoundInv'
<1>0. TaskTypes /\ ListInv /\ TaskTypes'
  BY DEF RoundInv, OneMoves
<1>1. \A u \in Tasks : u # t => /\ task'[u] = task[u] /\ susp'[u] = susp[u]
                                /\ pend'[u] = pend[u] /\ wait_sem'[u] = wait_sem[u]
  BY DEF OneMoves
<1>2. ListInv'
  <2>1. head' = head /\ mutex' = mutex
    BY DEF OneMoves
  <2>2. \A u \in Tasks : task'[u] \in Listed <=> task[u] \in Listed
    BY <1>1 DEF OneMoves
  <2>3. \A u \in Tasks : task'[u] \in {"insert", "deleting"} => task[u] \in {"insert", "deleting"}
    BY <1>1 DEF OneMoves
  <2> QED  BY <1>0, <2>1, <2>2, <2>3 DEF ListInv, Members
<1>3. Doomed \subseteq Doomed'
  BY <1>1 DEF Doomed
<1>4. Inserting' = Inserting
  <2>1. \A u \in Tasks : task'[u] = "insert" <=> task[u] = "insert"
    BY <1>1 DEF OneMoves
  <2> QED  BY <2>1 DEF Inserting
<1>5. Fresh \ Called \subseteq Fresh' \ Called'
  BY <1>1 DEF Fresh, Called
<1>6. Preempted \ Called \subseteq Preempted' \ Called'
  BY <1>1 DEF Preempted, Called
<1>7. Going \cup Woken \subseteq Going' \cup Woken'
  <2> SUFFICES ASSUME NEW u \in Tasks, u # t, u \in Going \cup Woken  PROVE u \in Going' \cup Woken'
    BY DEF Going, Woken, Called
  <2>1. /\ u \in Going => u \in Going'
        /\ u \in Fresh => u \in Fresh'
        /\ u \in Preempted => u \in Preempted'
        /\ u \in Called => u \in Called'
    BY <1>1 DEF Going, Fresh, Preempted, Called
  <2> QED  BY <2>1 DEF Woken
<1>8. ASSUME TurnsInv  PROVE TurnsInv'
  BY <1>0, <1>4, <1>5, <1>6, <1>7, <1>8, TurnsKept DEF OneMoves
<1> QED  BY <1>0, <1>2, <1>3, <1>8 DEF RoundInv

\* The steps of a task that starts to run, ends its run and counts itself.
LEMMA RunSteps ==
  ASSUME NEW t \in Tasks, RoundInv, Round!Sound',
         Round!SemWait(t) \/ Round!CountRead(t) \/ Round!CountStore(t)
  PROVE  RoundInv'
<1>0. TaskTypes /\ ListInv
  BY DEF RoundInv
<1>a. ~Round!Freed(t)
  <2>1. task[t] \in Listed => \E i \in 1 .. Len(head) : head[i] = t
    BY <1>0 DEF ListInv, Members
  <2>2. DOMAIN head = 1 .. Len(head)
    BY <1>0 DEF ListInv
  <2> QED  BY <2>1, <2>2 DEF Round!Freed, Round!InRound, Listed
<1>1. /\ UNCHANGED <<head, usr2, sched, schedule_status, mutex, susp>>
      /\ susp[t] = "no"
      /\ \/ pend' = pend /\ task[t] # "store"
         \/ task[t] = "store" /\ pend' = [pend EXCEPT ![t] = {}] /\ raced' = (raced \/ "USR1" \in pend[t])
      /\ \E s : task' = [task EXCEPT ![t] = s] /\ <<task[t], s>> \in {<<"sem", "run">>, <<"count", "store">>, <<"store", "exit">>}
      /\ \/ wait_sem' = wait_sem /\ task[t] # "sem"
         \/ task[t] = "sem" /\ wait_sem[t] > 0 /\ wait_sem' = [wait_sem EXCEPT ![t] = @ - 1]
  BY <1>a DEF Round!SemWait, Round!CountRead, Round!CountStore, Round!Awake, Round!Goto,
       Round!queue, Round!SIGUSR1
<1>b. "USR1" \notin pend[t] \/ task[t] # "store"
  BY <1>1 DEF Round!Sound
<1>c. /\ pend' \in [Tasks -> SUBSET {"USR1", "CONT"}]
      /\ \A u \in Tasks : pend'[u] = pend[u] \/ (u = t /\ task[t] = "store" /\ pend'[u] = {})
  BY <1>0, <1>1 DEF TaskTypes
<1>2. PICK s : task' = [task EXCEPT ![t] = s] /\ <<task[t], s>> \in {<<"sem", "run">>, <<"count", "store">>, <<"store", "exit">>}
  BY <1>1
<1>3. /\ \/ task[t] = "sem" /\ s = "run"
         \/ task[t] = "count" /\ s = "store"
         \/ task[t] = "store" /\ s = "exit"
      /\ task'[t] = s
  BY <1>0, <1>2 DEF TaskTypes
<1>4. TaskTypes'
  <2>1. task' \in [Tasks -> {"arrive", "insert", "count", "store", "exit"} \cup Listed]
    BY <1>0, <1>2, <1>3 DEF TaskTypes, Listed
  <2>2. wait_sem' \in [Tasks -> Nat] /\ \A u \in Tasks : u # t => wait_sem'[u] = wait_sem[u]
    BY <1>0, <1>1 DEF TaskTypes
  <2>3. \A u \in Tasks : u # t => task'[u] = task[u]
    BY <1>0, <1>2 DEF TaskTypes
  <2> QED  BY <1>0, <1>1, <1>3, <1>c, <2>1, <2>2, <2>3 DEF TaskTypes
<1>5. OneMoves(t)
  <2>1. \A u \in Tasks : u # t => task'[u] = task[u] /\ wait_sem'[u] = wait_sem[u] /\ pend'[u] = pend[u]
    BY <1>0, <1>1, <1>2, <1>c DEF TaskTypes
  <2> QED  BY <1>1, <1>3, <1>4, <2>1 DEF OneMoves, Listed
<1>6. /\ t \notin Fresh
      /\ t \in Preempted => t \in Preempted' /\ (t \in Called <=> t \in Called')
      /\ t \in Going => t \in Going'
      /\ t \in Doomed => t \in Doomed'
  BY <1>0, <1>1, <1>3, <1>b, <1>c DEF Fresh, Preempted, Called, Going, Doomed, TaskTypes
<1> QED  BY <1>5, <1>6, OneMovesKeeps DEF Woken

\* The steps of SIGUSR1's handler.
LEMMA SuspendSteps ==
  ASSUME NEW t \in Tasks, RoundInv, Round!Sound', Round!thread_wait_sighand(t) \/ Round!Suspends(t)
  PROVE  RoundInv'
<1>0. TaskTypes
  BY DEF RoundInv
<1>1. /\ UNCHANGED <<head, usr2, sched, schedule_status, mutex, task, wait_sem>>
      /\ \/ /\ "USR1" \in pend[t] /\ susp[t] # "entering"
            /\ pend' = [pend EXCEPT ![t] = @ \ {"USR1"}] /\ susp' = [susp EXCEPT ![t] = "entering"]
            /\ raced' = (raced \/ task[t] \in {"deleting", "count", "store"})
         \/ susp[t] = "entering" /\ susp' = [susp EXCEPT ![t] = "in"] /\ pend' = pend
  BY DEF Round!thread_wait_sighand, Round!Suspends, Round!queue, Round!SIGUSR1
<1>2. \/ /\ "USR1" \in pend[t] /\ task[t] \notin {"deleting", "count", "store"}
         /\ pend'[t] = pend[t] \ {"USR1"} /\ susp'[t] = "entering"
      \/ susp[t] = "entering" /\ susp'[t] = "in" /\ pend'[t] = pend[t]
  BY <1>0, <1>1 DEF TaskTypes, Round!Sound
<1>3. \A u \in Tasks : u # t => susp'[u] = susp[u] /\ pend'[u] = pend[u]
  BY <1>0, <1>1 DEF TaskTypes
<1>4. task[t] \notin {"arrive", "insert"}
  BY <1>0, <1>2 DEF TaskTypes
<1>5. TaskTypes'
  <2>1. pend' \in [Tasks -> SUBSET {"USR1", "CONT"}] /\ susp' \in [Tasks -> {"no", "entering", "in"}]
    BY <1>0, <1>1 DEF TaskTypes
  <2> QED  BY <1>0, <1>1, <1>3, <1>4, <2>1 DEF TaskTypes
<1>7. OneMoves(t)
  BY <1>1, <1>3, <1>5 DEF OneMoves
<1>8. /\ t \notin Fresh /\ t \notin Going
      /\ t \in Preempted => t \in Preempted'
      /\ t \in Called <=> t \in Called'
      /\ t \in Doomed => t \in Doomed'
  BY <1>0, <1>1, <1>2 DEF Fresh, Preempted, Called, Going, Doomed, TaskTypes
<1> QED  BY <1>7, <1>8, OneMovesKeeps DEF Woken

\* The step of SIGCONT's handler.
LEMMA ContinueStep ==
  ASSUME NEW t \in Tasks, RoundInv, Round!Sound', Round!thread_cont_sighand(t)
  PROVE  RoundInv'
<1>0. TaskTypes
  BY DEF RoundInv
<1>1. /\ UNCHANGED <<head, usr2, sched, schedule_status, mutex, wait_sem>>
      /\ "CONT" \in pend[t]
      /\ pend' = [pend EXCEPT ![t] = @ \ {"CONT"}]
      /\ raced' = (raced \/ susp[t] = "entering" \/ "USR1" \in pend[t])
  BY DEF Round!thread_cont_sighand, Round!queue, Round!SIGCONT, Round!SIGUSR1
<1>2. susp[t] # "entering" /\ "USR1" \notin pend[t]
  BY <1>1 DEF Round!Sound
<1>3. /\ task' = [task EXCEPT ![t] = IF @ = "sem" THEN "run" ELSE @]
      /\ susp' = [susp EXCEPT ![t] = "no"]
  BY <1>0, <1>2 DEF Round!thread_cont_sighand, Round!Interrupted, TaskTypes
<1>4. /\ pend'[t] = pend[t] \ {"CONT"} /\ susp'[t] = "no"
      /\ task'[t] = (IF task[t] = "sem" THEN "run" ELSE task[t])
  BY <1>0, <1>1, <1>3 DEF TaskTypes
<1>5. pend'[t] = {}
  <2>1. pend[t] \subseteq {"USR1", "CONT"}
    BY <1>0 DEF TaskTypes
  <2> QED  BY <1>2, <1>4, <2>1
<1>6. \A u \in Tasks : u # t => task'[u] = task[u] /\ susp'[u] = susp[u] /\ pend'[u] = pend[u]
  BY <1>0, <1>1, <1>3 DEF TaskTypes
<1>7. task[t] \notin {"arrive", "insert"}
  BY <1>0, <1>1 DEF TaskTypes
<1>8. TaskTypes'
  <2>1. task' \in [Tasks -> {"arrive", "insert", "count", "store", "exit"} \cup Listed]
    BY <1>0, <1>3 DEF TaskTypes, Listed
  <2>2. pend' \in [Tasks -> SUBSET {"USR1", "CONT"}] /\ susp' \in [Tasks -> {"no", "entering", "in"}]
    BY <1>0, <1>1, <1>3 DEF TaskTypes
  <2> QED  BY <1>0, <1>1, <1>4, <1>6, <1>7, <2>1, <2>2 DEF TaskTypes
<1>9. OneMoves(t)
  <2>1. task'[t] \in Listed <=> task[t] \in Listed
    BY <1>4 DEF Listed
  <2>2. task'[t] = task[t] \/ (task[t] # "insert" /\ task'[t] \notin {"insert", "deleting"})
    BY <1>4
  <2> QED  BY <1>1, <1>6, <1>8, <2>1, <2>2 DEF OneMoves
<1>10. t \in Called /\ t \notin Going /\ t \notin Doomed
  BY <1>1, <1>2 DEF Called, Going, Doomed
<1>11. t \in Fresh \cup Preempted => t \in Going'
  BY <1>4, <1>5 DEF Fresh, Preempted, Going
<1> QED  BY <1>9, <1>10, <1>11, OneMovesKeeps DEF Woken

\* A task that asks for the mutex when it has ended: it was told to go, or else it
\* is doomed.
LEMMA DeleteLockStep ==
  ASSUME NEW t \in Tasks, RoundInv, Round!delete_task_lock(t)
  PROVE  RoundInv'
<1>0. TaskTypes /\ ListInv
  BY DEF RoundInv
<1>1. /\ UNCHANGED <<head, usr2, sched, schedule_status, wait_sem, susp, pend>>
      /\ task[t] = "run" /\ susp[t] = "no" /\ mutex = 0 /\ mutex' = t
      /\ task' = [task EXCEPT ![t] = "deleting"]
  BY DEF Round!delete_task_lock, Round!RunEnds, Round!Awake, Round!Goto
<1>2. task'[t] = "deleting" /\ \A u \in Tasks : u # t => task'[u] = task[u]
  BY <1>0, <1>1 DEF TaskTypes
<1>3. TaskTypes'
  <2>1. task' \in [Tasks -> {"arrive", "insert", "count", "store", "exit"} \cup Listed]
    BY <1>0, <1>1 DEF TaskTypes, Listed
  <2> QED  BY <1>0, <1>1, <1>2, <2>1 DEF TaskTypes
<1>4. \A u \in Tasks : task[u] \notin {"insert", "deleting"}
  BY <1>0, <1>1, ListedHead DEF ListInv
<1>5. ListInv'
  <2>1. \A u \in Tasks : task'[u] \in Listed <=> task[u] \in Listed
    BY <1>1, <1>2 DEF Listed
  <2>2. \A u \in Tasks : task'[u] \in {"insert", "deleting"} => mutex' = u
    BY <1>1, <1>2, <1>4
  <2> QED  BY <1>0, <1>1, <2>1, <2>2 DEF ListInv, Members
<1>6. ASSUME "USR1" \in pend[t]  PROVE Doomed' # {}
  BY <1>1, <1>2, <1>6 DEF Doomed
<1>7. Doomed \subseteq Doomed'
  BY <1>1, <1>2 DEF Doomed
<1>8. ASSUME "USR1" \notin pend[t], TurnsInv  PROVE TurnsInv'
  <2>1. Inserting' = Inserting
    BY <1>1, <1>2 DEF Inserting
  <2>2. Called' = Called /\ t \notin Fresh /\ t \notin Preempted /\ (t \in Going => t \in Going')
    BY <1>1, <1>2, <1>8 DEF Called, Fresh, Preempted, Going
  <2>3. \A u \in Tasks : u # t => /\ u \in Fresh => u \in Fresh'
                                  /\ u \in Preempted => u \in Preempted'
                                  /\ u \in Going => u \in Going'
    BY <1>1, <1>2 DEF Fresh, Preempted, Going
  <2>4. Fresh \subseteq Tasks /\ Preempted \subseteq Tasks /\ Going \subseteq Tasks
    BY DEF Fresh, Preempted, Going
  <2>5. Fresh \subseteq Fresh' /\ Preempted \subseteq Preempted' /\ Going \subseteq Going'
    BY <2>2, <2>3, <2>4
  <2>6. Going \cup Woken \subseteq Going' \cup Woken'
    BY <2>2, <2>5 DEF Woken
  <2> QED  BY <1>0, <1>1, <1>8, <2>1, <2>2, <2>5, <2>6, TurnsKept
<1> QED  BY <1>3, <1>5, <1>6, <1>7, <1>8 DEF RoundInv

\* delete_task, which removes the first node and wakes the next task.
LEMMA DeleteStep ==
  ASSUME NEW t \in Tasks, RoundInv, Round!Sound', Round!delete_task(t)
  PROVE  RoundInv'
<1>0. TaskTypes /\ ListInv
  BY DEF RoundInv
<1>1. /\ UNCHANGED <<usr2, sched, susp>>
      /\ task[t] = "deleting" /\ susp[t] = "no" /\ head' = Tail(head)
      /\ corrupt' = (corrupt \/ Head(head) # t) /\ mutex' = 0
      /\ wait_sem' = [wait_sem EXCEPT ![Head(head)] = 0]
      /\ schedule_status' = [schedule_status EXCEPT ![Head(head)] = "NONE"]
      /\ pend' = IF Tail(head) = <<>> THEN pend ELSE Round!Kill(Head(Tail(head)), "CONT")
      /\ task' = [task EXCEPT ![t] = "count"]
  BY DEF Round!delete_task, Round!Awake, Round!Goto, Round!SIGCONT
<1> DEFINE l == Len(head)
<1>2. /\ head \in Seq(Tasks) /\ (\A i, j \in 1 .. l : head[i] = head[j] => i = j)
      /\ t \in Members(head) /\ Head(head) = t
  BY <1>0, <1>1 DEF ListInv, Round!Sound, Listed
<1>3. head # <<>> /\ l \in Nat /\ l >= 1 /\ \A i \in 1 .. l : head[i] \in Tasks /\ task[head[i]] \in Listed
  <2>1. PICK i \in 1 .. Len(head) : t = head[i]
    BY <1>2 DEF Members
  <2> QED  BY <1>0, <1>2, <2>1, ListedHead
<1>4. /\ head[1] = t /\ head' \in Seq(Tasks) /\ Len(head') = l - 1
      /\ \A i \in 1 .. l - 1 : head'[i] = head[i + 1]
  BY <1>1, <1>2, <1>3
<1>5. Tail(head) # <<>> => l >= 2 /\ Head(Tail(head)) = head[2]
  BY <1>2, <1>3
<1>6. Tail(head) = <<>> => l = 1
  <2> DEFINE r == Tail(head)
  <2>1. Len(r) = l - 1
    BY <1>2, <1>3
  <2> HIDE DEF l, r
  <2>2. r = <<>> => l = 1
    BY <1>3, <2>1
  <2> QED  BY <2>2 DEF r
<1> HIDE DEF l
<1>7. /\ task'[t] = "count" /\ \A u \in Tasks : u # t => task'[u] = task[u]
      /\ task' \in [Tasks -> {"arrive", "insert", "count", "store", "exit"} \cup Listed]
  BY <1>0, <1>1 DEF TaskTypes, Listed
<1>a. /\ wait_sem' \in [Tasks -> Nat] /\ \A u \in Tasks : u # t => wait_sem'[u] = wait_sem[u]
      /\ schedule_status' \in [Tasks -> {"NONE", "WAITING", "READY", "RUNNING"}]
  BY <1>0, <1>1, <1>2 DEF TaskTypes
<1>8. /\ pend' \in [Tasks -> SUBSET {"USR1", "CONT"}]
      /\ \A u \in Tasks : pend'[u] = IF l >= 2 /\ u = head[2] THEN pend[u] \cup {"CONT"} ELSE pend[u]
  <2>1. pend \in [Tasks -> SUBSET {"USR1", "CONT"}]
    BY <1>0 DEF TaskTypes
  <2>2. CASE Tail(head) = <<>>
    <3>1. ~(l >= 2)
      BY <1>6, <2>2
    <3> QED  BY <1>1, <2>1, <2>2, <3>1
  <2>3. CASE Tail(head) # <<>>
    <3>0. l >= 2 /\ pend' = Round!Kill(head[2], "CONT")
      BY <1>1, <1>5, <2>3
    <3>2. 2 \in 1 .. l
      BY <1>3, <3>0
    <3>3. head[2] \in Tasks /\ task[head[2]] # "exit"
      BY <1>3, <3>2 DEF Listed
    <3>1. l >= 2 /\ pend' = [pend EXCEPT ![head[2]] = @ \cup {"CONT"}]
      BY <3>0, <3>3 DEF Round!Kill
    <3> QED  BY <2>1, <3>1, <3>3
  <2> QED  BY <2>2, <2>3
<1>9. l >= 2 => 2 \in 1 .. l /\ head[2] # t
  <2> SUFFICES ASSUME l >= 2  PROVE 2 \in 1 .. l /\ head[2] # t
    OBVIOUS
  <2>1. 2 \in 1 .. l /\ 1 \in 1 .. l
    BY <1>3
  <2> QED  BY <1>2, <1>4, <2>1
<1>10. TaskTypes'
  <2>1. \A u \in Tasks : u # t /\ task[u] \in {"arrive", "insert"} => pend'[u] = {}
    BY <1>0, <1>3, <1>8, <1>9 DEF TaskTypes, Listed
  <2> QED  BY <1>0, <1>1, <1>7, <1>8, <1>a, <2>1 DEF TaskTypes
<1>11. ListInv'
  <2>1. \A i, j \in 1 .. l - 1 : head'[i] = head'[j] => i = j
    <3> SUFFICES ASSUME NEW i \in 1 .. l - 1, NEW j \in 1 .. l - 1, head[i + 1] = head[j + 1]  PROVE i = j
      BY <1>4
    <3>1. i + 1 \in 1 .. l /\ j + 1 \in 1 .. l
      BY <1>3
    <3>2. i + 1 = j + 1
      BY <1>2, <3>1
    <3> QED  BY <3>2
  <2>2. ASSUME NEW u \in Tasks  PROVE u \in Members(head') <=> task'[u] \in Listed
    <3>1. CASE u = t
      <4>1. ASSUME NEW i \in 1 .. l - 1, head'[i] = t  PROVE FALSE
        <5>1. i + 1 \in 1 .. l /\ 1 \in 1 .. l /\ i + 1 # 1
          BY <1>3
        <5> QED  BY <1>2, <1>4, <4>1, <5>1
      <4> QED  BY <1>4, <1>7, <3>1, <4>1 DEF Members, Listed
    <3>2. CASE u # t
      <4>1. u \in Members(head') => u \in Members(head)
        <5> SUFFICES ASSUME NEW i \in 1 .. l - 1, u = head'[i]  PROVE u \in Members(head)
          BY <1>4 DEF Members
        <5>1. i + 1 \in 1 .. l /\ u = head[i + 1]
          BY <1>3, <1>4
        <5> QED  BY <5>1 DEF Members, l
      <4>2. u \in Members(head) => u \in Members(head')
        <5> SUFFICES ASSUME NEW i \in 1 .. l, u = head[i]  PROVE u \in Members(head')
          BY DEF Members, l
        <5>1. i # 1
          BY <1>4, <3>2
        <5>2. i - 1 \in 1 .. l - 1 /\ (i - 1) + 1 = i
          BY <1>3, <5>1
        <5>3. u = head'[i - 1]
          BY <1>4, <5>2
        <5> QED  BY <1>4, <5>2, <5>3 DEF Members
      <4> QED  BY <1>0, <1>7, <3>2, <4>1, <4>2 DEF ListInv
    <3> QED  BY <3>1, <3>2
  <2>3. \A u \in Tasks : task'[u] \notin {"insert", "deleting"}
    <3>1. \A u \in Tasks : task[u] \in {"insert", "deleting"} => u = t
      BY <1>0, <1>1 DEF ListInv
    <3> QED  BY <1>7, <3>1
  <2> QED  BY <1>4, <2>1, <2>2, <2>3 DEF ListInv
<1>12. ASSUME Doomed # {}  PROVE Doomed' # {}
  <2>1. PICK u \in Tasks : "USR1" \in pend[u] /\ task[u] \in {"deleting", "count", "store"}
    BY <1>12 DEF Doomed
  <2>2. "USR1" \in pend'[u] /\ task'[u] \in {"deleting", "count", "store"}
    BY <1>7, <1>8, <2>1
  <2> QED  BY <2>2 DEF Doomed
<1>13. ASSUME TurnsInv  PROVE TurnsInv'
  <2>1. head[1] \notin Stopped /\ head[1] \notin Woken
    BY <1>1, <1>4 DEF Stopped, Woken, Fresh, Preempted
  <2>2. ~Switching
    BY <1>3, <1>13, <2>1 DEF TurnsInv
  <2>3. Inserting' = {}
    BY <1>7, <2>2 DEF Switching, Inserting
  <2>4. ~usr2 /\ ~Acting
    BY <2>2 DEF Switching
  <2>5. ~usr2' /\ ~Acting' /\ ~Switching'
    BY <1>1, <2>3, <2>4 DEF Switching, Acting
  <2>6. ASSUME NEW i \in 2 .. l  PROVE IF i = 2 THEN head[i] \in Woken' ELSE head[i] \in Stopped'
    <3>1. head[i] \in Stopped /\ i \in 1 .. l /\ 1 \in 1 .. l
      BY <1>3, <1>13 DEF TurnsInv, l
    <3>2. head[i] \in Tasks /\ head[i] # t
      BY <1>2, <1>3, <1>4, <3>1
    <3>3. head[i] \in Fresh \/ head[i] \in Preempted
      BY <3>1 DEF Stopped
    <3>4. i # 2 => head[i] # head[2]
      <4>1. 2 \in 1 .. l
        BY <1>3
      <4> QED  BY <1>2, <3>1, <4>1
    <3>5. l >= 2
      BY <1>3
    <3>6. pend'[head[i]] = IF i = 2 THEN pend[head[i]] \cup {"CONT"} ELSE pend[head[i]]
      BY <1>8, <3>2, <3>4, <3>5
    <3>7. /\ task'[head[i]] = task[head[i]] /\ susp'[head[i]] = susp[head[i]]
          /\ wait_sem'[head[i]] = wait_sem[head[i]]
          /\ "USR1" \in pend'[head[i]] <=> "USR1" \in pend[head[i]]
      BY <1>1, <1>7, <1>a, <3>2, <3>6
    <3>8. head[i] \in Fresh' \/ head[i] \in Preempted'
      BY <3>2, <3>3, <3>7 DEF Fresh, Preempted
    <3>9. head[i] \in Called' <=> i = 2
      BY <3>1, <3>2, <3>6 DEF Called, Stopped
    <3> QED  BY <3>8, <3>9 DEF Woken, Stopped
  <2>7. ASSUME NEW i \in 2 .. l - 1  PROVE head'[i] \in Stopped'
    <3>1. i + 1 \in 2 .. l /\ i + 1 # 2 /\ i \in 1 .. l - 1
      BY <1>3
    <3> QED  BY <1>4, <2>6, <3>1
  <2>8. ASSUME head' # <<>>  PROVE head'[1] \in Woken'
    <3>1. l >= 2
      BY <1>1, <1>5, <2>8
    <3>2. 1 \in 1 .. l - 1 /\ 2 \in 2 .. l /\ 1 + 1 = 2
      BY <1>3, <3>1
    <3> QED  BY <1>4, <2>6, <3>2
  <2>9. sched' \notin {"post", "cont"}
    BY <2>5 DEF Acting
  <2> QED  BY <1>4, <2>3, <2>5, <2>7, <2>8, <2>9 DEF TurnsInv
<1> QED  BY <1>10, <1>11, <1>12, <1>13 DEF RoundInv

\* add_task up to the point where the head is stopped.  Nothing is on its way, so
\* the head of the list is a task that runs.
LEMMA AddBeginStep ==
  ASSUME NEW t \in Tasks, RoundInv, raced \in BOOLEAN, Round!Sound', Round!add_task_begin(t)
  PROVE  RoundInv'
<1>0. TaskTypes /\ ListInv
  BY DEF RoundInv
<1>1. /\ UNCHANGED <<head, usr2, sched, wait_sem, susp>>
      /\ task[t] = "arrive" /\ susp[t] = "no" /\ mutex = 0 /\ mutex' = t
      /\ schedule_status' = [u \in Tasks |-> IF u = t THEN "WAITING"
                                             ELSE IF head # <<>> /\ u = Head(head) THEN "READY"
                                             ELSE schedule_status[u]]
      /\ pend' = IF head = <<>> THEN pend ELSE Round!Kill(Head(head), "USR1")
      /\ task' = [task EXCEPT ![t] = "insert"]
      /\ raced' = (raced \/ ~Round!Quiet)
  BY DEF Round!add_task_begin, Round!Awake, Round!Goto, Round!SIGUSR1, Round!Tasks, Tasks
<1>2. Round!Quiet
  BY <1>1 DEF Round!Sound
<1>3. ~usr2 /\ ~Acting /\ \A u \in Tasks : pend[u] = {} /\ susp[u] # "entering"
  BY <1>2 DEF Round!Quiet, Acting, Round!Tasks, Tasks
<1>4. \A u \in Tasks : task[u] \notin {"insert", "deleting"}
  BY <1>0, <1>1, ListedHead DEF ListInv
<1>5. ~Switching
  BY <1>3, <1>4 DEF Switching, Inserting
<1>6. TurnsInv
  <2>1. Doomed = {}
    BY <1>3 DEF Doomed
  <2> QED  BY <2>1 DEF RoundInv
<1>7. /\ Len(head) \in Nat /\ \A i \in 1 .. Len(head) : head[i] \in Tasks /\ head[i] # t
      /\ head # <<>> => 1 \in 1 .. Len(head) /\ Head(head) = head[1]
  <2>1. head \in Seq(Tasks) /\ task[t] \notin Listed
    BY <1>0, <1>1 DEF ListInv, Listed
  <2> QED  BY <1>0, <2>1, ListedHead
<1>8. /\ task'[t] = "insert" /\ \A u \in Tasks : u # t => task'[u] = task[u]
      /\ task' \in [Tasks -> {"arrive", "insert", "count", "store", "exit"} \cup Listed]
  BY <1>0, <1>1 DEF TaskTypes
<1>9. /\ pend' \in [Tasks -> SUBSET {"USR1", "CONT"}]
      /\ \A u \in Tasks : pend'[u] = IF head # <<>> /\ u = head[1] THEN {"USR1"} ELSE {}
  <2>1. pend \in [Tasks -> SUBSET {"USR1", "CONT"}]
    BY <1>0 DEF TaskTypes
  <2>2. CASE head = <<>>
    BY <1>1, <1>3, <2>1, <2>2
  <2>3. CASE head # <<>>
    <3>0. task[head[1]] # "exit"
      BY <1>0, <1>7, <2>3, ListedHead DEF Listed
    <3>1. pend' = [pend EXCEPT ![head[1]] = @ \cup {"USR1"}] /\ head[1] \in Tasks
      BY <1>1, <1>7, <2>3, <3>0 DEF Round!Kill
    <3> QED  BY <1>3, <2>1, <2>3, <3>1
  <2> QED  BY <2>2, <2>3
<1>10. /\ schedule_status'[t] = "WAITING"
       /\ head # <<>> => schedule_status'[head[1]] = "READY"
       /\ schedule_status' \in [Tasks -> {"NONE", "WAITING", "READY", "RUNNING"}]
  <2>1. schedule_status'[t] = "WAITING" /\ (head # <<>> => schedule_status'[head[1]] = "READY")
    BY <1>1, <1>7
  <2>2. schedule_status \in [Tasks -> {"NONE", "WAITING", "READY", "RUNNING"}]
    BY <1>0 DEF TaskTypes
  <2> QED  BY <1>1, <2>1, <2>2
<1>11. head # <<>> => task[head[1]] \in Listed
  BY <1>0, ListedHead
<1>12. TaskTypes'
  <2>1. \A u \in Tasks : task'[u] \in {"arrive", "insert"} => pend'[u] = {} /\ susp'[u] = "no" /\ wait_sem'[u] = 0
    BY <1>0, <1>1, <1>7, <1>8, <1>9, <1>11 DEF TaskTypes, Listed
  <2> QED  BY <1>0, <1>1, <1>8, <1>9, <1>10, <2>1 DEF TaskTypes
<1>13. ListInv'
  <2>1. \A u \in Tasks : task'[u] \in Listed <=> task[u] \in Listed
    BY <1>1, <1>8 DEF Listed
  <2>2. \A u \in Tasks : task'[u] \in {"insert", "deleting"} => mutex' = u
    BY <1>1, <1>4, <1>8
  <2> QED  BY <1>0, <1>1, <2>1, <2>2 DEF ListInv, Members
<1>14. Inserting' = {t} /\ Switching'
  BY <1>4, <1>8 DEF Inserting, Switching
<1>15. ASSUME head # <<>>  PROVE head[1] \in Preempted' /\ head[1] \in Stopped'
  <2>1. head[1] \in Going \/ head[1] \in Woken
    BY <1>5, <1>6, <1>15 DEF TurnsInv
  <2>2. head[1] \in Tasks /\ head[1] # t
    BY <1>7, <1>15
  <2>3. head[1] \in Going
    BY <1>3, <2>1, <2>2 DEF Woken, Called
  <2>4. /\ task[head[1]] = "run" \/ (task[head[1]] = "sem" /\ wait_sem[head[1]] > 0)
        /\ susp[head[1]] = "no"
    BY <1>4, <2>2, <2>3 DEF Going
  <2>5. pend'[head[1]] = {"USR1"}
    BY <1>9, <1>15, <2>2
  <2>6. head[1] \in Preempted' /\ head[1] \notin Called'
    BY <1>1, <1>8, <2>2, <2>4, <2>5 DEF Preempted, Called
  <2> QED  BY <2>6 DEF Stopped
<1>16. ASSUME NEW i \in 2 .. Len(head)  PROVE head[i] \in Stopped'
  <2>1. head[i] \in Stopped
    BY <1>6 DEF TurnsInv
  <2>2. i \in 1 .. Len(head) /\ 1 \in 1 .. Len(head) /\ i # 1
    BY <1>7
  <2>3. head[i] \in Tasks /\ head[i] # t /\ head[i] # head[1]
    BY <1>0, <1>7, <2>2 DEF ListInv
  <2>4. pend'[head[i]] = pend[head[i]]
    BY <1>3, <1>9, <2>3
  <2>5. /\ head[i] \in Fresh => head[i] \in Fresh'
        /\ head[i] \in Preempted => head[i] \in Preempted'
        /\ head[i] \notin Called => head[i] \notin Called'
    BY <1>1, <1>8, <2>3, <2>4 DEF Fresh, Preempted, Called
  <2> QED  BY <2>1, <2>5 DEF Stopped
<1>17. ~usr2' /\ ~Acting' /\ sched' \notin {"post", "cont"}
  BY <1>1, <1>3 DEF Acting
<1>18. TurnsInv'
  BY <1>1, <1>10, <1>14, <1>15, <1>16, <1>17 DEF TurnsInv
<1> QED  BY <1>12, <1>13, <1>18 DEF RoundInv

\* The insertion.  The new task has not been started; the scheduler thread will
\* find it or the task that was stopped for it at the head.
LEMMA AddInsertStep ==
  ASSUME NEW t \in Tasks, RoundInv, schedule_policy \in Round!Policies, Round!add_task_insert(t)
  PROVE  RoundInv'
<1>0. TaskTypes /\ ListInv
  BY DEF RoundInv
<1>1. /\ UNCHANGED <<schedule_status, sched, wait_sem, susp, pend>>
      /\ task[t] = "insert" /\ head' = Round!Inserted(head, t)
      /\ usr2' = TRUE /\ mutex' = 0 /\ task' = [task EXCEPT ![t] = "sem"]
  BY DEF Round!add_task_insert, Round!Awake, Round!Goto
<1> DEFINE l == Len(head)
<1>2. head \in Seq(Tasks) /\ l \in Nat /\ (\A i \in 1 .. l : head[i] \in Tasks /\ head[i] # t)
      /\ \A i, j \in 1 .. l : head[i] = head[j] => i = j
  <2>1. task[t] \notin Listed
    BY <1>1 DEF Listed
  <2> QED  BY <1>0, <2>1, ListedHead DEF ListInv
<1>3. PICK n : Placed(head', head, t, n)
  BY <1>1, <1>2, InsertedPlaces
<1>4. /\ n \in 0 .. l /\ head' \in Seq(Tasks) /\ Len(head') = l + 1
      /\ \A i \in 1 .. l + 1 : head'[i] = IF i <= n THEN head[i] ELSE IF i = n + 1 THEN t ELSE head[i - 1]
  BY <1>3 DEF Placed
<1>5. head = <<>> <=> l = 0
  BY <1>2
<1> HIDE DEF l
<1>6. /\ task'[t] = "sem" /\ \A u \in Tasks : u # t => task'[u] = task[u]
      /\ task' \in [Tasks -> {"arrive", "insert", "count", "store", "exit"} \cup Listed]
  BY <1>0, <1>1 DEF TaskTypes, Listed
<1>7. TaskTypes'
  BY <1>0, <1>1, <1>6 DEF TaskTypes
<1>8. \A u \in Tasks : task[u] \in {"insert", "deleting"} => u = t
  BY <1>0, <1>1 DEF ListInv
<1>9. ASSUME NEW i \in 1 .. l + 1
      PROVE  IF i = n + 1 THEN head'[i] = t
             ELSE \E j \in 1 .. l : head'[i] = head[j] /\ j = (IF i <= n THEN i ELSE i - 1)
  <2>1. CASE i <= n
    <3>1. i \in 1 .. l /\ i # n + 1
      BY <1>2, <1>4, <2>1
    <3> QED  BY <1>4, <2>1, <3>1
  <2>2. CASE i = n + 1
    <3>1. ~(i <= n)
      BY <1>2, <1>4, <2>2
    <3> QED  BY <1>4, <2>2, <3>1
  <2>3. CASE i > n + 1
    <3>1. i - 1 \in 1 .. l /\ ~(i <= n) /\ i # n + 1
      BY <1>2, <1>4, <2>3
    <3> QED  BY <1>4, <2>3, <3>1
  <2> QED  BY <1>4, <2>1, <2>2, <2>3
<1>10. ListInv'
  <2>1. ASSUME NEW i \in 1 .. l + 1, NEW j \in 1 .. l + 1, head'[i] = head'[j]  PROVE i = j
    <3>1. CASE i = n + 1 \/ j = n + 1
      BY <1>2, <1>9, <2>1, <3>1
    <3>2. CASE i # n + 1 /\ j # n + 1
      <4>1. PICK x \in 1 .. l : head'[i] = head[x] /\ x = (IF i <= n THEN i ELSE i - 1)
        BY <1>9, <3>2
      <4>2. PICK y \in 1 .. l : head'[j] = head[y] /\ y = (IF j <= n THEN j ELSE j - 1)
        BY <1>9, <3>2
      <4>3. x = y
        BY <1>2, <2>1, <4>1, <4>2
      <4> QED  BY <1>4, <3>2, <4>1, <4>2, <4>3
    <3> QED  BY <3>1, <3>2
  <2>2. ASSUME NEW u \in Tasks  PROVE u \in Members(head') <=> task'[u] \in Listed
    <3>1. CASE u = t
      <4>1. n + 1 \in 1 .. l + 1
        BY <1>2, <1>4
      <4>2. head'[n + 1] = t
        BY <1>9, <4>1
      <4> QED  BY <1>4, <1>6, <3>1, <4>1, <4>2 DEF Members, Listed
    <3>2. CASE u # t
      <4>1. u \in Members(head') => u \in Members(head)
        <5> SUFFICES ASSUME NEW i \in 1 .. l + 1, u = head'[i]  PROVE u \in Members(head)
          BY <1>4 DEF Members
        <5>1. PICK j \in 1 .. l : head'[i] = head[j]
          BY <1>9, <3>2
        <5> QED  BY <5>1 DEF Members, l
      <4>2. u \in Members(head) => u \in Members(head')
        <5> SUFFICES ASSUME NEW j \in 1 .. l, u = head[j]  PROVE u \in Members(head')
          BY DEF Members, l
        <5>1. CASE j <= n
          <6>1. j \in 1 .. l + 1 /\ head'[j] = head[j]
            BY <1>2, <1>4, <5>1
          <6> QED  BY <1>4, <6>1 DEF Members
        <5>2. CASE j > n
          <6>1. j + 1 \in 1 .. l + 1 /\ ~(j + 1 <= n) /\ j + 1 # n + 1 /\ (j + 1) - 1 = j
            BY <1>2, <1>4, <5>2
          <6>2. head'[j + 1] = head[j]
            BY <1>4, <6>1
          <6> QED  BY <1>4, <6>1, <6>2 DEF Members
        <5> QED  BY <1>4, <5>1, <5>2
      <4> QED  BY <1>0, <1>6, <3>2, <4>1, <4>2 DEF ListInv
    <3> QED  BY <3>1, <3>2
  <2>3. \A u \in Tasks : task'[u] \notin {"insert", "deleting"}
    BY <1>6, <1>8
  <2> QED  BY <1>4, <2>1, <2>2, <2>3 DEF ListInv
<1>11. Doomed \subseteq Doomed'
  BY <1>1, <1>6 DEF Doomed
<1>12. ASSUME TurnsInv  PROVE TurnsInv'
  <2>1. t \in Inserting /\ Switching
    BY <1>1 DEF Inserting, Switching
  <2>2. /\ ~Acting /\ schedule_status[t] = "WAITING"
        /\ head # <<>> => head[1] \in Preempted /\ schedule_status[head[1]] = "READY"
    BY <1>12, <2>1 DEF TurnsInv
  <2>3. t \in Fresh' /\ t \in Stopped'
    <3>1. pend'[t] = {} /\ susp'[t] = "no" /\ wait_sem'[t] = 0
      BY <1>0, <1>1 DEF TaskTypes
    <3>2. t \in Fresh' /\ t \notin Called'
      BY <1>6, <3>1 DEF Fresh, Called
    <3> QED  BY <3>2 DEF Stopped
  <2>4. \A u \in Tasks : u # t => /\ u \in Fresh => u \in Fresh'
                                  /\ u \in Preempted => u \in Preempted'
                                  /\ u \in Called' <=> u \in Called
    BY <1>1, <1>6 DEF Fresh, Preempted, Called
  <2>5. ASSUME NEW j \in 1 .. l  PROVE head[j] \in Stopped /\ head[j] \in Stopped'
    <3>1. j = 1 \/ j \in 2 .. Len(head)
      BY <1>2 DEF l
    <3>2. head # <<>>
      BY <1>2, <1>5
    <3>3. head[j] \in Stopped
      BY <1>12, <2>1, <3>1, <3>2 DEF TurnsInv
    <3> QED  BY <1>2, <2>4, <3>3 DEF Stopped
  <2>6. \A i \in 1 .. l + 1 : head'[i] \in Stopped'
    BY <1>9, <2>3, <2>5
  <2>7. Inserting' = {} /\ ~Acting' /\ sched' \notin {"post", "cont"} /\ Switching'
    <3>1. Inserting' = {}
      BY <1>6, <1>8 DEF Inserting
    <3> QED  BY <1>1, <2>2, <3>1 DEF Acting, Switching
  <2>8. head' # <<>> /\ 1 \in 1 .. l + 1
    <3>1. 1 \in 1 .. l + 1 /\ l + 1 # 0
      BY <1>2
    <3>2. Len(head') # 0
      BY <1>4, <3>1
    <3> QED  BY <3>1, <3>2
  <2>9. \/ schedule_status'[head'[1]] = "WAITING" /\ head'[1] \in Fresh'
        \/ schedule_status'[head'[1]] = "READY" /\ head'[1] \in Preempted'
    <3>1. CASE n = 0
      <4>1. 1 = n + 1
        BY <3>1
      <4>2. head'[1] = t
        BY <1>9, <2>8, <4>1
      <4> QED  BY <1>1, <2>2, <2>3, <4>2
    <3>2. CASE n # 0
      <4>1. 1 # n + 1 /\ 1 <= n /\ 1 \in 1 .. l
        BY <1>2, <1>4, <3>2
      <4>2. head'[1] = head[1]
        BY <1>4, <2>8, <4>1
      <4>3. head # <<>> /\ head[1] \in Tasks /\ head[1] # t
        BY <1>2, <1>5, <4>1
      <4> QED  BY <1>1, <2>2, <2>4, <4>2, <4>3
    <3> QED  BY <3>1, <3>2
  <2>10. \A i \in 2 .. Len(head') : head'[i] \in Stopped'
    <3>1. \A i \in 2 .. Len(head') : i \in 1 .. l + 1
      BY <1>2, <1>4
    <3> QED  BY <2>6, <3>1
  <2> QED  BY <2>6, <2>7, <2>8, <2>9, <2>10 DEF TurnsInv
<1> QED  BY <1>7, <1>10, <1>11, <1>12 DEF RoundInv

\* SIGUSR2's handler looks at the head's status.
LEMMA LookStep ==
  ASSUME RoundInv, Round!Sound', Round!sched_run_sighand
  PROVE  RoundInv'
<1>0. TaskTypes /\ ListInv
  BY DEF RoundInv
<1>1. /\ UNCHANGED <<head, schedule_status, wait_sem, mutex, task, susp, pend>>
      /\ usr2 /\ ~usr2' /\ sched = "idle"
  BY DEF Round!sched_run_sighand, Round!queue
<1>2. head # <<>> /\ sched' = (CASE schedule_status[Head(head)] = "WAITING" -> "post"
                                [] schedule_status[Head(head)] = "READY" -> "cont"
                                [] OTHER -> "idle")
  BY DEF Round!sched_run_sighand, Round!Sound
<1>3. TaskTypes' /\ ListInv'
  BY <1>0, <1>1 DEF TaskTypes, ListInv, Members
<1>4. Doomed' = Doomed /\ Fresh' = Fresh /\ Preempted' = Preempted /\ Called' = Called /\ Inserting' = Inserting
  BY <1>1 DEF Doomed, Fresh, Preempted, Called, Inserting
<1>5. Stopped' = Stopped
  BY <1>4 DEF Stopped
<1>6. ASSUME TurnsInv  PROVE TurnsInv'
  <2>1. head[1] = Head(head)
    BY <1>0, <1>2 DEF ListInv
  <2>2. Switching /\ Inserting = {}
    BY <1>1, <1>6 DEF TurnsInv, Switching
  <2>3. head[1] \in Stopped
    BY <1>2, <1>6, <2>2 DEF TurnsInv
  <2>4. \/ schedule_status[head[1]] = "WAITING" /\ head[1] \in Fresh
        \/ schedule_status[head[1]] = "READY" /\ head[1] \in Preempted
    BY <1>1, <1>6 DEF TurnsInv
  <2>5. (sched' = "post" /\ head[1] \in Fresh) \/ (sched' = "cont" /\ head[1] \in Preempted)
    BY <1>2, <2>1, <2>4
  <2>6. Switching'
    BY <2>5 DEF Switching, Acting
  <2>7. \A i \in 2 .. Len(head) : head[i] \in Stopped
    BY <1>6 DEF TurnsInv
  <2> QED  BY <1>1, <1>2, <1>4, <1>5, <2>2, <2>3, <2>5, <2>6, <2>7 DEF TurnsInv
<1> QED  BY <1>3, <1>4, <1>6 DEF RoundInv

\* It sets the head going: it has not changed since it was looked at, unless the
\* round has raced.
LEMMA ActStep ==
  ASSUME RoundInv, Round!Sound', Round!sched_run_acts
  PROVE  RoundInv'
<1>0. TaskTypes /\ ListInv
  BY DEF RoundInv
<1> DEFINE t == head[1]
<1>1. /\ UNCHANGED <<head, mutex, task, susp, usr2>>
      /\ sched \in {"post", "cont"} /\ sched' = "idle" /\ head # <<>> /\ Head(head) = t
      /\ schedule_status' = [schedule_status EXCEPT ![t] = "RUNNING"]
      /\ wait_sem' = IF sched = "post" THEN [wait_sem EXCEPT ![t] = @ + 1] ELSE wait_sem
      /\ pend' = IF sched = "cont" THEN [pend EXCEPT ![t] = @ \cup {"CONT"}] ELSE pend
  <2>1. head # <<>>
    BY DEF Round!sched_run_acts, Round!Sound
  <2>2. Head(head) = t
    BY <1>0, <2>1 DEF ListInv
  <2>3. task[t] # "exit"
    BY <1>0, <2>1, ListedHead DEF Listed
  <2> QED  BY <2>1, <2>2, <2>3 DEF Round!sched_run_acts, Round!SIGCONT, Round!Kill
<1>2. /\ t \in Tasks /\ task[t] \in Listed
      /\ \A i, j \in 1 .. Len(head) : head[i] = head[j] => i = j
  BY <1>0, <1>1, ListedHead DEF ListInv
<1> HIDE DEF t
<1>3. /\ \A u \in Tasks : u # t => wait_sem'[u] = wait_sem[u] /\ pend'[u] = pend[u]
      /\ wait_sem'[t] = IF sched = "post" THEN wait_sem[t] + 1 ELSE wait_sem[t]
      /\ pend'[t] = IF sched = "cont" THEN pend[t] \cup {"CONT"} ELSE pend[t]
  BY <1>0, <1>1, <1>2 DEF TaskTypes
<1>4. TaskTypes'
  <2>1. /\ schedule_status' \in [Tasks -> {"NONE", "WAITING", "READY", "RUNNING"}]
        /\ wait_sem' \in [Tasks -> Nat]
    BY <1>0, <1>1, <1>2 DEF TaskTypes
  <2>2. pend' \in [Tasks -> SUBSET {"USR1", "CONT"}]
    BY <1>0, <1>1, <1>2 DEF TaskTypes
  <2>3. task[t] \notin {"arrive", "insert"}
    BY <1>2 DEF Listed
  <2> QED  BY <1>0, <1>1, <1>3, <2>1, <2>2, <2>3 DEF TaskTypes
<1>5. ListInv'
  BY <1>0, <1>1 DEF ListInv, Members
<1>6. Doomed \subseteq Doomed' /\ Inserting' = Inserting
  <2>1. \A u \in Tasks : "USR1" \in pend[u] => "USR1" \in pend'[u]
    BY <1>3
  <2> QED  BY <1>1, <2>1 DEF Doomed, Inserting
<1>7. ASSUME TurnsInv  PROVE TurnsInv'
  <2>1. Acting /\ Switching
    BY <1>1 DEF Switching, Acting
  <2>2. Inserting = {} /\ ~usr2
    BY <1>7, <2>1 DEF TurnsInv
  <2>3. ~usr2' /\ ~Acting' /\ ~Switching' /\ Inserting' = {}
    BY <1>1, <1>6, <2>2 DEF Switching, Acting
  <2>4. t \in Stopped
    BY <1>1, <1>7, <2>1 DEF TurnsInv, t
  <2>5. ASSUME sched = "post"  PROVE t \in Going'
    <3>1. t \in Fresh /\ t \notin Called
      BY <1>7, <2>4, <2>5 DEF TurnsInv, t, Stopped
    <3>2. pend[t] \subseteq {"USR1", "CONT"} /\ wait_sem[t] \in Nat
      BY <1>0, <1>2 DEF TaskTypes
    <3>3. pend[t] = {}
      BY <1>2, <3>1, <3>2 DEF Fresh, Called
    <3>4. pend'[t] = {} /\ wait_sem'[t] > 0 /\ task'[t] = "sem" /\ susp'[t] = "no"
      BY <1>1, <1>3, <2>5, <3>1, <3>2, <3>3 DEF Fresh
    <3> QED  BY <1>2, <3>4 DEF Going
  <2>6. ASSUME sched = "cont"  PROVE t \in Woken'
    <3>1. t \in Preempted
      BY <1>7, <2>6 DEF TurnsInv, t
    <3>2. wait_sem'[t] = wait_sem[t] /\ pend'[t] = pend[t] \cup {"CONT"}
      BY <1>3, <2>6
    <3>3. t \in Preempted' /\ t \in Called'
      BY <1>1, <1>2, <3>1, <3>2 DEF Preempted, Called
    <3> QED  BY <3>3 DEF Woken
  <2>7. ASSUME NEW i \in 2 .. Len(head)  PROVE head[i] \in Stopped'
    <3>1. Len(head) \in Nat
      BY <1>0, ListedHead
    <3>2. i \in 1 .. Len(head) /\ 1 \in 1 .. Len(head) /\ i # 1
      BY <3>1
    <3>3. head[i] # t /\ head[i] \in Tasks
      BY <1>0, <1>2, <3>2, ListedHead DEF t
    <3>4. head[i] \in Stopped
      BY <1>7 DEF TurnsInv
    <3>5. /\ head[i] \in Fresh => head[i] \in Fresh'
          /\ head[i] \in Preempted => head[i] \in Preempted'
          /\ head[i] \in Called' => head[i] \in Called
      BY <1>1, <1>3, <3>3 DEF Fresh, Preempted, Called
    <3> QED  BY <3>4, <3>5 DEF Stopped
  <2>8. head' = head /\ sched' = "idle" /\ t \in Going' \cup Woken'
    BY <1>1, <2>5, <2>6
  <2>9. head[1] \in Going' \cup Woken'
    BY <2>8 DEF t
  <2> QED  BY <2>3, <2>7, <2>8, <2>9 DEF TurnsInv
<1> QED  BY <1>4, <1>5, <1>6, <1>7 DEF RoundInv

LEMMA RunnerStep ==
  ASSUME RoundInv, Round!schedule_runner
  PROVE  RoundInv'
<1>0. TaskTypes /\ ListInv
  BY DEF RoundInv
<1>1. /\ UNCHANGED <<head, schedule_status, wait_sem, mutex, task, susp, pend, usr2>>
      /\ sched = "idle" /\ sched' = "exit"
  BY DEF Round!schedule_runner, Round!queue
<1>2. TaskTypes' /\ ListInv'
  BY <1>0, <1>1 DEF TaskTypes, ListInv, Members
<1>3. /\ Doomed' = Doomed /\ Fresh' = Fresh /\ Preempted' = Preempted /\ Called' = Called
      /\ Inserting' = Inserting /\ Going' = Going
  BY <1>1 DEF Doomed, Fresh, Preempted, Called, Inserting, Going
<1>4. Woken' = Woken /\ ~Acting /\ ~Acting'
  BY <1>1, <1>3 DEF Woken, Acting
<1>5. ASSUME TurnsInv  PROVE TurnsInv'
  BY <1>0, <1>1, <1>3, <1>4, <1>5, TurnsKept
<1> QED  BY <1>2, <1>3, <1>5 DEF RoundInv

LEMMA OrderedList == Round!ListOrdered <=> Ordered(schedule_policy, head)
  BY DEF Round!ListOrdered, Ordered, From, Round!Shorter, Round!Higher

LEMMA OrderedListNext == Round!ListOrdered' <=> Ordered(schedule_policy, head)'
<1>1. Round!ListOrdered <=> Ordered(schedule_policy, head)
  BY OrderedList
<1> QED  BY <1>1, PTL

LEMMA RoundCardinality ==
  ASSUME NEW S  PROVE Round!Cardinality(S) = Cardinality(S)
BY DEF Round!Cardinality, Cardinality

\* How many tasks there are in the round when one comes or goes.
LEMMA RoundCounts ==
  /\ IsFiniteSet(InRound) /\ Cardinality(InRound) \in Nat
  /\ \A t \in Tasks : t \notin InRound => Cardinality(InRound \cup {t}) = Cardinality(InRound) + 1
  /\ \A t \in InRound : Cardinality(InRound \ {t}) = Cardinality(InRound) - 1 /\ Cardinality(InRound) >= 1
<1>1. IsFiniteSet(Tasks)
  <2>1. WCT \in Seq(Int)
    BY Input
  <2>2. DOMAIN WCT = 1 .. Len(WCT) /\ Len(WCT) \in Nat
    BY <2>1
  <2> QED  BY <2>2, FS_Interval DEF Tasks
<1>2. IsFiniteSet(InRound)
  BY <1>1, FS_Subset DEF InRound
<1>3. Cardinality(InRound) \in Nat
  BY <1>2, FS_CardinalityType
<1>4. \A t \in InRound : Cardinality(InRound \ {t}) = Cardinality(InRound) - 1 /\ IsFiniteSet(InRound \ {t})
  BY <1>2, FS_RemoveElement
<1>5. \A t \in InRound : Cardinality(InRound \ {t}) \in Nat
  BY <1>4, FS_CardinalityType
<1>6. ASSUME NEW t \in InRound  PROVE Cardinality(InRound) >= 1
  <2> DEFINE n == Cardinality(InRound)
             m == Cardinality(InRound \ {t})
  <2>1. n \in Nat /\ m \in Nat /\ m = n - 1
    BY <1>3, <1>4, <1>5
  <2> HIDE DEF n, m
  <2>2. n >= 1
    BY <2>1
  <2> QED  BY <2>2 DEF n
<1> QED  BY <1>2, <1>3, <1>4, <1>6, FS_AddElement

\* While a task is in the round the list is not empty.
LEMMA NodeLeft ==
  ASSUME NodesInv, NEW t \in Tasks, task[t] \in Listed
  PROVE  head # <<>> /\ Len(head) \in Nat /\ Len(head) >= 1
<1>1. t \in InRound
  BY DEF InRound
<1>2. Len(head) >= 1
  BY <1>1, RoundCounts DEF NodesInv
<1> QED  BY <1>2 DEF NodesInv

\* A step that neither inserts nor removes a node.
LEMMA NodesStay ==
  ASSUME NodesInv, head' = head, NEW t \in Tasks, NEW s \in {"insert", "count", "store", "exit"} \cup Listed,
         task' = [task EXCEPT ![t] = s], s \in Listed <=> task[t] \in Listed,
         s = "insert" => task[t] \in {"arrive", "insert"}
  PROVE  NodesInv'
<1>1. task'[t] = s /\ (\A u \in Tasks : u # t => task'[u] = task[u])
      /\ task' \in [Tasks -> {"arrive", "insert", "count", "store", "exit"} \cup Listed]
  BY DEF NodesInv
<1>2. InRound' = InRound
  BY <1>1 DEF InRound
<1>3. \A i \in 1 .. Len(head) : head[i] \in Tasks
  BY DEF NodesInv
<1>4. \A i \in 1 .. Len(head) : task'[head[i]] \notin {"arrive", "insert"}
  BY <1>1, <1>3 DEF NodesInv, Listed
<1> QED  BY <1>1, <1>2, <1>4 DEF NodesInv

LEMMA NodesInsert ==
  ASSUME NodesInv, schedule_policy \in Round!Policies, NEW t \in Tasks, Round!add_task_insert(t)
  PROVE  NodesInv'
<1>1. task[t] = "insert" /\ head' = Round!Inserted(head, t) /\ task' = [task EXCEPT ![t] = "sem"]
  BY DEF Round!add_task_insert, Round!Awake, Round!Goto
<1> DEFINE l == Len(head)
<1>2. /\ head \in Seq(Tasks) /\ l \in Nat /\ (\A i \in 1 .. l : head[i] \in Tasks /\ head[i] # t)
      /\ \A i, j \in 1 .. l : head[i] = head[j] => i = j
  BY <1>1 DEF NodesInv
<1>3. PICK n : Placed(head', head, t, n)
  BY <1>1, <1>2, InsertedPlaces
<1>4. /\ n \in 0 .. l /\ head' \in Seq(Tasks) /\ Len(head') = l + 1
      /\ \A i \in 1 .. l + 1 : head'[i] = IF i <= n THEN head[i] ELSE IF i = n + 1 THEN t ELSE head[i - 1]
  BY <1>3 DEF Placed
<1>5. /\ task'[t] = "sem" /\ \A u \in Tasks : u # t => task'[u] = task[u]
      /\ task' \in [Tasks -> {"arrive", "insert", "count", "store", "exit"} \cup Listed]
  BY <1>1 DEF NodesInv, Listed
<1>6. InRound' = InRound \cup {t} /\ t \notin InRound
  BY <1>1, <1>5 DEF InRound, Listed
<1>7. Len(head') = Cardinality(InRound')
  BY <1>2, <1>4, <1>6, RoundCounts DEF NodesInv
<1>8. \A i \in 1 .. l : task[head[i]] \notin {"arrive", "insert"}
  BY DEF NodesInv
<1> HIDE DEF l
<1>9. ASSUME NEW i \in 1 .. l + 1
      PROVE  IF i = n + 1 THEN head'[i] = t
             ELSE \E j \in 1 .. l : head'[i] = head[j] /\ j = (IF i <= n THEN i ELSE i - 1)
  <2>1. CASE i <= n
    <3>1. i \in 1 .. l /\ i # n + 1
      BY <1>2, <1>4, <2>1
    <3> QED  BY <1>4, <2>1, <3>1
  <2>2. CASE i = n + 1
    <3>1. ~(i <= n)
      BY <1>2, <1>4, <2>2
    <3> QED  BY <1>4, <2>2, <3>1
  <2>3. CASE i > n + 1
    <3>1. i - 1 \in 1 .. l /\ ~(i <= n) /\ i # n + 1
      BY <1>2, <1>4, <2>3
    <3> QED  BY <1>4, <2>3, <3>1
  <2> QED  BY <1>4, <2>1, <2>2, <2>3
<1>10. ASSUME NEW i \in 1 .. l + 1, NEW j \in 1 .. l + 1, head'[i] = head'[j]  PROVE i = j
  <2>1. CASE i = n + 1 \/ j = n + 1
    BY <1>2, <1>9, <1>10, <2>1
  <2>2. CASE i # n + 1 /\ j # n + 1
    <3>1. PICK x \in 1 .. l : head'[i] = head[x] /\ x = (IF i <= n THEN i ELSE i - 1)
      BY <1>9, <2>2
    <3>2. PICK y \in 1 .. l : head'[j] = head[y] /\ y = (IF j <= n THEN j ELSE j - 1)
      BY <1>9, <2>2
    <3>3. x = y
      BY <1>2, <1>10, <3>1, <3>2
    <3> QED  BY <1>4, <2>2, <3>1, <3>2, <3>3
  <2> QED  BY <2>1, <2>2
<1>11. ASSUME NEW i \in 1 .. l + 1  PROVE task'[head'[i]] \notin {"arrive", "insert"}
  <2>1. CASE i = n + 1
    BY <1>5, <1>9, <2>1
  <2>2. CASE i # n + 1
    <3>1. PICK j \in 1 .. l : head'[i] = head[j]
      BY <1>9, <2>2
    <3> QED  BY <1>2, <1>5, <1>8, <3>1
  <2> QED  BY <2>1, <2>2
<1> QED  BY <1>4, <1>5, <1>7, <1>10, <1>11 DEF NodesInv

LEMMA NodesDelete ==
  ASSUME NodesInv, NEW t \in Tasks, Round!delete_task(t)
  PROVE  NodesInv'
<1>1. task[t] = "deleting" /\ head' = Tail(head) /\ task' = [task EXCEPT ![t] = "count"]
  BY DEF Round!delete_task, Round!Awake, Round!Goto
<1> DEFINE l == Len(head)
<1>2. /\ head \in Seq(Tasks) /\ l \in Nat /\ l >= 1 /\ head # <<>> /\ (\A i \in 1 .. l : head[i] \in Tasks)
      /\ \A i, j \in 1 .. l : head[i] = head[j] => i = j
  BY <1>1, NodeLeft DEF NodesInv, Listed
<1>3. head' \in Seq(Tasks) /\ Len(head') = l - 1 /\ \A i \in 1 .. l - 1 : head'[i] = head[i + 1]
  BY <1>1, <1>2
<1>4. /\ task'[t] = "count" /\ \A u \in Tasks : u # t => task'[u] = task[u]
      /\ task' \in [Tasks -> {"arrive", "insert", "count", "store", "exit"} \cup Listed]
  BY <1>1 DEF NodesInv, Listed
<1>5. InRound' = InRound \ {t} /\ t \in InRound
  BY <1>1, <1>4 DEF InRound, Listed
<1>6. Len(head') = Cardinality(InRound')
  BY <1>3, <1>5, RoundCounts DEF NodesInv
<1>7. \A i \in 1 .. l : task[head[i]] \notin {"arrive", "insert"}
  BY DEF NodesInv
<1> HIDE DEF l
<1>8. \A i \in 1 .. l - 1 : i + 1 \in 1 .. l
  BY <1>2
<1>9. ASSUME NEW i \in 1 .. l - 1, NEW j \in 1 .. l - 1, head'[i] = head'[j]  PROVE i = j
  <2>1. i + 1 = j + 1
    BY <1>2, <1>3, <1>8, <1>9
  <2> QED  BY <2>1
<1>10. \A i \in 1 .. l - 1 : task'[head'[i]] \notin {"arrive", "insert"}
  BY <1>2, <1>3, <1>4, <1>7, <1>8
<1> QED  BY <1>3, <1>4, <1>6, <1>9, <1>10 DEF NodesInv

LEMMA NodesStep ==
  ASSUME NodesInv, schedule_policy \in Round!Policies, Round!Next
  PROVE  NodesInv'
<1>1. ASSUME NEW t \in Tasks, Round!task_runner(t)  PROVE NodesInv'
  <2>1. CASE Round!add_task_insert(t)
    BY <2>1, NodesInsert
  <2>2. CASE Round!delete_task(t)
    BY <2>2, NodesDelete
  <2>3. CASE Round!add_task_begin(t)
    <3>1. head' = head /\ task[t] = "arrive" /\ task' = [task EXCEPT ![t] = "insert"]
      BY <2>3 DEF Round!add_task_begin, Round!Awake, Round!Goto
    <3> QED  BY <3>1, NodesStay DEF Listed
  <2>4. CASE Round!SemWait(t)
    <3>1. head' = head /\ task[t] = "sem" /\ task' = [task EXCEPT ![t] = "run"]
      BY <2>4 DEF Round!SemWait, Round!Awake, Round!Goto
    <3> QED  BY <3>1, NodesStay DEF Listed
  <2>6. CASE Round!delete_task_lock(t)
    <3>1. head' = head /\ task[t] = "run" /\ task' = [task EXCEPT ![t] = "deleting"]
      BY <2>6 DEF Round!delete_task_lock, Round!RunEnds, Round!Awake, Round!Goto
    <3> QED  BY <3>1, NodesStay DEF Listed
  <2>7. CASE Round!CountRead(t)
    <3>1. head' = head /\ task[t] = "count" /\ task' = [task EXCEPT ![t] = "store"]
      BY <2>7 DEF Round!CountRead, Round!Awake, Round!Goto, Round!queue
    <3> QED  BY <3>1, NodesStay DEF Listed
  <2>8. CASE Round!CountStore(t)
    <3>1. head' = head /\ task[t] = "store" /\ task' = [task EXCEPT ![t] = "exit"]
      BY <2>8 DEF Round!CountStore, Round!Awake, Round!Goto, Round!queue
    <3> QED  BY <3>1, NodesStay DEF Listed
  <2>9. CASE Round!thread_wait_sighand(t) \/ Round!Suspends(t)
    <3>1. head' = head /\ task' = task
      BY <2>9 DEF Round!thread_wait_sighand, Round!Suspends, Round!queue
    <3> QED  BY <3>1 DEF NodesInv, InRound
  <2>10. CASE Round!thread_cont_sighand(t)
    <3>1. head' = head /\ (task' = task \/ task' = [task EXCEPT ![t] = IF @ = "sem" THEN "run" ELSE @])
      BY <2>10 DEF Round!thread_cont_sighand, Round!Interrupted, Round!queue
    <3>2. CASE task' = task
      BY <3>1, <3>2 DEF NodesInv, InRound
    <3>3. CASE task[t] = "sem" /\ task' = [task EXCEPT ![t] = "run"]
      BY <3>1, <3>3, NodesStay DEF Listed
    <3>4. task' = task \/ (task[t] = "sem" /\ task' = [task EXCEPT ![t] = "run"])
      BY <3>1 DEF NodesInv
    <3> QED  BY <3>2, <3>3, <3>4
  <2> QED  BY <1>1, <2>1, <2>2, <2>3, <2>4, <2>6, <2>7, <2>8, <2>9, <2>10 DEF Round!task_runner
<1>2. CASE Round!sched_run_sighand \/ Round!sched_run_acts \/ Round!schedule_runner
  <2>1. head' = head /\ task' = task
    BY <1>2 DEF Round!sched_run_sighand, Round!sched_run_acts, Round!schedule_runner, Round!queue
  <2> QED  BY <2>1 DEF NodesInv, InRound
<1>3. Round!Tasks = Tasks
  BY DEF Round!Tasks, Tasks
<1> QED  BY <1>1, <1>2, <1>3 DEF Round!Next

LEMMA OrderStep ==
  ASSUME ScheduleInv, Round!Next
  PROVE  Ordered(schedule_policy', head') /\ schedule_policy' = schedule_policy
<1>0. /\ schedule_policy \in Round!Policies /\ Ordered(schedule_policy, head) /\ NodesInv
      /\ head \in Seq(Tasks)
  BY OrderedList DEF ScheduleInv, NodesInv
<1>1. schedule_policy' = schedule_policy
  BY DEF Round!Next, Round!task_runner, Round!queue, Round!add_task_begin, Round!add_task_insert,
       Round!SemWait, Round!delete_task_lock, Round!RunEnds, Round!delete_task, Round!CountRead,
       Round!CountStore, Round!thread_wait_sighand, Round!Suspends, Round!thread_cont_sighand,
       Round!sched_run_sighand, Round!sched_run_acts, Round!schedule_runner
<1>2. CASE head' = head
  BY <1>0, <1>1, <1>2
<1>3. ASSUME NEW t \in Tasks, Round!add_task_insert(t)  PROVE Ordered(schedule_policy, head')
  <2>1. head' = Round!Inserted(head, t)
    BY <1>3 DEF Round!add_task_insert
  <2> QED  BY <1>0, <2>1, InsertedPlaces
<1>4. ASSUME NEW t \in Tasks, Round!delete_task(t)  PROVE Ordered(schedule_policy, head')
  <2>1. head' = Tail(head) /\ task[t] = "deleting"
    BY <1>4 DEF Round!delete_task, Round!Awake
  <2>3. head # <<>>
    BY <1>0, <2>1, NodeLeft DEF Listed
  <2>4. Tail(head) \in Seq(Tasks)
    BY <1>0, <2>3
  <2>5. OrderedFrom(head, Key(schedule_policy), From(schedule_policy)) /\ From(schedule_policy) \in {1, 2}
    BY <1>0, KeyOrders
  <2>6. OrderedFrom(Tail(head), Key(schedule_policy), From(schedule_policy))
    BY <1>0, <2>3, <2>5, TailOrdered
  <2> QED  BY <1>0, <2>1, <2>4, <2>6, KeyOrders
<1>5. \/ head' = head
      \/ \E t \in Tasks : Round!add_task_insert(t) \/ Round!delete_task(t)
  BY DEF Round!Next, Round!task_runner, Round!queue, Round!add_task_begin, Round!Tasks, Tasks,
       Round!SemWait, Round!delete_task_lock, Round!RunEnds, Round!CountRead,
       Round!CountStore, Round!thread_wait_sighand, Round!Suspends, Round!thread_cont_sighand,
       Round!sched_run_sighand, Round!sched_run_acts, Round!schedule_runner
<1> QED  BY <1>1, <1>2, <1>3, <1>4, <1>5

LEMMA HistoryTypes ==
  ASSUME ScheduleInv, Round!Next
  PROVE  raced' \in BOOLEAN /\ corrupt' \in BOOLEAN /\ usr2' \in BOOLEAN
<1>0. raced \in BOOLEAN /\ corrupt \in BOOLEAN /\ usr2 \in BOOLEAN
  BY DEF ScheduleInv
<1>1. usr2' = usr2 \/ usr2' = TRUE \/ usr2' = FALSE
  BY DEF Round!Next, Round!task_runner, Round!queue, Round!add_task_begin, Round!add_task_insert,
       Round!SemWait, Round!delete_task_lock, Round!RunEnds, Round!delete_task, Round!CountRead,
       Round!CountStore, Round!thread_wait_sighand, Round!Suspends, Round!thread_cont_sighand,
       Round!sched_run_sighand, Round!sched_run_acts, Round!schedule_runner
<1>2. corrupt' = corrupt \/ corrupt' \in BOOLEAN
  BY DEF Round!Next, Round!task_runner, Round!queue, Round!add_task_begin, Round!add_task_insert,
       Round!SemWait, Round!delete_task_lock, Round!RunEnds, Round!delete_task, Round!CountRead,
       Round!CountStore, Round!thread_wait_sighand, Round!Suspends, Round!thread_cont_sighand,
       Round!sched_run_sighand, Round!sched_run_acts, Round!schedule_runner
<1>3. raced' = raced \/ raced' \in BOOLEAN
  BY DEF Round!Next, Round!task_runner, Round!queue, Round!add_task_begin, Round!add_task_insert,
       Round!SemWait, Round!delete_task_lock, Round!RunEnds, Round!delete_task, Round!CountRead,
       Round!CountStore, Round!thread_wait_sighand, Round!Suspends, Round!thread_cont_sighand,
       Round!sched_run_sighand, Round!sched_run_acts, Round!schedule_runner
<1> QED  BY <1>0, <1>1, <1>2, <1>3

\* Signals that have crossed stay crossed.
LEMMA SoundBefore ==
  ASSUME Round!Next, Round!Sound'
  PROVE  Round!Sound
<1>1. corrupt => corrupt'
  BY DEF Round!Next, Round!task_runner, Round!queue, Round!add_task_begin, Round!add_task_insert,
       Round!SemWait, Round!delete_task_lock, Round!RunEnds, Round!delete_task, Round!CountRead,
       Round!CountStore, Round!thread_wait_sighand, Round!Suspends, Round!thread_cont_sighand,
       Round!sched_run_sighand, Round!sched_run_acts, Round!schedule_runner
<1>2. raced => raced'
  BY DEF Round!Next, Round!task_runner, Round!queue, Round!add_task_begin, Round!add_task_insert,
       Round!SemWait, Round!delete_task_lock, Round!RunEnds, Round!delete_task, Round!CountRead,
       Round!CountStore, Round!thread_wait_sighand, Round!Suspends, Round!thread_cont_sighand,
       Round!sched_run_sighand, Round!sched_run_acts, Round!schedule_runner
<1> QED  BY <1>1, <1>2 DEF Round!Sound

LEMMA RoundStep ==
  ASSUME ScheduleInv, Round!Next, Round!Sound'
  PROVE  RoundInv'
<1>0. RoundInv /\ schedule_policy \in Round!Policies /\ raced \in BOOLEAN
  BY SoundBefore DEF ScheduleInv
<1>1. ASSUME NEW t \in Tasks, Round!task_runner(t)  PROVE RoundInv'
  BY <1>0, <1>1, AddBeginStep, AddInsertStep, RunSteps, DeleteLockStep, DeleteStep, SuspendSteps,
     ContinueStep DEF Round!task_runner
<1>2. CASE Round!sched_run_sighand
  BY <1>0, <1>2, LookStep
<1>3. CASE Round!sched_run_acts
  BY <1>0, <1>3, ActStep
<1>4. CASE Round!schedule_runner
  BY <1>0, <1>4, RunnerStep
<1>5. Round!Tasks = Tasks
  BY DEF Round!Tasks, Tasks
<1> QED  BY <1>1, <1>2, <1>3, <1>4, <1>5 DEF Round!Next

LEMMA ScheduleInit == Init => ScheduleInv
<1> SUFFICES ASSUME Init  PROVE ScheduleInv
  OBVIOUS
<1>1. /\ schedule_policy \in Round!Policies
      /\ head = <<>> /\ mutex = 0 /\ usr2 = FALSE /\ sched = "idle"
      /\ schedule_status = [t \in Tasks |-> "NONE"] /\ wait_sem = [t \in Tasks |-> 0]
      /\ task = [t \in Tasks |-> "arrive"] /\ susp = [t \in Tasks |-> "no"]
      /\ pend = [t \in Tasks |-> {}]
      /\ raced = FALSE /\ corrupt = FALSE
  BY DEF Init, Round!Init, Round!Tasks, Tasks
<1>2. TaskTypes
  BY <1>1 DEF TaskTypes
<1>3. Len(head) = 0 /\ Members(head) = {} /\ head \in Seq(Tasks)
  BY <1>1 DEF Members
<1>4. ListInv
  BY <1>1, <1>3 DEF ListInv, Listed
<1>5. Inserting = {} /\ ~Acting
  BY <1>1 DEF Inserting, Acting
<1>6. TurnsInv
  BY <1>1, <1>3, <1>5 DEF TurnsInv, Acting
<1>7. Ordered(schedule_policy, head)
  <2>1. From(schedule_policy) \in {1, 2}
    BY DEF From
  <2> QED  BY <1>3, <2>1 DEF Ordered
<1>8. NodesInv
  <2>1. InRound = {}
    BY <1>1 DEF InRound, Listed
  <2>2. Cardinality(InRound) = 0
    BY <2>1, FS_EmptySet
  <2> QED  BY <1>2, <1>3, <2>2 DEF NodesInv, TaskTypes
<1> QED  BY <1>1, <1>2, <1>4, <1>6, <1>7, <1>8, OrderedList DEF ScheduleInv, RoundInv

LEMMA ScheduleAlways == Spec => []ScheduleInv
<1>1. ScheduleInv /\ [Next]_vars => ScheduleInv'
  <2> SUFFICES ASSUME ScheduleInv, [Next]_vars  PROVE ScheduleInv'
    OBVIOUS
  <2>1. CASE RunRound
    <3>1. Round!Next
      BY <2>1 DEF RunRound
    <3>2. Round!ListOrdered' /\ schedule_policy' \in Round!Policies
      BY <3>1, OrderStep, OrderedListNext DEF ScheduleInv
    <3>3. NodesInv'
      BY <3>1, NodesStep DEF ScheduleInv
    <3> QED  BY <3>1, <3>2, <3>3, HistoryTypes, RoundStep DEF ScheduleInv
  <2>2. CASE UNCHANGED scheduler
    <3>1. Ordered(schedule_policy', head')
      BY <2>2, OrderedList DEF ScheduleInv, scheduler
    <3>2. RoundInv => RoundInv'
      <4>1. /\ Doomed' = Doomed /\ Fresh' = Fresh /\ Preempted' = Preempted /\ Called' = Called
            /\ Inserting' = Inserting /\ Going' = Going /\ UNCHANGED <<head, usr2, schedule_status, sched>>
        BY <2>2 DEF scheduler, Doomed, Fresh, Preempted, Called, Inserting, Going
      <4>2. Woken' = Woken
        BY <4>1 DEF Woken
      <4>3. TurnsInv /\ ListInv => TurnsInv'
        BY <4>1, <4>2, TurnsKept
      <4>4. (TaskTypes => TaskTypes') /\ (ListInv => ListInv')
        BY <2>2 DEF scheduler, TaskTypes, ListInv, Members
      <4> QED  BY <4>1, <4>3, <4>4 DEF RoundInv
    <3>3. NodesInv'
      BY <2>2 DEF ScheduleInv, scheduler, NodesInv, InRound
    <3> QED  BY <2>2, <3>1, <3>2, <3>3, OrderedListNext DEF ScheduleInv, scheduler, Round!Sound
  <2>3. RunRound \/ UNCHANGED scheduler
    BY DEF Next, vars, RunShm, RunMail, RunPosix, RunSysV, RunHand, RunRound, RunClient, RunUcore
  <2> QED  BY <2>1, <2>2, <2>3
<1> QED  BY <1>1, ScheduleInit, PTL DEF Spec

\* Whatever the burst times, the priorities and the number of tasks, and whatever
\* signals cross and nodes are freed by the wrong task, the list is in the order of
\* the policy and has as many nodes as there are tasks between add_task and
\* delete_task, so that delete_task never follows a null head.  And as long as no
\* signals have crossed, whenever all are delivered and no task holds the mutex, the
\* task at the head of the list is the one that runs or is free to, and every other
\* task in it is stopped or has not started, although the scheduler thread reads
\* the list without the mutex.
THEOREM ListKeptInOrder == Spec => []ScheduleKept
<1>1. ScheduleInv => ScheduleKept
  <2> SUFFICES ASSUME ScheduleInv  PROVE ScheduleKept
    OBVIOUS
  <2>1. Round!HeadRuns
    <3> SUFFICES ASSUME Round!Sound, Round!Settled, head # <<>>, NEW i \in DOMAIN head
                 PROVE  IF i = 1 THEN Round!Active(head[1]) \/ (task[head[1]] = "sem" /\ wait_sem[head[1]] > 0)
                        ELSE ~Round!Active(head[i])
      BY DEF Round!HeadRuns
    <3>0. RoundInv /\ ListInv
      BY DEF ScheduleInv, RoundInv
    <3>1. ~usr2 /\ ~Acting /\ mutex = 0 /\ \A u \in Tasks : pend[u] = {}
      BY DEF Round!Settled, Round!Quiet, Acting, Round!Tasks, Tasks
    <3>2. \A u \in Tasks : task[u] \notin {"insert", "deleting"}
      BY <3>0, <3>1, ListedHead DEF ListInv
    <3>3. ~Switching /\ Doomed = {} /\ Woken = {}
      BY <3>1, <3>2 DEF Switching, Inserting, Doomed, Woken, Called
    <3>4. TurnsInv
      BY <3>0, <3>3 DEF RoundInv
    <3>5. Len(head) \in Nat /\ DOMAIN head = 1 .. Len(head)
      BY <3>0, ListedHead DEF ListInv
    <3>6. CASE i = 1
      <4>1. head[1] \in Going
        BY <3>3, <3>4 DEF TurnsInv
      <4>2. head[1] \in Tasks
        BY <3>0, ListedHead
      <4> QED  BY <3>2, <3>6, <4>1, <4>2 DEF Going, Round!Active
    <3>7. CASE i # 1
      <4>1. i \in 2 .. Len(head)
        BY <3>5, <3>7
      <4>2. head[i] \in Fresh \/ head[i] \in Preempted
        BY <3>4, <4>1 DEF TurnsInv, Stopped
      <4> QED  BY <3>1, <3>7, <4>2 DEF Fresh, Preempted, Round!Active
    <3> QED  BY <3>6, <3>7
  <2>2. Round!ListCounts
    <3>1. Round!InRound = InRound
      BY DEF Round!InRound, InRound, Round!Tasks, Tasks, Listed
    <3>2. NodesInv /\ DOMAIN head = 1 .. Len(head)
      BY DEF ScheduleInv, NodesInv
    <3> QED  BY <3>1, <3>2, RoundCardinality DEF Round!ListCounts, NodesInv
  <2> QED  BY <2>1, <2>2 DEF ScheduleKept, Round!ScheduleKept, ScheduleInv
<1> QED  BY <1>1, ScheduleAlways, PTL

-----------------------------------------------------------------------------
(***************************************************************************)
(* The kernel.                                                             *)
(***************************************************************************)
\* The kernel.  The screen s is the window of the roll r that begins at row top,
\* and below it nothing is printed yet.
Window(s, r) ==
  /\ s = [buf |-> s.buf, pos |-> s.pos] /\ s.pos \in Nat /\ r.top \in Nat
  /\ s.pos < Ucore!CRT_SIZE /\ r.at = r.top * CRT_COLS + s.pos
  /\ DOMAIN s.buf = Ucore!Cells
  /\ \A i \in Ucore!Cells : s.buf[i] = Ucore!InkAt(r, r.top * CRT_COLS + i)
  /\ \A i \in Nat : (r.top + CRT_ROWS) * CRT_COLS <= i => Ucore!InkAt(r, i) = " "

\* What the kernel's thread has enabled when it comes to a step.
Enabled(k) ==
  IF k = 1 THEN {"SLAVE"}
  ELSE {"SLAVE", "KBD"} \cup (IF serial_exists THEN {"COM1"} ELSE {}) \cup (IF k > 6 THEN {"TIMER"} ELSE {})

BootInv ==
  /\ step \in 1 .. 13
  /\ irq_mask = Enabled(step)
  /\ did_init <=> step > 3
  /\ pic = IF step > 3 THEN irq_mask ELSE {}
  /\ step > 4 => idt

\* cons_putc: the flag it restores, and interrupts off in lab2 while it works.
FlagInv ==
  /\ \/ stage = Ucore!Idle
     \/ stage = [at |-> "store", intr_flag |-> stage.intr_flag, pos |-> stage.pos]
     \/ stage = [at |-> "scroll", intr_flag |-> stage.intr_flag, pos |-> stage.pos]
  /\ stage = Ucore!Idle => (iflag <=> step > 7)
  /\ stage # Ucore!Idle => /\ stage.intr_flag <=> step > 7
                           /\ iflag => step > 7 /\ lab # 2

\* Between the store and the scroll the screen is a window once it is scrolled.
ScreenInv ==
  lab = 2 \/ ~torn =>
    /\ stage.at \in {"idle", "store"} => Window(Ucore!Screen, roll)
    /\ stage.at = "store" => stage.pos = crt_pos
    /\ stage.at = "scroll" => Window(Ucore!Scrolled(Ucore!Screen), roll)

KernelInv == prog = "ucore" => BootInv /\ FlagInv /\ ScreenInv

\* The screen shows what is on the roll from row t on, and the rest is blank.
Shows(s, r, t) ==
  /\ \A i \in Ucore!Cells : s.buf[i] = Ucore!InkAt(r, t * CRT_COLS + i)
  /\ \A i \in Nat : (t + CRT_ROWS) * CRT_COLS <= i => Ucore!InkAt(r, i) = " "

\* z is the screen s with c at p.
Drawn(z, s, p, c) == \A i \in Ucore!Cells : z.buf[i] = IF i = p THEN c ELSE s.buf[i]

\* The screen between the store and the scroll, on the roll as it is already.
Half(s, r, t) ==
  /\ s = [buf |-> s.buf, pos |-> s.pos] /\ s.pos \in Nat
  /\ s.pos <= Ucore!CRT_SIZE /\ r.at = t * CRT_COLS + s.pos
  /\ DOMAIN s.buf = Ucore!Cells
  /\ \A i \in Ucore!Cells : s.buf[i] = Ucore!InkAt(r, t * CRT_COLS + i)
  /\ \A i \in Nat : (t + CRT_ROWS) * CRT_COLS <= i => Ucore!InkAt(r, i) = " "
  /\ r.top = IF s.pos = Ucore!CRT_SIZE THEN t + 1 ELSE t

\* Moving by t rows moves the row number by t.
LEMMA DivShift ==
  ASSUME NEW B \in Nat \ {0}, NEW t \in Nat, NEW p \in Nat
  PROVE  (t * B + p) \div B = t + (p \div B)
<1> DEFINE d == p \div B
           a == t * B + p
           e == a \div B
<1>1. d \in Int /\ a \in Nat /\ t * B \in Nat
  OBVIOUS
<1>2. e \in Int
  BY <1>1
<1>3. d * B <= p
  BY <1>1, DivFloor
<1>4. e * B <= a
  BY <1>1, <1>2, DivFloor
<1> HIDE DEF d, e
<1>5. (t + d) * B = t * B + d * B /\ (e - t) * B = e * B - t * B
  BY <1>1, <1>2
<1>6. t + d <= e
  <2>1. (t + d) * B <= a /\ t + d \in Int
    <3>1. d * B \in Int
      BY <1>1
    <3> QED  BY <1>1, <1>3, <1>5, <3>1
  <2> HIDE DEF a
  <2> QED  BY <1>1, <2>1, DivFloor DEF e
<1>7. e - t <= d
  <2>1. (e - t) * B <= p /\ e - t \in Int
    <3>1. e * B \in Int
      BY <1>2
    <3> QED  BY <1>1, <1>2, <1>4, <1>5, <3>1
  <2> QED  BY <2>1, DivFloor DEF d
<1>8. e = t + d
  BY <1>1, <1>2, <1>6, <1>7
<1> QED  BY <1>8 DEF e, d

\* The parts of a position, and the row of one on the screen.
LEMMA RowOf ==
  ASSUME NEW B \in Nat \ {0}, NEW R \in Nat \ {0}, NEW p \in Nat
  PROVE  /\ p \div B \in Nat /\ p % B \in 0 .. B - 1
         /\ p = (p \div B) * B + (p % B)
         /\ p < R * B => ((p \div B) + 1) * B <= R * B
<1>1. p \div B \in Nat /\ p % B \in 0 .. B - 1
  OBVIOUS
<1>2. p = (p \div B) * B + (p % B)
  OBVIOUS
<1>3. ASSUME p < R * B  PROVE ((p \div B) + 1) * B <= R * B
  <2> DEFINE q == p \div B
  <2>1. ~(R <= q)
    <3>1. R <= q <=> R * B <= p
      BY DivFloor
    <3> QED  BY <1>3, <3>1
  <2>2. q \in Nat
    BY <1>1
  <2> HIDE DEF q
  <2>3. R - (q + 1) \in Nat
    BY <2>1, <2>2
  <2>4. (R - (q + 1)) * B \in Nat /\ (R - (q + 1)) * B = R * B - (q + 1) * B
    BY <2>2, <2>3
  <2>5. (q + 1) * B \in Int /\ R * B \in Int
    BY <2>2
  <2>6. (q + 1) * B <= R * B
    BY <2>4, <2>5
  <2> QED  BY <2>6 DEF q
<1> QED  BY <1>1, <1>2, <1>3

\* The roll moves up by one row exactly when the cursor leaves the screen.
LEMMA TopOf ==
  ASSUME NEW B \in Nat \ {0}, NEW R \in Nat \ {0}, NEW t \in Nat, NEW p \in Nat, p <= R * B
  PROVE  LET row == (t * B + p) \div B - R + 1
         IN  (IF row > t THEN row ELSE t) = IF p = R * B THEN t + 1 ELSE t
<1> DEFINE d == p \div B
<1>1. (t * B + p) \div B = t + d
  BY DivShift
<1>2. d \in Nat
  BY RowOf
<1>3. R <= d <=> R * B <= p
  BY DivFloor
<1>4. R + 1 <= d <=> (R + 1) * B <= p
  <2>1. R + 1 \in Int
    OBVIOUS
  <2> QED  BY <2>1, DivFloor
<1>5. (R + 1) * B = R * B + B /\ R * B \in Nat
  OBVIOUS
<1>6. ~(R + 1 <= d)
  BY <1>4, <1>5
<1> HIDE DEF d
<1>7. CASE p = R * B
  <2>1. d = R
    BY <1>2, <1>3, <1>5, <1>6, <1>7
  <2>2. t + d - R + 1 = t + 1
    BY <2>1
  <2> QED  BY <1>1, <1>7, <2>2
<1>8. CASE p # R * B
  <2>1. d < R
    BY <1>2, <1>3, <1>5, <1>8
  <2>2. ~(t + d - R + 1 > t) \/ d = R
    BY <1>2, <2>1
  <2> QED  BY <1>1, <1>8, <1>2, <2>1, <2>2
<1> QED  BY <1>7, <1>8

\* Printing on the roll changes one place.
LEMMA InkedAt ==
  ASSUME NEW r, NEW x, NEW i, NEW c, x.ink = Ucore!Inked(r, i, c)
  PROVE  \A j : Ucore!InkAt(x, j) = IF j = i THEN c ELSE Ucore!InkAt(r, j)
BY DEF Ucore!Inked, Ucore!InkAt

\* The cells of the screen and the size of it.
LEMMA ScreenSize ==
  /\ CRT_COLS \in Nat \ {0} /\ CRT_ROWS \in Nat \ {0}
  /\ Ucore!CRT_SIZE = CRT_ROWS * CRT_COLS
  /\ Ucore!CRT_SIZE \in Nat
  /\ CRT_COLS <= Ucore!CRT_SIZE
  /\ Ucore!Cells = 0 .. Ucore!CRT_SIZE - 1
<1>1. CRT_COLS \in Nat \ {0} /\ CRT_ROWS \in Nat \ {0}
  BY Display
<1>2. Ucore!CRT_SIZE = CRT_ROWS * CRT_COLS /\ Ucore!CRT_SIZE \in Nat
  BY <1>1 DEF Ucore!CRT_SIZE
<1>3. CRT_ROWS * CRT_COLS = (CRT_ROWS - 1) * CRT_COLS + CRT_COLS /\ (CRT_ROWS - 1) * CRT_COLS \in Nat
  BY <1>1
<1> QED  BY <1>1, <1>2, <1>3 DEF Ucore!Cells

\* The places of the roll that the screen shows are those before the rows below it.
LEMMA Shown ==
  ASSUME NEW t \in Nat, NEW i \in Nat
  PROVE  /\ t * CRT_COLS \in Nat /\ (t + CRT_ROWS) * CRT_COLS = t * CRT_COLS + Ucore!CRT_SIZE
         /\ (t + 1) * CRT_COLS = t * CRT_COLS + CRT_COLS
         /\ ((t + 1) + CRT_ROWS) * CRT_COLS = t * CRT_COLS + CRT_COLS + Ucore!CRT_SIZE
BY ScreenSize

\* The scroll.
LEMMA ScrollShows ==
  ASSUME NEW s, NEW r, NEW t \in Nat, Half(s, r, t)
  PROVE  Window(Ucore!Scrolled(s), r)
<1> DEFINE z == Ucore!Scrolled(s)
           C == CRT_COLS
           T == Ucore!CRT_SIZE
           tc == t * CRT_COLS
<1>1. C \in Nat \ {0} /\ T \in Nat /\ C <= T /\ Ucore!Cells = 0 .. T - 1
  BY ScreenSize
<1>2. /\ tc \in Nat /\ (t + CRT_ROWS) * C = tc + T /\ (t + 1) * C = tc + C
      /\ ((t + 1) + CRT_ROWS) * C = tc + C + T
  BY Shown
<1>3. /\ s = [buf |-> s.buf, pos |-> s.pos] /\ s.pos \in Nat /\ s.pos <= T
      /\ r.at = tc + s.pos /\ DOMAIN s.buf = Ucore!Cells
      /\ r.top = IF s.pos = T THEN t + 1 ELSE t
  BY DEF Half
<1>4. \A i \in Ucore!Cells : s.buf[i] = Ucore!InkAt(r, tc + i)
  BY DEF Half
<1>5. \A i \in Nat : tc + T <= i => Ucore!InkAt(r, i) = " "
  BY <1>2 DEF Half
<1> HIDE DEF C, T, tc
<1>6. CASE s.pos < T
  <2>1. z = s /\ r.top = t
    BY <1>1, <1>3, <1>6 DEF Ucore!Scrolled, T
  <2> QED  BY <1>3, <1>6, <2>1 DEF Half, Window, C, T, tc
<1>7. CASE ~(s.pos < T)
  <2>1. s.pos = T /\ r.top = t + 1
    BY <1>1, <1>3, <1>7
  <2>2. z = [buf |-> [i \in Ucore!Cells |-> IF i < T - C THEN s.buf[i + C] ELSE " "], pos |-> s.pos - C]
    BY <1>7 DEF Ucore!Scrolled, T, C
  <2> HIDE DEF z
  <2>3. z = [buf |-> z.buf, pos |-> z.pos] /\ z.pos = T - C /\ DOMAIN z.buf = Ucore!Cells
    BY <2>1, <2>2
  <2>4. z.pos \in Nat /\ z.pos < T /\ r.top \in Nat /\ r.top * C = tc + C
    BY <1>1, <1>2, <2>1, <2>3
  <2>5. r.at = r.top * C + z.pos
    <3>1. tc + T = (tc + C) + (T - C)
      BY <1>1, <1>2
    <3> QED  BY <1>3, <2>1, <2>3, <2>4, <3>1
  <2>6. ASSUME NEW i \in Ucore!Cells  PROVE z.buf[i] = Ucore!InkAt(r, r.top * C + i)
    <3>1. CASE i < T - C
      <4>1. i + C \in Ucore!Cells /\ tc + (i + C) = (tc + C) + i
        BY <1>1, <1>2, <3>1
      <4>2. z.buf[i] = s.buf[i + C]
        BY <2>2, <3>1
      <4> QED  BY <1>4, <2>4, <4>1, <4>2
    <3>2. CASE ~(i < T - C)
      <4>1. (tc + C) + i \in Nat /\ tc + T <= (tc + C) + i
        BY <1>1, <1>2, <3>2
      <4>2. z.buf[i] = " "
        BY <2>2, <3>2
      <4> QED  BY <1>5, <2>4, <4>1, <4>2
    <3> QED  BY <3>1, <3>2
  <2>7. ASSUME NEW i \in Nat, (r.top + CRT_ROWS) * C <= i  PROVE Ucore!InkAt(r, i) = " "
    <3>1. tc + T <= i
      BY <1>1, <1>2, <2>1, <2>7
    <3> QED  BY <1>5, <3>1
  <2>8. Window(z, r)
    BY <2>3, <2>4, <2>5, <2>6, <2>7 DEF Window, C, T
  <2> QED  BY <2>8 DEF z
<1> QED  BY <1>3, <1>6, <1>7

\* The store of a mark, at a place p of the screen.
LEMMA MarkShows ==
  ASSUME NEW s, NEW x, NEW r, NEW z, NEW p \in Ucore!Cells, NEW c,
         Window(s, r), Drawn(z, s, p, c), x.ink = Ucore!Inked(r, r.top * CRT_COLS + p, c)
  PROVE  Shows(z, x, r.top)
<1> DEFINE t == r.top
<1>0. t \in Nat
  BY DEF Window
<1> DEFINE tc == t * CRT_COLS
           T == Ucore!CRT_SIZE
<1>1. T \in Nat /\ Ucore!Cells = 0 .. T - 1
  BY ScreenSize
<1>2. tc \in Nat /\ (t + CRT_ROWS) * CRT_COLS = tc + T
  BY <1>0, Shown
<1>3. \A j : Ucore!InkAt(x, j) = IF j = tc + p THEN c ELSE Ucore!InkAt(r, j)
  BY InkedAt
<1>4. /\ \A i \in Ucore!Cells : s.buf[i] = Ucore!InkAt(r, tc + i)
      /\ \A i \in Nat : tc + T <= i => Ucore!InkAt(r, i) = " "
  BY <1>2 DEF Window
<1> HIDE DEF tc, T
<1>5. \A i \in Ucore!Cells : z.buf[i] = Ucore!InkAt(x, tc + i)
  <2> TAKE i \in Ucore!Cells
  <2>1. tc + i = tc + p <=> i = p
    BY <1>1, <1>2
  <2> QED  BY <1>3, <1>4, <2>1 DEF Drawn
<1>6. \A i \in Nat : tc + T <= i => Ucore!InkAt(x, i) = " "
  <2> SUFFICES ASSUME NEW i \in Nat, tc + T <= i  PROVE Ucore!InkAt(x, i) = " "
    OBVIOUS
  <2>1. i # tc + p
    BY <1>1, <1>2
  <2> QED  BY <1>3, <1>4, <2>1
<1> QED  BY <1>2, <1>5, <1>6 DEF tc, Shows

\* What is printed keeps the screen a window: the cursor moves as on the roll.
LEMMA RolledTo ==
  ASSUME NEW s, NEW r, NEW c, NEW p \in Nat, Window(s, r), p <= Ucore!CRT_SIZE,
         Ucore!Rolled(r, c).at = r.top * CRT_COLS + p
  PROVE  Ucore!Rolled(r, c).top = IF p = Ucore!CRT_SIZE THEN r.top + 1 ELSE r.top
<1> DEFINE a == Ucore!Rolled(r, c).at
           row == a \div CRT_COLS - CRT_ROWS + 1
<1>1. Ucore!Rolled(r, c).top = IF row > r.top THEN row ELSE r.top
  BY DEF Ucore!Rolled
<1>2. r.top \in Nat
  BY DEF Window
<1>3. p <= CRT_ROWS * CRT_COLS /\ CRT_COLS \in Nat \ {0} /\ CRT_ROWS \in Nat \ {0}
  BY ScreenSize
<1>4. LET w == (r.top * CRT_COLS + p) \div CRT_COLS - CRT_ROWS + 1
      IN  (IF w > r.top THEN w ELSE r.top) = IF p = CRT_ROWS * CRT_COLS THEN r.top + 1 ELSE r.top
  BY <1>2, <1>3, TopOf
<1>5. row = (r.top * CRT_COLS + p) \div CRT_COLS - CRT_ROWS + 1
  OBVIOUS
<1> HIDE DEF row
<1> QED  BY <1>1, <1>4, <1>5, ScreenSize

\* The store.
LEMMA StoreShows ==
  ASSUME NEW s, NEW r, NEW c, Window(s, r)
  PROVE  Half(Ucore!Stored(s, s.pos, c), Ucore!Rolled(r, c), r.top)
<1> DEFINE z == Ucore!Stored(s, s.pos, c)
           x == Ucore!Rolled(r, c)
           C == CRT_COLS
           T == Ucore!CRT_SIZE
           t == r.top
           p == s.pos
           tc == t * CRT_COLS
           Kept == Shows(z, x, r.top)
           Cursor == z.pos \in Nat /\ z.pos <= T /\ x.at = tc + z.pos
           Shape == z = [buf |-> z.buf, pos |-> z.pos] /\ DOMAIN z.buf = Ucore!Cells
<1>1. C \in Nat \ {0} /\ T \in Nat /\ C <= T /\ Ucore!Cells = 0 .. T - 1 /\ T = CRT_ROWS * C /\ CRT_ROWS \in Nat \ {0}
  BY ScreenSize
<1>2. /\ s = [buf |-> s.buf, pos |-> s.pos] /\ p \in Nat /\ t \in Nat /\ p < T
      /\ r.at = tc + p /\ DOMAIN s.buf = Ucore!Cells
  BY DEF Window
<1>3. tc \in Nat /\ p \in Ucore!Cells
  BY <1>1, <1>2, Shown
<1>4. SUFFICES Shape /\ Cursor /\ Kept
  <2>1. ASSUME Cursor  PROVE x.top = IF z.pos = T THEN t + 1 ELSE t
    BY <2>1, RolledTo
  <2> QED  BY <2>1 DEF Half, Shows
<1>5. ASSUME z.buf = s.buf, x.ink = r.ink  PROVE Kept
  BY <1>5 DEF Window, Shows, Ucore!InkAt
<1>6. /\ (tc + p) \div C = t + (p \div C)
      /\ p \div C \in Nat /\ p % C \in 0 .. C - 1
      /\ p = (p \div C) * C + (p % C)
      /\ ((p \div C) + 1) * C <= T
  BY <1>1, <1>2, DivShift, RowOf
<1> HIDE DEF C, T, t, p, tc
<1>7. CASE c = "back"
  <2>1. CASE p = 0
    <3>0. r.at = tc
      BY <1>2, <1>3, <2>1
    <3>1. z = s
      BY <1>7, <2>1 DEF Ucore!Stored, p
    <3>2. x.at = r.at
      BY <1>7, <3>0 DEF Ucore!Rolled, tc, t, C
    <3>3. x.ink = r.ink
      BY <1>7, <3>2 DEF Ucore!Rolled
    <3> HIDE DEF z, x
    <3>4. Cursor
      BY <1>1, <1>2, <3>1, <3>2 DEF p
    <3>5. Shape
      BY <1>2, <3>1 DEF p
    <3> QED  BY <1>5, <3>1, <3>3, <3>4, <3>5
  <2>2. CASE p # 0
    <3>1. r.at # tc
      BY <1>2, <1>3, <2>2
    <3>2. z = [buf |-> [s.buf EXCEPT ![p - 1] = " "], pos |-> p - 1]
      BY <1>7, <2>2 DEF Ucore!Stored, p
    <3>3. x.at = r.at - 1 /\ x.at # r.at
      <4>1. r.at \in Nat
        BY <1>2, <1>3
      <4> QED  BY <1>7, <3>1, <4>1 DEF Ucore!Rolled, tc, t, C
    <3>5. x.ink = Ucore!Inked(r, x.at, " ")
      BY <1>7, <3>3 DEF Ucore!Rolled
    <3> HIDE DEF z, x
    <3>4. x.at = tc + (p - 1) /\ p - 1 \in Ucore!Cells
      BY <1>1, <1>2, <1>3, <2>2, <3>3
    <3>6. Shape
      BY <1>2, <3>2
    <3>7. Cursor
      <4>1. z.pos = p - 1
        BY <3>2
      <4> QED  BY <1>1, <1>2, <2>2, <3>4, <4>1
    <3>8. Drawn(z, s, p - 1, " ")
      BY <1>2, <3>2, <3>4 DEF Drawn
    <3>9. Kept
      <4>1. x.ink = Ucore!Inked(r, r.top * CRT_COLS + (p - 1), " ")
        BY <3>4, <3>5 DEF tc, t
      <4> QED  BY <3>4, <3>8, <4>1, MarkShows
    <3> QED  BY <3>6, <3>7, <3>9
  <2> QED  BY <2>1, <2>2
<1>8. CASE c = "newline"
  <2>1. z = [s EXCEPT !.pos = p + C - (p % C)]
    BY <1>8 DEF Ucore!Stored, p, C
  <2>2. x.at = (r.at \div C + 1) * C /\ x.ink = r.ink
    BY <1>8 DEF Ucore!Rolled, C
  <2> HIDE DEF z, x
  <2>3. z = [buf |-> s.buf, pos |-> p + C - (p % C)]
    BY <1>2, <2>1 DEF p
  <2>4. Shape /\ z.buf = s.buf /\ z.pos = p + C - (p % C)
    BY <1>2, <2>3
  <2>5. z.pos = ((p \div C) + 1) * C
    <3> DEFINE q == p \div C
               u == p % C
    <3>0. q \in Nat /\ u \in 0 .. C - 1 /\ p = q * C + u
      BY <1>6
    <3> HIDE DEF q, u
    <3>1. u \in Nat /\ q * C \in Nat
      BY <1>1, <3>0
    <3>2. p + C - u = (q + 1) * C
      BY <1>1, <3>0, <3>1
    <3> QED  BY <2>4, <3>2 DEF q, u
  <2>6. x.at = tc + z.pos
    <3> DEFINE q == p \div C
    <3>1. q \in Nat /\ x.at = (t + q + 1) * C
      BY <1>2, <1>6, <2>2
    <3>2. z.pos = (q + 1) * C
      BY <2>5
    <3> HIDE DEF q
    <3>3. (t + q + 1) * C = t * C + (q + 1) * C
      BY <1>1, <1>2, <3>1
    <3> QED  BY <3>1, <3>2, <3>3 DEF tc, C
  <2>7. z.pos \in Nat /\ z.pos <= T
    <3>1. p \div C + 1 \in Nat
      BY <1>6
    <3>2. (p \div C + 1) * C \in Nat
      BY <1>1, <3>1
    <3> QED  BY <1>6, <2>5, <3>2
  <2> QED  BY <1>5, <2>2, <2>4, <2>6, <2>7
<1>9. CASE c = "return"
  <2>1. z = [s EXCEPT !.pos = p - (p % C)]
    BY <1>9 DEF Ucore!Stored, p, C
  <2>2. x.at = (r.at \div C) * C /\ x.ink = r.ink
    BY <1>9 DEF Ucore!Rolled, C
  <2> HIDE DEF z, x
  <2>3. z = [buf |-> s.buf, pos |-> p - (p % C)]
    BY <1>2, <2>1 DEF p
  <2>4. Shape /\ z.buf = s.buf /\ z.pos = p - (p % C)
    BY <1>2, <2>3
  <2>5. z.pos = (p \div C) * C /\ z.pos \in Nat /\ z.pos <= p
    <3> DEFINE q == p \div C
               u == p % C
    <3>0. q \in Nat /\ u \in 0 .. C - 1 /\ p = q * C + u
      BY <1>6
    <3> HIDE DEF q, u
    <3>1. u \in Nat /\ q * C \in Nat
      BY <1>1, <3>0
    <3>2. p - u = q * C /\ p - u \in Nat /\ p - u <= p
      BY <1>1, <3>0, <3>1
    <3> QED  BY <2>4, <3>2 DEF q, u
  <2>6. x.at = tc + z.pos
    <3> DEFINE q == p \div C
    <3>1. q \in Nat /\ x.at = (t + q) * C
      BY <1>2, <1>6, <2>2
    <3>2. z.pos = q * C
      BY <2>5
    <3> HIDE DEF q
    <3>3. (t + q) * C = t * C + q * C
      BY <1>1, <1>2, <3>1
    <3> QED  BY <3>1, <3>2, <3>3 DEF tc, C
  <2>7. z.pos <= T
    BY <1>1, <1>2, <2>5
  <2> QED  BY <1>5, <2>2, <2>4, <2>5, <2>6, <2>7
<1>10. CASE c \notin {"back", "newline", "return"}
  <2>1. z = [buf |-> [i \in Ucore!Cells |-> IF i = p THEN c ELSE s.buf[i]], pos |-> p + 1]
    BY <1>10 DEF Ucore!Stored, p
  <2>2. x.at = r.at + 1 /\ x.ink = Ucore!Inked(r, r.at, c)
    BY <1>10 DEF Ucore!Rolled
  <2> HIDE DEF z, x
  <2>3. Shape /\ z.pos = p + 1
    BY <2>1
  <2>4. Cursor
    BY <1>1, <1>2, <1>3, <2>2, <2>3
  <2>5. Drawn(z, s, p, c)
    BY <2>1 DEF Drawn
  <2>6. Kept
    <3>1. x.ink = Ucore!Inked(r, r.top * CRT_COLS + p, c)
      BY <1>2, <2>2 DEF tc, t
    <3> QED  BY <1>3, <2>5, <3>1, MarkShows
  <2> QED  BY <2>3, <2>4, <2>6
<1> QED  BY <1>7, <1>8, <1>9, <1>10

\* A character of a handler.
LEMMA PutShows ==
  ASSUME NEW z, NEW c, Window(z.screen, z.roll)
  PROVE  Window(Ucore!Printed(z, c).screen, Ucore!Printed(z, c).roll)
<1>1. Half(Ucore!Stored(z.screen, z.screen.pos, c), Ucore!Rolled(z.roll, c), z.roll.top)
  BY StoreShows
<1>2. z.roll.top \in Nat
  BY DEF Window
<1>3. Window(Ucore!Scrolled(Ucore!Stored(z.screen, z.screen.pos, c)), Ucore!Rolled(z.roll, c))
  BY <1>1, <1>2, ScrollShows
<1> QED  BY <1>3 DEF Ucore!Printed, Ucore!cga_putc

\* The calls of kern_init, and the ones the kernel's thread makes at each step.
LEMMA BootCalls ==
  /\ Len(Ucore!kern_init) = 13
  /\ Ucore!kern_init[1] = "cons_init" /\ Ucore!kern_init[2] = "cprintf"
  /\ Ucore!kern_init[3] = "pic_init" /\ Ucore!kern_init[4] = "idt_init"
  /\ Ucore!kern_init[5] = "cprintf" /\ Ucore!kern_init[6] = "clock_init"
  /\ Ucore!kern_init[7] = "intr_enable" /\ Ucore!kern_init[8] = "cprintf"
  /\ Ucore!kern_init[9] = "user" /\ Ucore!kern_init[10] = "cprintf"
  /\ Ucore!kern_init[11] = "kernel" /\ Ucore!kern_init[12] = "cprintf"
  /\ Ucore!kern_init[13] = "idle"
BY DEF Ucore!kern_init, Ucore!lab1_switch_test

\* A call finds the kernel between two prints, at the step that makes it.
LEMMA CallAt ==
  ASSUME NEW name, Ucore!Call(name), step \in 1 .. 13
  PROVE  /\ stage = Ucore!Idle /\ step' = step + 1
         /\ UNCHANGED <<lab, stage, crt_buf, crt_pos, roll, torn, traps>>
         /\ name = "cons_init" => step = 1
         /\ name = "pic_init" => step = 3
         /\ name = "idt_init" => step = 4
         /\ name = "clock_init" => step = 6
         /\ name = "intr_enable" => step = 7
         /\ name = "cprintf" => step \in {2, 5, 8, 10, 12}
         /\ name = "user" => step = 9
         /\ name = "kernel" => step = 11
<1>1. /\ stage = Ucore!Idle /\ step' = step + 1 /\ Ucore!kern_init[step] = name
      /\ UNCHANGED <<lab, stage, crt_buf, crt_pos, roll, torn, traps>>
  BY DEF Ucore!Call
<1>2. step \in {1, 2, 3, 4, 5, 6, 7, 8, 9, 10, 11, 12, 13}
  OBVIOUS
<1>3. name = Ucore!kern_init[step]
  BY <1>1
<1> QED  BY <1>1, <1>2, <1>3, BootCalls

\* A call of kern_init leaves the screen alone.
LEMMA CallShows ==
  ASSUME NEW name, Ucore!Call(name), ScreenInv
  PROVE  ScreenInv'
BY DEF Ucore!Call, ScreenInv, Ucore!Screen

LEMMA BootConsole ==
  ASSUME BootInv, FlagInv, Ucore!Call("cons_init"), Ucore!cons_init
  PROVE  BootInv' /\ FlagInv'
<1>1. step = 1 /\ stage = Ucore!Idle /\ step' = 2 /\ stage' = stage
  BY CallAt DEF BootInv
<1>2. irq_mask = {"SLAVE"} /\ ~did_init /\ pic = {} /\ ~iflag
  BY <1>1 DEF BootInv, FlagInv, Enabled
<1>3. irq_mask' = irq_mask \cup ((IF serial_exists' THEN {"COM1"} ELSE {}) \cup {"KBD"}) /\ pic' = pic /\ UNCHANGED <<did_init, idt, iflag>>
  BY <1>2 DEF Ucore!cons_init, Ucore!pic_enable, Ucore!pic_setmask, Ucore!serial_init, Ucore!kbd_init
<1>4. irq_mask' = Enabled(step)'
  BY <1>1, <1>2, <1>3 DEF Enabled
<1>5. BootInv'
  BY <1>1, <1>2, <1>3, <1>4 DEF BootInv
<1> QED  BY <1>1, <1>2, <1>3, <1>5 DEF FlagInv, Ucore!Idle

LEMMA BootPic ==
  ASSUME BootInv, FlagInv, Ucore!Call("pic_init"), Ucore!pic_init
  PROVE  BootInv' /\ FlagInv'
<1>1. step = 3 /\ stage = Ucore!Idle /\ step' = 4 /\ stage' = stage
  BY CallAt DEF BootInv
<1>2. did_init' /\ pic' = irq_mask /\ UNCHANGED <<serial_exists, irq_mask, idt, iflag>>
  BY DEF Ucore!pic_init
<1>3. irq_mask' = Enabled(step)'
  BY <1>1, <1>2 DEF BootInv, Enabled
<1>4. BootInv'
  BY <1>1, <1>2, <1>3 DEF BootInv
<1> QED  BY <1>1, <1>2, <1>4 DEF FlagInv, Ucore!Idle

LEMMA BootIdt ==
  ASSUME BootInv, FlagInv, Ucore!Call("idt_init"), Ucore!idt_init
  PROVE  BootInv' /\ FlagInv'
<1>1. step = 4 /\ stage = Ucore!Idle /\ step' = 5 /\ stage' = stage
  BY CallAt DEF BootInv
<1>2. idt' /\ UNCHANGED <<serial_exists, irq_mask, did_init, pic, iflag>>
  BY DEF Ucore!idt_init
<1>3. irq_mask' = Enabled(step)'
  BY <1>1, <1>2 DEF BootInv, Enabled
<1>4. BootInv'
  BY <1>1, <1>2, <1>3 DEF BootInv
<1> QED  BY <1>1, <1>2, <1>4 DEF FlagInv, Ucore!Idle

LEMMA BootClock ==
  ASSUME BootInv, FlagInv, Ucore!Call("clock_init"), Ucore!clock_init
  PROVE  BootInv' /\ FlagInv'
<1>1. step = 6 /\ stage = Ucore!Idle /\ step' = 7 /\ stage' = stage
  BY CallAt DEF BootInv
<1>2. did_init /\ idt
  BY <1>1 DEF BootInv
<1>3. irq_mask' = irq_mask \cup {"TIMER"} /\ pic' = irq_mask' /\ UNCHANGED <<serial_exists, did_init, idt, iflag>>
  BY <1>2 DEF Ucore!clock_init, Ucore!pic_enable, Ucore!pic_setmask
<1>4. irq_mask' = Enabled(step)'
  BY <1>1, <1>3 DEF BootInv, Enabled
<1>5. BootInv'
  BY <1>1, <1>2, <1>3, <1>4 DEF BootInv
<1> QED  BY <1>1, <1>3, <1>5 DEF FlagInv, Ucore!Idle

\* The calls that change neither the mask nor the controller.
LEMMA BootRest ==
  ASSUME BootInv, FlagInv, step \in {2, 5, 7, 8, 9, 10, 11, 12}, stage = Ucore!Idle,
         step' = step + 1, stage' = stage, iflag' <=> step' > 7,
         UNCHANGED <<serial_exists, irq_mask, pic, did_init, idt>>
  PROVE  BootInv' /\ FlagInv'
<1>1. irq_mask' = Enabled(step)'
  BY DEF BootInv, Enabled
<1>2. BootInv'
  BY <1>1 DEF BootInv
<1> QED  BY <1>2 DEF FlagInv, Ucore!Idle

LEMMA BootSteps ==
  ASSUME BootInv, FlagInv, ScreenInv, Ucore!KernInit
  PROVE  BootInv' /\ FlagInv' /\ ScreenInv'
<1>0. step \in 1 .. 13
  BY DEF BootInv
<1>1. ScreenInv'
  BY CallShows DEF Ucore!KernInit
<1>2. CASE Ucore!Call("cons_init") /\ Ucore!cons_init
  BY <1>1, <1>2, BootConsole
<1>3. CASE Ucore!Call("pic_init") /\ Ucore!pic_init
  BY <1>1, <1>3, BootPic
<1>4. CASE Ucore!Call("idt_init") /\ Ucore!idt_init
  BY <1>1, <1>4, BootIdt
<1>5. CASE Ucore!Call("clock_init") /\ Ucore!clock_init
  BY <1>1, <1>5, BootClock
<1>6. CASE Ucore!Call("intr_enable") /\ Ucore!intr_enable
  <2>1. stage = Ucore!Idle /\ step' = step + 1 /\ stage' = stage /\ step = 7
    BY <1>0, <1>6, CallAt
  <2>2. iflag' /\ UNCHANGED <<serial_exists, irq_mask, pic, did_init, idt>>
    BY <1>6 DEF Ucore!intr_enable
  <2> QED  BY <1>1, <2>1, <2>2, BootRest
<1>7. ASSUME NEW name \in {"cprintf", "user", "kernel"}, Ucore!Call(name),
             UNCHANGED <<serial_exists, irq_mask, pic, did_init, idt, iflag>>
      PROVE  BootInv' /\ FlagInv'
  <2>1. stage = Ucore!Idle /\ step' = step + 1 /\ stage' = stage /\ step \in {2, 5, 8, 10, 12, 9, 11}
    BY <1>0, <1>7, CallAt
  <2>2. iflag' <=> step' > 7
    BY <1>7, <2>1 DEF FlagInv
  <2> QED  BY <1>7, <2>1, <2>2, BootRest
<1>8. CASE Ucore!Call("cprintf") /\ Ucore!cprintf
  BY <1>1, <1>7, <1>8 DEF Ucore!cprintf
<1>9. CASE Ucore!Call("user") /\ Ucore!SwitchTo("user")
  BY <1>1, <1>7, <1>9 DEF Ucore!SwitchTo
<1>10. CASE Ucore!Call("kernel") /\ Ucore!SwitchTo("kernel")
  BY <1>1, <1>7, <1>10 DEF Ucore!SwitchTo
<1> QED  BY <1>2, <1>3, <1>4, <1>5, <1>6, <1>8, <1>9, <1>10 DEF Ucore!KernInit

\* What a step of cons_putc or a handler leaves alone.
LEMMA BootSame ==
  ASSUME BootInv, UNCHANGED <<serial_exists, step, irq_mask, did_init, pic, idt>>
  PROVE  BootInv'
BY DEF BootInv, Enabled

LEMMA BeginPutStep ==
  ASSUME BootInv, FlagInv, ScreenInv, Ucore!BeginPut
  PROVE  BootInv' /\ FlagInv' /\ ScreenInv'
<1>1. BootInv'
  BY BootSame DEF Ucore!BeginPut
<1>2. /\ stage = Ucore!Idle /\ stage' = [at |-> "store", intr_flag |-> iflag, pos |-> crt_pos]
      /\ UNCHANGED <<lab, step, crt_buf, crt_pos, roll, torn>>
      /\ iflag' = IF lab = 2 THEN FALSE ELSE iflag
  BY DEF Ucore!BeginPut, Ucore!local_intr_save
<1>3. stage.at = "idle" /\ stage'.at = "store" /\ stage'.pos = crt_pos /\ stage'.intr_flag = iflag
  BY <1>2 DEF Ucore!Idle
<1>4. FlagInv'
  <2>1. stage' # Ucore!Idle
    BY <1>3 DEF Ucore!Idle
  <2>2. iflag <=> step > 7
    BY <1>2 DEF FlagInv
  <2>3. stage' = [at |-> "store", intr_flag |-> stage'.intr_flag, pos |-> stage'.pos]
    BY <1>2, <1>3
  <2>4. (stage'.intr_flag <=> step' > 7) /\ (iflag' => step' > 7 /\ lab' # 2)
    BY <1>2, <1>3, <2>2
  <2> QED  BY <2>1, <2>3, <2>4 DEF FlagInv, Ucore!Idle
<1>5. ScreenInv'
  BY <1>2, <1>3 DEF ScreenInv, Ucore!Screen
<1> QED  BY <1>1, <1>4, <1>5

LEMMA StorePutStep ==
  ASSUME BootInv, FlagInv, ScreenInv, Ucore!StorePut
  PROVE  BootInv' /\ FlagInv' /\ ScreenInv'
<1> DEFINE s == Ucore!Stored(Ucore!Screen, stage.pos, Head(text))
<1>1. BootInv'
  BY BootSame DEF Ucore!StorePut
<1>2. /\ stage.at = "store" /\ crt_buf' = s.buf /\ crt_pos' = s.pos
      /\ roll' = Ucore!Rolled(roll, Head(text)) /\ stage' = [stage EXCEPT !.at = "scroll"]
      /\ UNCHANGED <<lab, step, iflag, torn>>
  BY DEF Ucore!StorePut
<1>3. /\ stage # Ucore!Idle
      /\ stage = [at |-> "store", intr_flag |-> stage.intr_flag, pos |-> stage.pos]
  BY <1>2 DEF FlagInv, Ucore!Idle
<1>4. stage' = [at |-> "scroll", intr_flag |-> stage.intr_flag, pos |-> stage.pos]
  BY <1>2, <1>3
<1>5. stage'.at = "scroll" /\ stage'.intr_flag = stage.intr_flag /\ stage' # Ucore!Idle
      /\ stage' = [at |-> "scroll", intr_flag |-> stage'.intr_flag, pos |-> stage'.pos]
  BY <1>4 DEF Ucore!Idle
<1>6. FlagInv'
  <2>1. (stage'.intr_flag <=> step' > 7) /\ (iflag' => step' > 7 /\ lab' # 2)
    BY <1>2, <1>3, <1>5 DEF FlagInv
  <2> QED  BY <1>5, <2>1 DEF FlagInv, Ucore!Idle
<1>7. ScreenInv'
  <2> SUFFICES ASSUME lab = 2 \/ ~torn  PROVE Window(Ucore!Scrolled(Ucore!Screen), roll)'
    BY <1>2, <1>5 DEF ScreenInv
  <2>1. Window(Ucore!Screen, roll) /\ stage.pos = crt_pos /\ Ucore!Screen.pos = crt_pos
    BY <1>2 DEF ScreenInv, Ucore!Screen
  <2>2. Half(s, roll', roll.top) /\ roll.top \in Nat
    BY <1>2, <2>1, StoreShows DEF Window
  <2>3. s = Ucore!Screen'
    BY <1>2, <2>2 DEF Half, Ucore!Screen
  <2> HIDE DEF s
  <2>4. Window(Ucore!Scrolled(s), roll')
    BY <2>2, ScrollShows
  <2> QED  BY <2>3, <2>4 DEF Window, Ucore!Scrolled
<1> QED  BY <1>1, <1>6, <1>7

LEMMA ScrollPutStep ==
  ASSUME BootInv, FlagInv, ScreenInv, Ucore!ScrollPut
  PROVE  BootInv' /\ FlagInv' /\ ScreenInv'
<1> DEFINE s == Ucore!Scrolled(Ucore!Screen)
<1>1. BootInv'
  BY BootSame DEF Ucore!ScrollPut
<1>2. /\ stage.at = "scroll" /\ crt_buf' = s.buf /\ crt_pos' = s.pos
      /\ stage' = Ucore!Idle /\ iflag' = stage.intr_flag /\ UNCHANGED <<lab, step, roll, torn>>
  BY DEF Ucore!ScrollPut
<1>3. stage # Ucore!Idle /\ stage'.at = "idle"
  BY <1>2 DEF Ucore!Idle
<1>4. FlagInv'
  <2>1. iflag' <=> step' > 7
    BY <1>2, <1>3 DEF FlagInv
  <2> QED  BY <1>2, <2>1 DEF FlagInv, Ucore!Idle
<1>5. ScreenInv'
  <2> SUFFICES ASSUME lab = 2 \/ ~torn  PROVE Window(Ucore!Screen, roll)'
    BY <1>2, <1>3 DEF ScreenInv
  <2>1. Window(s, roll)
    BY <1>2 DEF ScreenInv
  <2>2. s = Ucore!Screen'
    BY <1>2, <2>1 DEF Window, Ucore!Screen
  <2> HIDE DEF s
  <2> QED  BY <1>2, <2>1, <2>2 DEF Window
<1> QED  BY <1>1, <1>4, <1>5

\* An interrupt: in lab2 it never falls into a cons_putc, and in lab1 the screen
\* is given up when it does.
LEMMA TrapStep ==
  ASSUME BootInv, FlagInv, ScreenInv, NEW irq, NEW z, Ucore!Trap(irq, z),
         Window(Ucore!Screen, roll) => Window(z.screen, z.roll)
  PROVE  BootInv' /\ FlagInv' /\ ScreenInv'
<1>1. /\ iflag /\ crt_buf' = z.screen.buf /\ crt_pos' = z.screen.pos /\ roll' = z.roll
      /\ torn' = (torn \/ stage # Ucore!Idle)
      /\ UNCHANGED <<lab, serial_exists, step, text, stage, irq_mask, did_init, pic, idt, iflag>>
  BY DEF Ucore!Trap
<1>2. BootInv' /\ FlagInv'
  BY <1>1, BootSame DEF FlagInv, Ucore!Idle
<1>3. ScreenInv'
  <2> SUFFICES ASSUME lab = 2 \/ ~torn'  PROVE ScreenInv'
    BY <1>1 DEF ScreenInv
  <2>1. stage = Ucore!Idle
    BY <1>1 DEF FlagInv
  <2>2. lab = 2 \/ ~torn
    BY <1>1
  <2>3. stage.at = "idle" /\ stage'.at = "idle"
    BY <1>1, <2>1 DEF Ucore!Idle
  <2>4. Window(z.screen, z.roll)
    BY <2>2, <2>3 DEF ScreenInv
  <2>5. z.screen = Ucore!Screen'
    BY <1>1, <2>4 DEF Window, Ucore!Screen
  <2>6. Window(Ucore!Screen, roll)'
    BY <1>1, <2>4, <2>5 DEF Window
  <2> QED  BY <2>3, <2>6 DEF ScreenInv
<1> QED  BY <1>2, <1>3

LEMMA TimerStep ==
  ASSUME BootInv, FlagInv, ScreenInv, Ucore!TimerTrap
  PROVE  BootInv' /\ FlagInv' /\ ScreenInv'
<1> DEFINE a == Ucore!Console
           b == Ucore!Printed(Ucore!Printed(Ucore!Console, "t"), "newline")
<1>1. PICK z \in {a, b} : Ucore!Trap("TIMER", z)
  BY DEF Ucore!TimerTrap
<1>2. a.screen = Ucore!Screen /\ a.roll = roll
  BY DEF Ucore!Console
<1> HIDE DEF a
<1>3. Window(a.screen, a.roll) => Window(b.screen, b.roll)
  BY PutShows DEF a
<1>4. Window(Ucore!Screen, roll) => Window(z.screen, z.roll)
  BY <1>2, <1>3
<1> QED  BY <1>1, <1>4, TrapStep

LEMMA InputStep ==
  ASSUME BootInv, FlagInv, ScreenInv, Ucore!InputTrap
  PROVE  BootInv' /\ FlagInv' /\ ScreenInv'
<1> DEFINE a == Ucore!Console
<1>1. PICK irq, c : Ucore!Trap(irq, Ucore!Printed(Ucore!Printed(Ucore!Printed(Ucore!Console, "k"), c), "newline"))
  BY DEF Ucore!InputTrap
<1> DEFINE b == Ucore!Printed(a, "k")
           d == Ucore!Printed(b, c)
           z == Ucore!Printed(d, "newline")
<1>2. a.screen = Ucore!Screen /\ a.roll = roll
  BY DEF Ucore!Console
<1>3. Window(a.screen, a.roll) => Window(b.screen, b.roll)
  BY PutShows
<1>4. Window(b.screen, b.roll) => Window(d.screen, d.roll)
  <2> HIDE DEF b
  <2> QED  BY PutShows
<1>5. Window(d.screen, d.roll) => Window(z.screen, z.roll)
  <2> HIDE DEF d
  <2> QED  BY PutShows
<1>6. Ucore!Trap(irq, z)
  BY <1>1
<1>7. Window(Ucore!Screen, roll) => Window(z.screen, z.roll)
  <2> HIDE DEF a, b, d, z
  <2> QED  BY <1>2, <1>3, <1>4, <1>5
<1> HIDE DEF z
<1> QED  BY <1>6, <1>7, TrapStep

\* The kernel starts with a blank screen on a blank roll, and with no interrupts.
LEMMA KernelStarts ==
  ASSUME Ucore!Init
  PROVE  BootInv /\ FlagInv /\ ScreenInv
<1>0. /\ step = 1 /\ stage = Ucore!Idle /\ irq_mask = {"SLAVE"} /\ ~did_init /\ pic = {} /\ ~iflag
  BY DEF Ucore!Init
<1>1. /\ crt_buf = [i \in Ucore!Cells |-> " "] /\ crt_pos = 0
      /\ roll = [at |-> 0, top |-> 0, ink |-> [i \in {} |-> " "]]
  BY DEF Ucore!Init
<1>2. BootInv
  BY <1>0 DEF BootInv, Enabled
<1>3. FlagInv
  <2>1. ~(step > 7)
    BY <1>0
  <2> QED  BY <1>0, <2>1 DEF FlagInv
<1>4. roll.at = 0 /\ roll.top = 0 /\ \A i : Ucore!InkAt(roll, i) = " "
  <2>1. roll.at = 0 /\ roll.top = 0 /\ DOMAIN roll.ink = {}
    BY <1>1
  <2> QED  BY <2>1 DEF Ucore!InkAt
<1>5. Ucore!CRT_SIZE \in Nat /\ 0 < Ucore!CRT_SIZE /\ 0 * CRT_COLS = 0
  BY ScreenSize
<1>6. Ucore!Screen = [buf |-> crt_buf, pos |-> 0] /\ Ucore!Screen.buf = crt_buf /\ Ucore!Screen.pos = 0
  BY <1>1 DEF Ucore!Screen
<1>7. DOMAIN crt_buf = Ucore!Cells /\ \A i \in Ucore!Cells : crt_buf[i] = " "
  BY <1>1
<1>8. roll.at = roll.top * CRT_COLS + Ucore!Screen.pos
  <2>1. 0 = 0 * CRT_COLS + 0
    BY <1>5
  <2> QED  BY <1>4, <1>6, <2>1
<1>9. Window(Ucore!Screen, roll)
  <2>1. Ucore!Screen = [buf |-> Ucore!Screen.buf, pos |-> Ucore!Screen.pos]
    BY <1>6
  <2>2. Ucore!Screen.pos \in Nat /\ roll.top \in Nat /\ Ucore!Screen.pos < Ucore!CRT_SIZE
    <3>1. Ucore!Screen.pos = 0 /\ roll.top = 0
      BY <1>4, <1>6
    <3>2. 0 < Ucore!CRT_SIZE
      BY ScreenSize
    <3> QED  BY <3>1, <3>2
  <2>3. /\ DOMAIN Ucore!Screen.buf = Ucore!Cells
        /\ \A i \in Ucore!Cells : Ucore!Screen.buf[i] = Ucore!InkAt(roll, roll.top * CRT_COLS + i)
    BY <1>4, <1>6, <1>7
  <2>4. \A i \in Nat : (roll.top + CRT_ROWS) * CRT_COLS <= i => Ucore!InkAt(roll, i) = " "
    BY <1>4
  <2> QED  BY <1>8, <2>1, <2>2, <2>3, <2>4 DEF Window
<1>10. stage.at = "idle"
  BY <1>0 DEF Ucore!Idle
<1> QED  BY <1>2, <1>3, <1>9, <1>10 DEF ScreenInv

LEMMA KernelAlways == Spec => []KernelInv
<1>1. Init => KernelInv
  BY KernelStarts DEF Init, KernelInv
<1>2. KernelInv /\ [Next]_vars => KernelInv'
  <2> SUFFICES ASSUME KernelInv, [Next]_vars, prog' = "ucore"
               PROVE  BootInv' /\ FlagInv' /\ ScreenInv'
    BY DEF KernelInv
  <2>1. prog = "ucore" /\ (Ucore!Next \/ UNCHANGED ucore)
    BY DEF Next, vars, RunShm, RunMail, RunPosix, RunSysV, RunHand, RunRound, RunClient, RunUcore
  <2>2. BootInv /\ FlagInv /\ ScreenInv
    BY <2>1 DEF KernelInv
  <2>3. CASE UNCHANGED ucore
    <3>1. BootInv'
      BY <2>2, <2>3, BootSame DEF ucore
    <3>2. FlagInv'
      BY <2>2, <2>3 DEF ucore, FlagInv, Ucore!Idle
    <3>3. ScreenInv'
      BY <2>2, <2>3 DEF ucore, ScreenInv, Ucore!Screen
    <3> QED  BY <3>1, <3>2, <3>3
  <2>4. CASE Ucore!Next
    BY <2>2, <2>4, BootSteps, BeginPutStep, StorePutStep, ScrollPutStep, TimerStep, InputStep
       DEF Ucore!Next, Ucore!cons_putc
  <2> QED  BY <2>1, <2>3, <2>4
<1> QED  BY <1>1, <1>2, PTL DEF Spec

\* Whatever the size of the screen, the number of ticks between two prints of the
\* timer and the number of interrupts: the screen is the end of all that was printed,
\* in its order, unless an interrupt of lab1 fell into a cons_putc; interrupts are on
\* only when the controller and the table of handlers are ready for them; and
\* cons_putc leaves them as it found them.
THEOREM ScreenIsKept == Spec => []KernelSound
<1>1. KernelInv => KernelSound
  <2> SUFFICES ASSUME BootInv, FlagInv, ScreenInv  PROVE Ucore!KernelSound
    BY DEF KernelInv, KernelSound
  <2>1. Ucore!ScreenKept
    <3> SUFFICES ASSUME stage = Ucore!Idle, lab = 2 \/ ~torn
                 PROVE  /\ \A i \in Ucore!Cells : crt_buf[i] = Ucore!InkAt(roll, roll.top * CRT_COLS + i)
                        /\ crt_pos = roll.at - roll.top * CRT_COLS
                        /\ crt_pos < Ucore!CRT_SIZE
      BY DEF Ucore!ScreenKept
    <3>1. Window(Ucore!Screen, roll)
      BY DEF ScreenInv, Ucore!Idle
    <3>2. Ucore!Screen.buf = crt_buf /\ Ucore!Screen.pos = crt_pos
      BY DEF Ucore!Screen
    <3>3. /\ crt_pos \in Nat /\ roll.top \in Nat /\ roll.at = roll.top * CRT_COLS + crt_pos
          /\ crt_pos < Ucore!CRT_SIZE
          /\ \A i \in Ucore!Cells : crt_buf[i] = Ucore!InkAt(roll, roll.top * CRT_COLS + i)
      BY <3>1, <3>2 DEF Window
    <3>4. roll.top * CRT_COLS \in Nat
      BY <3>3, ScreenSize
    <3> QED  BY <3>3, <3>4
  <2>2. Ucore!InterruptsReady
    <3> SUFFICES ASSUME iflag  PROVE Ucore!InterruptsReady
      BY DEF Ucore!InterruptsReady
    <3>1. step > 7 /\ step \in 1 .. 13
      BY DEF FlagInv, BootInv
    <3>2. idt /\ pic = Enabled(step)
      BY <3>1 DEF BootInv
    <3>3. Enabled(step) = {"SLAVE", "TIMER", "KBD"} \cup (IF serial_exists THEN {"COM1"} ELSE {})
      BY <3>1 DEF Enabled
    <3> QED  BY <3>2, <3>3 DEF Ucore!InterruptsReady
  <2>3. Ucore!InterruptsRestored
    BY DEF FlagInv, Ucore!InterruptsRestored
  <2> QED  BY <2>1, <2>2, <2>3 DEF Ucore!KernelSound
<1> QED  BY <1>1, KernelAlways, PTL
==============================================================================
