----------------------------- MODULE ChatServer -----------------------------
(***************************************************************************)
(* The BBS chat server of Labweek9.  main accepts clients and forks a      *)
(* recv_send_data process for each; one process, pipe_data, knows who is   *)
(* there and passes the lines on.  They talk through pipes only: main      *)
(* tells pipe_data a client's status through fd_stat and, after the fork,  *)
(* the highest client number through fd[0]; clients' lines come through    *)
(* fd_msg; what client sn is to be sent goes through fd[sn].               *)
(*                                                                         *)
(* Two programs: with nicknames (BBS-3-nickname.c) a client is accepted    *)
(* first and takes part once it has a name; without (BBS-3.c) it takes     *)
(* part at once and is called Anonymous.                                   *)
(***************************************************************************)
EXTENDS Integers, Sequences

CONSTANTS MAX_CONN_NUM,
          Lines,          \* what a client may type, by kind and name
          Commands,       \* what the operator may type, by kind and client
          PipeMax,        \* messages the pipe of a client holds, 64 in the code
          MaxTyped        \* bound on the lines typed, by the clients and the operator

VARIABLES
  registers,        \* which program: with nicknames or without
  main, connect_sn, \* main and the number of the client it is at
  fd_max, fd_stat, fd_msg,   \* the pipes to pipe_data; fd_max is fd[0]
  fd, nonblock,     \* the pipe of every client, and those set to O_NONBLOCK
  recv,             \* the recv_send_data processes
  round, max_sn, stat, nickname,   \* pipe_data: where it is, and what it knows
  typed,            \* lines typed so far
  log, heard, missed,   \* number of public messages; per client the number of the
                        \* last one delivered, and those whose pipe was full (history)
  quit, lagged      \* clients that quit; a name was taken by a client that
                    \* pipe_data had not been told of (history)

tvars == <<registers, main, connect_sn, fd_max, fd_stat, fd_msg, fd, nonblock, recv, round,
           max_sn, stat, nickname, typed, log, heard, missed, quit, lagged>>
accepting == <<main, connect_sn, fd_max, fd_stat>>
members == <<max_sn, stat, nickname>>
history == <<log, heard, missed, quit, lagged>>

Sn == 1 .. MAX_CONN_NUM

Init ==
  /\ registers \in BOOLEAN
  /\ main = "accept" /\ connect_sn = 1
  /\ fd_max = <<>> /\ fd_stat = <<>> /\ fd_msg = <<>>
  /\ fd = [u \in Sn |-> <<>>] /\ nonblock = {} /\ recv = [u \in Sn |-> "no"]
  /\ round = "max" /\ max_sn = 0
  /\ stat = [u \in Sn |-> "EMPTY"]
  /\ nickname = [u \in 0 .. MAX_CONN_NUM |-> IF u = 0 THEN "Console" ELSE "Anonymous"]
  /\ typed = 0
  /\ log = 0 /\ heard = [u \in Sn |-> 0] /\ missed = {} /\ quit = {} /\ lagged = FALSE

-----------------------------------------------------------------------------
(* main: accept and tell the status; fork; tell the number, and go on      *)
(* unless there are no more numbers.                                       *)
Accept ==
  /\ main = "accept" /\ connect_sn <= MAX_CONN_NUM
  /\ fd_stat' = Append(fd_stat, connect_sn)
  /\ main' = "fork"
  /\ UNCHANGED <<registers, connect_sn, fd_max, fd_msg, fd, nonblock, recv, round, members, typed, history>>

Fork ==
  /\ main = "fork"
  /\ \/ main' = "over" /\ UNCHANGED recv
     \/ main' = "tell" /\ recv' = [recv EXCEPT ![connect_sn] = "on"]
  /\ UNCHANGED <<registers, connect_sn, fd_max, fd_stat, fd_msg, fd, nonblock, round, members, typed, history>>

TellMax ==
  /\ main = "tell"
  /\ fd_max' = Append(fd_max, connect_sn)
  /\ connect_sn' = connect_sn + 1
  /\ main' = IF connect_sn < MAX_CONN_NUM THEN "accept" ELSE "over"
  /\ UNCHANGED <<registers, fd_stat, fd_msg, fd, nonblock, recv, round, members, typed, history>>

(* No more numbers, or the fork failed: wait for a child and end.          *)
MainEnds ==
  /\ main = "over" /\ \E u \in Sn : recv[u] = "ended"
  /\ main' = "exit"
  /\ UNCHANGED <<registers, connect_sn, fd_max, fd_stat, fd_msg, fd, nonblock, recv, round, members, typed, history>>

-----------------------------------------------------------------------------
(* recv_send_data: a line from the client, a message to it; a send that    *)
(* fails ends the process.                                                 *)
RecvLine(u, line) ==
  /\ recv[u] = "on" /\ typed < MaxTyped
  /\ fd_msg' = Append(fd_msg, [sn |-> u, line |-> line])
  /\ typed' = typed + 1
  /\ UNCHANGED <<registers, accepting, fd, nonblock, recv, round, members, history>>

SendMessage(u) ==
  /\ recv[u] = "on" /\ fd[u] # <<>>
  /\ fd' = [fd EXCEPT ![u] = Tail(@)]
  /\ \/ /\ heard' = IF Head(fd[u]) = 0 THEN heard ELSE [heard EXCEPT ![u] = Head(fd[u])]
        /\ UNCHANGED recv
     \/ recv' = [recv EXCEPT ![u] = "ended"] /\ UNCHANGED heard
  /\ UNCHANGED <<registers, accepting, fd_msg, nonblock, round, members, typed, log, missed, quit, lagged>>

-----------------------------------------------------------------------------
(* pipe_data.  A message is 0 when one client is meant, and otherwise its  *)
(* number among the public ones.                                           *)
Member(u) == u \in 1 .. max_sn /\ stat[u] = "NORMAL"

(* Write m to the pipes of the clients in to; a full pipe misses it.       *)
Sends(to, m) ==
  /\ fd' = [u \in Sn |-> IF u \in to /\ Len(fd[u]) < PipeMax THEN Append(fd[u], m) ELSE fd[u]]
  /\ missed' = missed \cup {u \in to : m # 0 /\ Len(fd[u]) >= PipeMax}

(* The pipe is written as it is: until O_NONBLOCK is set, a write to a     *)
(* full one waits.                                                         *)
Reply(u) ==
  /\ u \in nonblock \/ Len(fd[u]) < PipeMax
  /\ Sends({u}, 0)
  /\ UNCHANGED <<nonblock, log>>

Private(to) == Sends(to, 0) /\ nonblock' = nonblock \cup to /\ UNCHANGED log

(* A mutant of Everyone: the client with the highest number is left out.   *)
EveryoneButLast(status) == {u \in Sn : u < max_sn /\ status[u] = "NORMAL"}

Everyone(status) == {u \in Sn : u <= max_sn /\ status[u] = "NORMAL"}

Public(to) == Sends(to, log + 1) /\ nonblock' = nonblock \cup to /\ log' = log + 1
Silent == UNCHANGED <<fd, nonblock, log, missed>>

(* A client that takes part from now on hears what comes after now.        *)
Joins == heard' = [u \in Sn |-> IF Member(u) THEN heard[u] ELSE log]

DrainMax ==
  /\ round = "max"
  /\ max_sn' = IF fd_max = <<>> THEN max_sn ELSE fd_max[Len(fd_max)]
  /\ fd_max' = <<>>
  /\ round' = "stat"
  /\ Joins
  /\ UNCHANGED <<registers, main, connect_sn, fd_stat, fd_msg, fd, nonblock, recv, stat, nickname, typed, log, missed, quit, lagged>>

DrainStat ==
  /\ round = "stat"
  /\ stat' = [u \in Sn |-> IF \E k \in DOMAIN fd_stat : fd_stat[k] = u
                           THEN (IF registers THEN "ACCEPTED" ELSE "NORMAL") ELSE stat[u]]
  /\ fd_stat' = <<>>
  /\ round' = "msg"
  /\ Joins
  /\ UNCHANGED <<registers, main, connect_sn, fd_max, fd_msg, fd, nonblock, recv, max_sn, nickname, typed, log, missed, quit, lagged>>

Ends(u) == stat' = [stat EXCEPT ![u] = "ENDED"]

(* The handling of one line: the loop over the lines goes on, or is left   *)
(* for this round.                                                         *)
GoesOn == round' = round
Leaves == round' = "console"

(* A mutant of Occupied: the client with the highest number is skipped.    *)
OccupiedBelow(name) == \E i \in 0 .. max_sn - 1 : nickname[i] = name

Occupied(name) == \E i \in 0 .. max_sn : nickname[i] = name

Quits(u) ==
  /\ Ends(u) /\ GoesOn /\ Silent
  /\ quit' = quit \cup {u}
  /\ UNCHANGED <<nickname, lagged>>

Answered(u) == Reply(u) /\ UNCHANGED <<stat, nickname, quit, lagged>>

TakesName(u, name) ==
  /\ nickname' = [nickname EXCEPT ![u] = name]
  /\ lagged' = (lagged \/ u > max_sn)
  /\ GoesOn /\ UNCHANGED quit

(* #1name of the program with nicknames.                                   *)
Registers(u, name) ==
  \/ name = "Anonymous" /\ Leaves /\ Answered(u)
  \/ name # "Anonymous" /\ Occupied(name) /\ GoesOn /\ Answered(u)
  \/ /\ name # "Anonymous" /\ ~Occupied(name)
     /\ TakesName(u, name)
     /\ stat' = [stat EXCEPT ![u] = "NORMAL"]
     /\ Public(Everyone(stat'))

(* #1name of the program without: only the sender is told.                 *)
Renames(u, name) ==
  \/ Occupied(name) /\ GoesOn /\ Answered(u)
  \/ ~Occupied(name) /\ TakesName(u, name) /\ Reply(u) /\ UNCHANGED stat

Talks(u, line) ==
  /\ \/ line.kind = "to" /\ Private({v \in Everyone(stat) : nickname[v] = line.name})
     \/ line.kind = "say" /\ Public(Everyone(stat))
  /\ GoesOn /\ UNCHANGED <<stat, nickname, quit, lagged>>

Ignored == Silent /\ UNCHANGED <<stat, nickname, quit, lagged>>

(* A line of a client that is not known, or has ended, is dropped; one     *)
(* that has no name yet is asked for it.                                   *)
HandleRegistered(u, line) ==
  \/ stat[u] \notin {"ACCEPTED", "NORMAL"} /\ Leaves /\ Ignored
  \/ stat[u] = "ACCEPTED" /\ line.kind \in {"to", "say"} /\ Leaves /\ Answered(u)
  \/ stat[u] = "NORMAL" /\ Talks(u, line)
  \/ /\ stat[u] \in {"ACCEPTED", "NORMAL"}
     /\ \/ line.kind = "end" /\ Quits(u)
        \/ line.kind = "name" /\ Registers(u, line.name)
        \/ line.kind = "list" /\ GoesOn /\ Answered(u)

(* BBS-3.c does not look at the status of the sender.                      *)
HandleAnonymous(u, line) ==
  \/ Talks(u, line)
  \/ line.kind = "end" /\ Quits(u)
  \/ line.kind = "name" /\ Renames(u, line.name)
  \/ line.kind = "list" /\ GoesOn /\ Ignored

HandleLine ==
  /\ round = "msg" /\ fd_msg # <<>>
  /\ fd_msg' = Tail(fd_msg)
  /\ LET m == Head(fd_msg)
     IN  \/ registers /\ HandleRegistered(m.sn, m.line)
         \/ ~registers /\ HandleAnonymous(m.sn, m.line)
  /\ Joins
  /\ UNCHANGED <<registers, accepting, recv, max_sn, typed>>

NoMoreLines ==
  /\ round = "msg" /\ fd_msg = <<>> /\ Leaves
  /\ Joins /\ Ignored
  /\ UNCHANGED <<registers, accepting, fd_msg, recv, max_sn, typed>>

(* The operator's line: to one client, which may end it, or to all.        *)
Command(c) ==
  /\ round = "console" /\ typed < MaxTyped
  /\ typed' = typed + 1
  /\ \/ c.kind = "end" /\ Member(c.sn) /\ Ends(c.sn) /\ Reply(c.sn) /\ quit' = quit \cup {c.sn}
     \/ c.kind = "to" /\ Member(c.sn) /\ Private({c.sn}) /\ UNCHANGED <<stat, quit>>
     \/ c.kind # "say" /\ ~Member(c.sn) /\ Silent /\ UNCHANGED <<stat, quit>>
     \/ c.kind = "say" /\ Public(Everyone(stat)) /\ UNCHANGED <<stat, quit>>
  /\ Joins
  /\ UNCHANGED <<registers, accepting, fd_msg, recv, round, max_sn, nickname, lagged>>

NoCommand ==
  /\ round = "console" /\ round' = "max"
  /\ Joins /\ Ignored
  /\ UNCHANGED <<registers, accepting, fd_msg, recv, max_sn, typed>>

pipe_data ==
  \/ DrainMax \/ DrainStat \/ HandleLine \/ NoMoreLines \/ NoCommand
  \/ \E c \in Commands : Command(c)

Next ==
  \/ Accept \/ Fork \/ TellMax \/ MainEnds
  \/ \E u \in Sn : SendMessage(u) \/ \E line \in Lines : RecvLine(u, line)
  \/ pipe_data

Spec == Init /\ [][Next]_tvars

-----------------------------------------------------------------------------
(* No two clients, and no client and the operator, have the same name,     *)
(* except when a client took its name before pipe_data knew its number;    *)
(* and whoever takes part under nicknames has one.                         *)
NicknamesUnique ==
  /\ lagged \/ \A u \in Sn, v \in 0 .. MAX_CONN_NUM :
                 u # v => nickname[u] = "Anonymous" \/ nickname[u] # nickname[v]
  /\ registers => \A u \in Sn : stat[u] = "NORMAL" => nickname[u] # "Anonymous"

(* Where the public messages stand in a pipe.                              *)
PublicIn(pipe) == {k \in DOMAIN pipe : pipe[k] # 0}

(* Everybody is in the same conversation: who takes part hears every       *)
(* public message from then on, in one order and without a gap unless its  *)
(* pipe was full; and with nicknames, who has quit does not come back.     *)
(* QuitForGood asks the last of both programs, and BBS-3.c breaks it.      *)
ConversationKept ==
  /\ \A u \in Sn : Member(u) /\ recv[u] = "on" /\ u \notin missed =>
       /\ {fd[u][k] : k \in PublicIn(fd[u])} = heard[u] + 1 .. log
       /\ \A j, k \in PublicIn(fd[u]) : j < k => fd[u][j] < fd[u][k]
  /\ registers => \A u \in quit : stat[u] = "ENDED"

(* "STAT_NORMAL -> STAT_ENDED", the last status of a client                *)
(* (socket-server-BBS-3.c:91-92), holds for good.                          *)
QuitForGood == \A u \in quit : stat[u] = "ENDED"

(* A name that is in use is refused as occupied, "whatever ENDED or not"   *)
(* (socket-server-BBS-3-nickname.c:224, 227), so no two clients share one. *)
NamesDistinct ==
  \A u, v \in Sn : u # v => nickname[u] = "Anonymous" \/ nickname[u] # nickname[v]
=============================================================================
