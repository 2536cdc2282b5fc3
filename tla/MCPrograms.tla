----------------------------- MODULE MCPrograms -----------------------------
(***************************************************************************)
(* The programs for TLC: a file of three lines of two types, and three     *)
(* tasks whose burst times and priorities order them differently, two of   *)
(* the same priority.  The scheduler's thread may start late in the first  *)
(* round and find a 0 for the number of tasks.                             *)
(***************************************************************************)
EXTENDS Programs

MCLines == <<1, 2, 1>>
MCWCT == <<3, 1, 2>>
MCPriority == <<1, 2, 2>>
MCStale == [FCFS |-> {0}, SJF_PEM |-> {}, SJF_NOT_PEM |-> {}, PRIORITY_PEM |-> {},
            PRIORITY_NOT_PEM |-> {}]
=============================================================================
