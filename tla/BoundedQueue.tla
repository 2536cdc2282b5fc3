---------------------------- MODULE BoundedQueue ----------------------------
(***************************************************************************)
(* What the producer/consumer program of Labweek15 promises to its user:   *)
(* a queue of at most Capacity items.  Items are numbered from 1 in the    *)
(* order they are made and leave the queue in that order, each one once.   *)
(***************************************************************************)
EXTENDS Naturals, Sequences

CONSTANTS Capacity,  \* BUFFER_SIZE
          MaxItem    \* MAX_ITEM_NUM

VARIABLES made,   \* number of items made so far
          queue,  \* items made and not yet taken, oldest first
          out     \* items taken, in the order they were taken

vars == <<made, queue, out>>

Init == made = 0 /\ queue = <<>> /\ out = <<>>

Put == /\ made < MaxItem
       /\ Len(queue) < Capacity
       /\ made' = made + 1
       /\ queue' = Append(queue, made + 1)
       /\ out' = out

Get == /\ queue # <<>>
       /\ out' = Append(out, Head(queue))
       /\ queue' = Tail(queue)
       /\ made' = made

Next == Put \/ Get

Spec == Init /\ [][Next]_vars
=============================================================================
