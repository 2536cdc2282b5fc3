-------------------------- MODULE PageReplacement --------------------------
(***************************************************************************)
(* The four page replacement algorithms of Labweek17.  main runs them one  *)
(* after the other over the same reference string; they share nothing      *)
(* else, so here one step refers to a page in all four.                    *)
(***************************************************************************)
EXTENDS Integers, Sequences, FiniteSets, FiniteSetsExt

CONSTANTS Pages, FRAME_SIZE

Frames == 0 .. FRAME_SIZE - 1
Empty == -1

VARIABLES
  fifo,      \* FIFO: page_frame and replace_index
  stack,     \* LRU_stack: page_frame and the list from head to tail, of frame indexes
  matrix,    \* LRU_matrix: page_frame and the matrix
  clock,     \* Second_Chance: page_frame, reference bits and clock_pointer
  recent     \* the pages referred to, the latest last (history)

pvars == <<fifo, stack, matrix, clock, recent>>

NoPages == [i \in Frames |-> Empty]

(* The list node with page_index i carries the page of frame i.            *)
init_PageStack == [i \in 1 .. FRAME_SIZE |-> i - 1]
init_PageQueue == [frame |-> NoPages, bit |-> [i \in Frames |-> 0], clock_pointer |-> 0]

Init ==
  /\ fifo = [frame |-> NoPages, replace_index |-> 0]
  /\ stack = [frame |-> NoPages, list |-> init_PageStack]
  /\ matrix = [frame |-> NoPages, m |-> [i \in Frames |-> [j \in Frames |-> 0]]]
  /\ clock = init_PageQueue
  /\ recent = <<>>

Hit(frame, page) == \E i \in Frames : frame[i] = page
IndexOf(frame, page) == CHOOSE i \in Frames : frame[i] = page
NextFrame(i) == (i + 1) % FRAME_SIZE
MovedLast(s, x) ==
  LET k == Min({i \in 1 .. Len(s) + 1 : i = Len(s) + 1 \/ s[i] = x})
  IN  Append(SubSeq(s, 1, k - 1) \o SubSeq(s, k + 1, Len(s)), x)

(* A mutant of FIFO: the index moves on a hit too.                         *)
FIFOSkips(page) ==
  fifo' = [frame |-> IF Hit(fifo.frame, page) THEN fifo.frame
                     ELSE [fifo.frame EXCEPT ![fifo.replace_index] = page],
           replace_index |-> NextFrame(fifo.replace_index)]

FIFO(page) ==
  IF Hit(fifo.frame, page) THEN UNCHANGED fifo
  ELSE fifo' = [frame |-> [fifo.frame EXCEPT ![fifo.replace_index] = page],
                replace_index |-> NextFrame(fifo.replace_index)]

(* A mutant of LRU_stack: a hit leaves the list as it is.                  *)
LRU_stackHitStays(page) ==
  IF Hit(stack.frame, page) THEN UNCHANGED stack
  ELSE stack' = [frame |-> [stack.frame EXCEPT ![Head(stack.list)] = page],
                 list |-> Append(Tail(stack.list), Head(stack.list))]

(* A hit moves its node to the tail; a fault reuses the node at the head.  *)
LRU_stack(page) ==
  LET i == IF Hit(stack.frame, page) THEN IndexOf(stack.frame, page) ELSE Head(stack.list)
  IN  stack' = [frame |-> [stack.frame EXCEPT ![i] = page],
                list |-> MovedLast(stack.list, i)]

setrow1(m, row) == [m EXCEPT ![row] = [j \in Frames |-> 1]]
setcolumn0(m, column) == [i \in Frames |-> [m[i] EXCEPT ![column] = IF i = column THEN @ ELSE 0]]

(* The first row with the fewest ones.                                     *)
find_least_row(m) ==
  LET Ones(i) == Cardinality({j \in Frames : m[i][j] = 1})
      least == Min({Ones(i) : i \in Frames})
  IN  Min({i \in Frames : Ones(i) = least})

LRU_matrix(page) ==
  LET i == IF Hit(matrix.frame, page) THEN IndexOf(matrix.frame, page)
                                      ELSE find_least_row(matrix.m)
  IN  matrix' = [frame |-> [matrix.frame EXCEPT ![i] = page],
                 m |-> setcolumn0(setrow1(matrix.m, i), i)]

(* The clock clears the bits it passes until it finds one that is 0; when  *)
(* all are 1 that is, after a whole round, the one it started with.        *)
Around(i, k) == (i + k) % FRAME_SIZE
Passed(bit, i) == Min({k \in 0 .. FRAME_SIZE : k = FRAME_SIZE \/ bit[Around(i, k)] = 0})
Cleared(bit, i) ==
  [j \in Frames |-> IF \E k \in 0 .. Passed(bit, i) - 1 : j = Around(i, k) THEN 0 ELSE bit[j]]

(* A mutant of Second_Chance: the page goes where the search began.        *)
Second_ChanceAtPointer(page) ==
  LET victim == clock.clock_pointer
  IN  IF Hit(clock.frame, page)
      THEN clock' = [clock EXCEPT !.bit[IndexOf(clock.frame, page)] = 1]
      ELSE clock' = [frame |-> [clock.frame EXCEPT ![victim] = page],
                     bit |-> [Cleared(clock.bit, clock.clock_pointer) EXCEPT ![victim] = 1],
                     clock_pointer |-> NextFrame(victim)]

Second_Chance(page) ==
  LET victim == Around(clock.clock_pointer, Passed(clock.bit, clock.clock_pointer))
  IN  IF Hit(clock.frame, page)
      THEN clock' = [clock EXCEPT !.bit[IndexOf(clock.frame, page)] = 1]
      ELSE clock' = [frame |-> [clock.frame EXCEPT ![victim] = page],
                     bit |-> [Cleared(clock.bit, clock.clock_pointer) EXCEPT ![victim] = 1],
                     clock_pointer |-> NextFrame(victim)]

Reference(page) ==
  /\ FIFO(page) /\ LRU_stack(page) /\ LRU_matrix(page) /\ Second_Chance(page)
  /\ recent' = MovedLast(recent, page)

Next == \E page \in Pages : Reference(page)

Spec == Init /\ [][Next]_pvars

-----------------------------------------------------------------------------
Resident(frame) == {frame[i] : i \in Frames} \ {Empty}

(* LRU: the pages in memory are the FRAME_SIZE pages used last, and the    *)
(* list and the matrix, which keep their order in unlike ways, put every   *)
(* page in the same frame.                                                 *)
LRUExact ==
  /\ stack.frame = matrix.frame
  /\ Resident(stack.frame) =
       {recent[k] : k \in {k \in DOMAIN recent : k > Len(recent) - FRAME_SIZE}}

(* In every algorithm a page is in one frame at most, the page just used   *)
(* is in memory, and no page was dropped while a frame was free.           *)
FramesSound ==
  \A frame \in {fifo.frame, stack.frame, matrix.frame, clock.frame} :
    /\ Cardinality(Resident(frame)) = Min({Len(recent), FRAME_SIZE})
    /\ Cardinality({i \in Frames : frame[i] # Empty}) = Min({Len(recent), FRAME_SIZE})
    /\ recent # <<>> => recent[Len(recent)] \in Resident(frame)

(* A page whose reference bit is set is dropped only when every page's     *)
(* bit is set.                                                             *)
SecondChanceGiven ==
  [][\A i \in Frames :
       clock.frame[i] \notin Resident(clock'.frame) \cup {Empty} /\ clock.bit[i] = 1
         => \A j \in Frames : clock.bit[j] = 1]_pvars
=============================================================================
