------------------------------ MODULE MinHeap ------------------------------
(***************************************************************************)
(* The structure of Labweek7: an array of students that is a doubly linked *)
(* list (preNode, nextNode, headIndex) and, over the same slots, a binary  *)
(* min-heap on the id.  Every operation of ipc-shmcon.h is an operator     *)
(* from a structure to a structure.  The same functions stand in           *)
(* SLList_MinHeap.c and in "list implement"/ipc-shmcon.h; the variant with *)
(* arrays from malloc, SLList_MinHeap_pointer.c, moves headIndex at other  *)
(* places and leaves popHeap's loop elsewhere: Pointer selects it.         *)
(*                                                                         *)
(* The content of a slot that is on the stack of unused indexes is never   *)
(* read before it is written, so such a slot holds Unused here (the malloc *)
(* variant can keep a stale headIndex that reaches one; the ids of the     *)
(* live slots do not depend on it).  The flag of a student, written and    *)
(* never read, is left out.                                                *)
(***************************************************************************)
EXTENDS Integers, Sequences

CONSTANTS MAXSIZE, Ids, Names, Pointer

Nil == -1
Slots == 0 .. MAXSIZE - 1
Student == [id : Ids, name : Names]
Node == [id : Ids, name : Names, preNode : Slots \cup {Nil}, nextNode : Slots \cup {Nil}]
Unused == [id |-> 0, name |-> "", preNode |-> Nil, nextNode |-> Nil]

(* The stack of unused indexes hands out 0, 1, 2, ...                      *)
initiateStack == [i \in 1 .. MAXSIZE |-> MAXSIZE - i]
pushStack(stk, unusedIndex) == Append(stk, unusedIndex)
popStack(stk) == IF stk = <<>> THEN stk ELSE SubSeq(stk, 1, Len(stk) - 1)
topStack(stk) == IF stk = <<>> THEN Nil ELSE stk[Len(stk)]

initialStaticLinkList ==
  [list |-> [i \in Slots |-> Unused], headIndex |-> Nil, size |-> 0, unusedIndexs |-> initiateStack]

(* Assignments to the links of a slot.                                     *)
SetNext(l, i, next) == [l EXCEPT ![i].nextNode = next]
SetPre(l, i, pre) == [l EXCEPT ![i].preNode = pre]

(* A new student in the slot on top of the stack, linked before the head.  *)
(* The caller sets headIndex.                                              *)
Linked(h, stu) ==
  LET index == topStack(h.unusedIndexs)
      node == [id |-> stu.id, name |-> stu.name, preNode |-> Nil, nextNode |-> h.headIndex]
      old == IF h.headIndex = Nil THEN h.list ELSE SetPre(h.list, h.headIndex, index)
  IN  [h EXCEPT !.list = [old EXCEPT ![index] = node], !.size = @ + 1,
                !.unusedIndexs = popStack(@)]

insertListAtHead(h, stu) == [Linked(h, stu) EXCEPT !.headIndex = topStack(h.unusedIndexs)]

(* A mutant of Exchange: neighbours keep the links they brought along.     *)
ExchangeApart(l, p, c) ==
  LET s0 == [l EXCEPT ![p] = l[c], ![c] = l[p]]
      Mend(i) == [s0[i] EXCEPT !.nextNode = IF @ = p THEN c ELSE IF @ = c THEN p ELSE @,
                               !.preNode = IF @ = p THEN c ELSE IF @ = c THEN p ELSE @]
  IN  [i \in DOMAIN l |-> IF i \in {p, c} THEN s0[i] ELSE Mend(i)]

Swapped(l, p, c) == [l EXCEPT ![p] = l[c], ![c] = l[p]]

(* Exchange two slots and mend the links of their neighbours: first those  *)
(* outside the pair, then the links between the two when they are          *)
(* neighbours.                                                             *)
Exchange(l, p, c) ==
  LET pPre == l[p].preNode  pNext == l[p].nextNode
      cPre == l[c].preNode  cNext == l[c].nextNode
      s0 == Swapped(l, p, c)
      s1 == IF pPre \notin {Nil, c} THEN SetNext(s0, pPre, c) ELSE s0
      s2 == IF pNext \notin {Nil, c} THEN SetPre(s1, pNext, c) ELSE s1
      s3 == IF cPre \notin {Nil, p} THEN SetNext(s2, cPre, p) ELSE s2
      s4 == IF cNext \notin {Nil, p} THEN SetPre(s3, cNext, p) ELSE s3
      s5 == IF pPre = c THEN SetPre(SetNext(s4, p, c), c, p) ELSE s4
  IN  IF pNext = c THEN SetNext(SetPre(s5, p, c), c, p) ELSE s5

(* A mutant of HeadOf: the list starts where it started.                   *)
HeadStays(h, p, c) == h.headIndex

HeadOf(h, p, c) ==
  CASE h.list[c].preNode = Nil -> c
    [] h.list[c].preNode # Nil /\ h.list[p].preNode = Nil -> p
    [] OTHER -> h.headIndex

swapHeapNode(h, p, c) ==
  LET s == [h EXCEPT !.list = Exchange(@, p, c)] IN [s EXCEPT !.headIndex = HeadOf(s, p, c)]

SmallerChild(h, i, n) ==
  LET left == 2 * i + 1
  IN  IF left + 1 < n /\ h.list[left].id > h.list[left + 1].id THEN left + 1 ELSE left

(* Move the student with this id from slot i down while a child is smaller:*)
(* a round of the loop, and all of them.                                   *)
Down(s, id, n) ==
  LET child == SmallerChild(s.h, s.at, n)
  IN  IF 2 * s.at + 1 < n /\ id > s.h.list[child].id
      THEN [h |-> swapHeapNode(s.h, s.at, child), at |-> child] ELSE s

SiftDown(h, id, i, n) ==
  LET down[k \in 0 .. n] == IF k = 0 THEN [h |-> h, at |-> i] ELSE Down(down[k - 1], id, n)
  IN  down[n].h

(* Move it up while its parent is larger; where it stops is the new head.  *)
Up(s, id) ==
  LET parent == (s.at - 1) \div 2
  IN  IF s.at > 0 /\ id < s.h.list[parent].id
      THEN [h |-> swapHeapNode(s.h, parent, s.at), at |-> parent] ELSE s

SiftUp(h, id, child) ==
  LET up[k \in 0 .. child] == IF k = 0 THEN [h |-> h, at |-> child] ELSE Up(up[k - 1], id)
  IN  [up[child].h EXCEPT !.headIndex = up[child].at]

(* From the last slot that has a child to slot 0.                          *)
Heapify(h, i) == SiftDown(h, h.list[i].id, i, h.size)

initialHeap(h) ==
  LET half == h.size \div 2
      heapified[k \in 0 .. half] == IF k = 0 THEN h ELSE Heapify(heapified[k - 1], half - k)
  IN  heapified[half]

pushHeap(h, stu) == SiftUp(Linked(h, stu), stu.id, topStack(h.unusedIndexs))

(* Take the slot behind the last live one out of the list.                 *)
Unlink(h) ==
  LET pre == h.list[h.size].preNode
      next == h.list[h.size].nextNode
      s1 == IF pre # Nil THEN SetNext(h.list, pre, next) ELSE h.list
      s2 == IF next # Nil THEN SetPre(s1, next, pre) ELSE s1
  IN  [h EXCEPT !.list = [s2 EXCEPT ![h.size] = Unused], !.headIndex = IF pre = Nil THEN next ELSE @]

(* The loop of the malloc variant goes down without moving anything until  *)
(* a child is smaller than the student that was last, exchanges once and   *)
(* stops.                                                                  *)
SiftOnce(h, id, high) ==
  LET path[i \in Nat] ==
        LET low == SmallerChild(h, i, h.size)
        IN  CASE 2 * i + 1 >= h.size -> h
              [] 2 * i + 1 < h.size /\ h.list[low].id < id -> swapHeapNode(h, i, low)
              [] OTHER -> path[low]
  IN  path[high]

popHeap(h) ==
  LET last == h.size - 1
      shrunk == [h EXCEPT !.size = last, !.unusedIndexs = pushStack(@, last)]
      exchanged == IF Pointer THEN [shrunk EXCEPT !.list = Exchange(@, 0, last)]
                              ELSE swapHeapNode(shrunk, 0, last)
      sifted == IF Pointer THEN SiftOnce(exchanged, h.list[last].id, 0)
                           ELSE SiftDown(exchanged, h.list[last].id, 0, last)
  IN  CASE h.size = 0 -> h
        [] h.size = 1 -> [shrunk EXCEPT !.list[0] = Unused,
                                        !.headIndex = IF Pointer THEN @ ELSE Nil]
        [] OTHER -> Unlink(sifted)

(* The search visits the live slots in preorder from curIndex and returns  *)
(* the first one whose student is wanted.                                  *)
Search(h, wanted, curIndex) ==
  LET search[i \in Nat] ==
        CASE i >= h.size -> Nil
          [] i < h.size /\ i \in wanted -> i
          [] OTHER -> LET left == search[2 * i + 1]
                      IN  IF left # Nil THEN left ELSE search[2 * i + 2]
  IN  search[curIndex]

findHeap(h, stu, curIndex) ==
  Search(h, {i \in Slots : h.list[i].id = stu.id /\ h.list[i].name = stu.name}, curIndex)
findHeapById(h, id, curIndex) == Search(h, {i \in Slots : h.list[i].id = id}, curIndex)
findHeapByName(h, name, curIndex) == Search(h, {i \in Slots : h.list[i].name = name}, curIndex)

(* A mutant of modifyIdByIndex: the heap is not restored.                  *)
modifyIdInPlace(h, index, id) ==
  IF index >= h.size THEN h ELSE [h EXCEPT !.list[index].id = id]

modifyIdByIndex(h, index, id) ==
  IF index >= h.size THEN h ELSE initialHeap([h EXCEPT !.list[index].id = id])
modifyNameByIndex(h, index, name) ==
  IF index >= h.size THEN h ELSE [h EXCEPT !.list[index].name = name]
modifyIdAndNameByIndex(h, index, id, name) ==
  IF index >= h.size THEN h
  ELSE initialHeap([h EXCEPT !.list[index].id = id, !.list[index].name = name])

(* The forms that name a student do nothing when the search fails.         *)
Found(h, stu) == findHeap(h, stu, 0) # Nil
modifyId(h, stu, id) ==
  IF Found(h, stu) THEN modifyIdByIndex(h, findHeap(h, stu, 0), id) ELSE h
modifyName(h, stu, name) ==
  IF Found(h, stu) THEN modifyNameByIndex(h, findHeap(h, stu, 0), name) ELSE h
modifyIdAndName(h, stu, id, name) ==
  IF Found(h, stu) THEN modifyIdAndNameByIndex(h, findHeap(h, stu, 0), id, name) ELSE h
=============================================================================
