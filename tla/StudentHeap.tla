---------------------------- MODULE StudentHeap ----------------------------
(***************************************************************************)
(* The test programs of Labweek7: students are put into the list with      *)
(* insertListAtHead, initialHeap turns the list into a heap, and then the  *)
(* heap operations follow.  The mains run one such sequence; here every    *)
(* sequence is taken, up to MAXSIZE students.                              *)
(***************************************************************************)
EXTENDS MinHeap

VARIABLES heap, phase

hvars == <<heap, phase>>

Init == heap = initialStaticLinkList /\ phase = "list"

Room == heap.size < MAXSIZE

InsertAtHead(stu) ==
  /\ phase = "list" /\ Room
  /\ heap' = insertListAtHead(heap, stu)
  /\ UNCHANGED phase

InitialHeap ==
  /\ phase = "list"
  /\ heap' = initialHeap(heap)
  /\ phase' = "heap"

(* pushHeap and pushHeapByIdAndName differ only in how the student is      *)
(* passed.                                                                 *)
Push(stu) ==
  /\ phase = "heap" /\ Room
  /\ heap' = pushHeap(heap, stu)
  /\ UNCHANGED phase

Pop ==
  /\ phase = "heap"
  /\ heap' = popHeap(heap)
  /\ UNCHANGED phase

(* The six functions that change a student.                                *)
ModifyStudent(stu, id, name) ==
  /\ phase = "heap"
  /\ heap' \in {modifyId(heap, stu, id), modifyName(heap, stu, name),
                modifyIdAndName(heap, stu, id, name)}
  /\ UNCHANGED phase

ModifySlot(index, id, name) ==
  /\ phase = "heap"
  /\ heap' \in {modifyIdByIndex(heap, index, id), modifyNameByIndex(heap, index, name),
                modifyIdAndNameByIndex(heap, index, id, name)}
  /\ UNCHANGED phase

Next ==
  \/ \E stu \in Student : InsertAtHead(stu) \/ Push(stu)
  \/ InitialHeap
  \/ Pop
  \/ \E id \in Ids, name \in Names :
       \/ \E stu \in Student : ModifyStudent(stu, id, name)
       \/ \E index \in Slots : ModifySlot(index, id, name)

Spec == Init /\ [][Next]_hvars

-----------------------------------------------------------------------------
Live == 0 .. heap.size - 1

(* The slots in the order printStaticLinkList prints them, at most one     *)
(* more than there are; the walk after k rounds.                           *)
Walk(h) ==
  LET Further(w, i) == IF i = Nil THEN w ELSE Append(w, i)
      walk[k \in 0 .. MAXSIZE + 1] ==
        IF k = 0 THEN <<>>
        ELSE LET w == walk[k - 1]
             IN  Further(w, IF w = <<>> THEN h.headIndex ELSE h.list[w[Len(w)]].nextNode)
  IN  walk[MAXSIZE + 1]
Listed(h) ==
  LET w == Walk(h)
  IN  [k \in DOMAIN w |-> [id |-> h.list[w[k]].id, name |-> h.list[w[k]].name]]

(* The students in the structure are the first size slots, the list runs   *)
(* through exactly these slots, every backward link undoes a forward link, *)
(* and the stack hands out the free slots in ascending order: the heap     *)
(* operations, which move students between slots, rely on all of it.       *)
ListSound ==
  LET w == Walk(heap)
  IN  /\ Len(w) = heap.size
      /\ {w[k] : k \in DOMAIN w} = Live
      /\ \A k \in DOMAIN w :
           heap.list[w[k]].preNode = IF k = 1 THEN Nil ELSE w[k - 1]
      /\ heap.unusedIndexs = [i \in 1 .. MAXSIZE - heap.size |-> MAXSIZE - i]

(* The comment on topHeap: it returns the student with the smallest id.    *)
TopIsLeast ==
  phase = "heap" => \A i \in Live : heap.list[0].id <= heap.list[i].id

(* Moving students between slots never changes the order of the list: a    *)
(* step puts a student in front, takes the one with the smallest id out of *)
(* the list, or changes one in its place.                                  *)
ListOrderKept ==
  [][LET old == Listed(heap)  new == Listed(heap')
     IN  \/ new = old
         \/ \E stu \in Student : new = <<stu>> \o old
         \/ \E k \in DOMAIN old : /\ new = SubSeq(old, 1, k - 1) \o SubSeq(old, k + 1, Len(old))
                                  /\ \A j \in DOMAIN old : old[k].id <= old[j].id
         \/ \E k \in DOMAIN old, stu \in Student : new = [old EXCEPT ![k] = stu]
    ]_hvars

ParentsLeast == \A i \in Live \ {0} : heap.list[(i - 1) \div 2].id <= heap.list[i].id

(* A search finds a student if and only if one of the live slots holds it. *)
SearchComplete ==
  LET Finds(i, S) == IF S = {} THEN i = Nil ELSE i \in S
  IN  \A id \in Ids, name \in Names :
        LET same == {k \in Live : heap.list[k].id = id}
            named == {k \in Live : heap.list[k].name = name}
        IN  /\ Finds(findHeapById(heap, id, 0), same)
            /\ Finds(findHeapByName(heap, name, 0), named)
            /\ Finds(findHeap(heap, [id |-> id, name |-> name], 0), same \cap named)

(* After any sequence of pushes, pops and changed ids the structure is a   *)
(* heap, so topHeap returns the student with the smallest id; and the      *)
(* searches, which walk the same tree, find a student if and only if it is *)
(* there.                                                                  *)
HeapSound == phase = "heap" => ParentsLeast /\ SearchComplete
=============================================================================
