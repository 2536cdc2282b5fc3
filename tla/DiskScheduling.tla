--------------------------- MODULE DiskScheduling ---------------------------
(***************************************************************************)
(* The disk scheduling algorithms of Labweek18.  main reads the requested  *)
(* cylinders, the position of the head and its direction (0: towards       *)
(* cylinder 0), and runs the six algorithms on them in turn.  Each is an   *)
(* operator that yields the order in which requests are served and the     *)
(* total movement it reports.                                              *)
(***************************************************************************)
EXTENDS Integers, Sequences, FiniteSets, FiniteSetsExt, SequencesExt

CONSTANTS CYLINDER_NUM, CYLINDER_REQ_NUM

Cylinders == 0 .. CYLINDER_NUM - 1

VARIABLES cylinder_req, cylinder_head, head_dir, algorithm, served, head_move_sum

dvars == <<cylinder_req, cylinder_head, head_dir, algorithm, served, head_move_sum>>

abs_int(num) == IF num >= 0 THEN num ELSE -num

(* The requests at each cylinder, and the head where it starts.            *)
set_cylinders(req) == [c \in Cylinders |-> Cardinality({i \in DOMAIN req : req[i] = c})]
Start(req, head) ==
  [cylinders |-> set_cylinders(req), head |-> head, pre |-> head, sum |-> 0, served |-> <<>>]

(* Move to a cylinder and serve one of its requests.                       *)
ServeOne(d, c) ==
  [d EXCEPT !.cylinders[c] = @ - 1, !.sum = @ + abs_int(d.head - c), !.head = c,
            !.served = Append(@, c)]

FCFS(req, head) == FoldLeft(ServeOne, Start(req, head), req)

(* Searching outwards, the cylinder towards 0 first.                       *)
find_cylinder_min_seek_dis(cylinders, head) ==
  LET Wanted(c) == c \in Cylinders /\ cylinders[c] > 0
      k == Min({j \in 0 .. CYLINDER_NUM : Wanted(head - j) \/ Wanted(head + j)})
  IN  IF Wanted(head - k) THEN head - k ELSE head + k

ServeNearest(d, i) == ServeOne(d, find_cylinder_min_seek_dis(d.cylinders, d.head))

SSTF(req, head) == FoldLeft(ServeNearest, Start(req, head), [i \in 1 .. CYLINDER_REQ_NUM |-> i])

(* Everything requested under the head is served at once.                  *)
ServeHere(d) ==
  IF d.cylinders[d.head] = 0 THEN d
  ELSE [d EXCEPT !.served = @ \o [i \in 1 .. d.cylinders[d.head] |-> d.head],
                 !.sum = @ + abs_int(d.head - d.pre), !.pre = d.head, !.cylinders[d.head] = 0]

(* The scanning loop: it leaves the head one cylinder outside lo .. hi.    *)
Sweep(d, dir, lo, hi) ==
  LET Advance(e, i) == [ServeHere(e) EXCEPT !.head = IF dir = 0 THEN @ - 1 ELSE @ + 1]
      count == IF d.head \notin lo .. hi THEN 0 ELSE IF dir = 0 THEN d.head - lo + 1 ELSE hi - d.head + 1
  IN  FoldLeft(Advance, d, [i \in 1 .. count |-> i])

(* A mutant of AtEdge: the way to the edge is not counted.                 *)
AtEdgeForFree(d) ==
  LET edge == IF d.head = -1 THEN 0 ELSE CYLINDER_NUM - 1 IN [d EXCEPT !.head = edge, !.pre = edge]

(* Back on the edge cylinder, moving there from the request served last.   *)
AtEdge(d) ==
  LET edge == IF d.head = -1 THEN 0 ELSE CYLINDER_NUM - 1
  IN  [d EXCEPT !.head = edge, !.sum = @ + abs_int(edge - d.pre), !.pre = edge]

SweepDisk(d, dir) == Sweep(d, dir, 0, CYLINDER_NUM - 1)

SCAN(req, head, dir) == SweepDisk(AtEdge(SweepDisk(Start(req, head), dir)), 1 - dir)

(* The head jumps to the other edge, which costs a whole stroke.           *)
Jump(d) ==
  LET edge == IF d.head = 0 THEN CYLINDER_NUM - 1 ELSE 0
  IN  [d EXCEPT !.head = edge, !.pre = edge, !.sum = @ + CYLINDER_NUM - 1]

C_SCAN(req, head, dir) == SweepDisk(Jump(AtEdge(SweepDisk(Start(req, head), dir))), dir)

cylinder_req_min(req) == Min(ToSet(req))
cylinder_req_max(req) == Max(ToSet(req))

(* A head outside the requests is put on the nearest one.  From below the  *)
(* distance added is 0, since the head has already been moved; from above  *)
(* it is the distance between the outermost requests.                      *)
Approach(d, lo, hi) ==
  [d EXCEPT !.head = IF d.head < lo THEN lo ELSE IF d.head > hi THEN hi ELSE @,
            !.sum = IF d.head > hi THEN @ + hi - lo ELSE @]

LOOK(req, head, dir) ==
  LET lo == cylinder_req_min(req)  hi == cylinder_req_max(req)
      first == Sweep(Approach(Start(req, head), lo, hi), dir, lo, hi)
      turned == [first EXCEPT !.head = IF @ = lo - 1 THEN lo ELSE hi]
  IN  Sweep(turned, 1 - dir, lo, hi)

C_LOOK(req, head, dir) ==
  LET lo == cylinder_req_min(req)  hi == cylinder_req_max(req)
      first == Sweep(Approach(Start(req, head), lo, hi), dir, lo, hi)
      edge == IF first.head = lo - 1 THEN hi ELSE lo
      jumped == [first EXCEPT !.head = edge, !.pre = edge, !.sum = @ + hi - lo]
  IN  Sweep(jumped, dir, lo, hi)

Algorithms == <<"FCFS", "SSTF", "SCAN", "C_SCAN", "LOOK", "C_LOOK">>

Result(a, req, head, dir) ==
  CASE a = "FCFS" -> FCFS(req, head)
    [] a = "SSTF" -> SSTF(req, head)
    [] a = "SCAN" -> SCAN(req, head, dir)
    [] a = "C_SCAN" -> C_SCAN(req, head, dir)
    [] a = "LOOK" -> LOOK(req, head, dir)
    [] a = "C_LOOK" -> C_LOOK(req, head, dir)

(* main: the input, then one algorithm after the other.                    *)
Init ==
  /\ cylinder_req \in [1 .. CYLINDER_REQ_NUM -> Cylinders]
  /\ cylinder_head \in Cylinders
  /\ head_dir \in {0, 1}
  /\ algorithm = 0 /\ served = <<>> /\ head_move_sum = 0

RunNext ==
  /\ algorithm < Len(Algorithms)
  /\ algorithm' = algorithm + 1
  /\ LET r == Result(Algorithms[algorithm'], cylinder_req, cylinder_head, head_dir)
     IN  served' = r.served /\ head_move_sum' = r.sum
  /\ UNCHANGED <<cylinder_req, cylinder_head, head_dir>>

Next == RunNext

Spec == Init /\ [][Next]_dvars

-----------------------------------------------------------------------------
AllServedOnce == algorithm > 0 => set_cylinders(served) = set_cylinders(cylinder_req)

Requested == ToSet(cylinder_req)
End(dir) == IF dir = 0 THEN 0 ELSE CYLINDER_NUM - 1
Dist(a, b) == IF a < b THEN b - a ELSE a - b
FarthestFrom(c, set) == IF set = {} THEN 0 ELSE Max({Dist(c, x) : x \in set})
Ahead(dir) == {x \in Requested : IF dir = 0 THEN x <= cylinder_head ELSE x >= cylinder_head}
Behind(dir) == Requested \ Ahead(dir)

(* Where the head is when it turns to the k-th request it serves.          *)
Before(k) == IF k = 1 THEN cylinder_head ELSE served[k - 1]

(* The algorithm that has just run.                                        *)
Ran == IF algorithm = 0 THEN "" ELSE Algorithms[algorithm]

(* When a request comes up in a scan: those ahead of the head by their     *)
(* distance, then the others by theirs from the edge where the second      *)
(* sweep begins.                                                           *)
Turn(c) ==
  IF c \in Ahead(head_dir) THEN Dist(cylinder_head, c)
  ELSE CYLINDER_NUM + Dist(End(IF Ran \in {"SCAN", "LOOK"} THEN head_dir ELSE 1 - head_dir), c)

ServedInTurn ==
  /\ Ran = "SSTF" => \A k, j \in DOMAIN served :
       k <= j => Dist(Before(k), served[k]) <= Dist(Before(k), served[j])
  /\ Ran \in {"SCAN", "C_SCAN", "LOOK"} \/ (Ran = "C_LOOK" /\ Ahead(head_dir) # {}) =>
       \A k, j \in DOMAIN served : k <= j => Turn(served[k]) <= Turn(served[j])

SeekDistance ==
  LET lo == Min(Requested)  hi == Max(Requested)
      toEdge == Dist(cylinder_head, End(head_dir))
      behind == Behind(head_dir)
  IN  /\ Ran \in {"FCFS", "SSTF"} =>
           head_move_sum = FoldFunction(+, 0, [k \in DOMAIN served |-> Dist(Before(k), served[k])])
      /\ Ran = "SCAN" => head_move_sum = toEdge + FarthestFrom(End(head_dir), behind)
      /\ Ran = "C_SCAN" =>
           head_move_sum = toEdge + CYLINDER_NUM - 1 + FarthestFrom(End(1 - head_dir), behind)
      /\ Ran = "LOOK" /\ cylinder_head \in lo .. hi =>
           head_move_sum = FarthestFrom(cylinder_head, Ahead(head_dir)) + (IF behind = {} THEN 0 ELSE hi - lo)
      /\ Ran = "LOOK" /\ cylinder_head < lo => head_move_sum = hi - cylinder_head

(* Every algorithm serves every request exactly once, wherever the head    *)
(* starts: SSTF always one of the nearest, the scans first what lies ahead *)
(* and then the rest, from where they turn or jump to; and what FCFS,      *)
(* SSTF, SCAN and C_SCAN report is the way the head goes, as is what LOOK  *)
(* reports of a head that does not start above every request.  What LOOK   *)
(* reports from there, and C_LOOK, is not what the repository says it is:  *)
(* OneSweepDistance and JumpUncounted.                                     *)
DiskSound == AllServedOnce /\ ServedInTurn /\ SeekDistance

(* When the first sweep serves everything, LOOK and C_LOOK move the same   *)
(* distance (Labwork18.md:811), which is the one to the farthest request.  *)
OneSweepDistance ==
  Ran \in {"LOOK", "C_LOOK"} /\ Behind(head_dir) = {} =>
    head_move_sum = FarthestFrom(cylinder_head, Requested)

(* C_LOOK goes straight to the other side, and the jump is no movement: a  *)
(* head that starts at the last request ahead of it and jumps to the only  *)
(* other cylinder moves by 0 (Labwork18.md:830).                           *)
JumpUncounted ==
  Ran = "C_LOOK" /\ cylinder_head \in Requested /\ Behind(head_dir) # {} =>
    LET other == IF head_dir = 0 THEN Max(Requested) ELSE Min(Requested)
    IN  head_move_sum = FarthestFrom(cylinder_head, Ahead(head_dir)) + FarthestFrom(other, Behind(head_dir))
=============================================================================
