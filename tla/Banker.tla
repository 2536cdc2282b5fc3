------------------------------- MODULE Banker -------------------------------
(***************************************************************************)
(* The banker's algorithm of Labweek15/alg.17-1-bankers-5.c.  Processes    *)
(* 0 .. N-1 request vectors over the resource types 0 .. M-1; a request is *)
(* granted when safecheck finds an order in which all processes can end.   *)
(*                                                                         *)
(* The request vector is read with scanf and its sign is never checked: a  *)
(* negative entry gives units back, also units that the process does not   *)
(* hold.  Its allocation is then negative, and available may exceed what   *)
(* there is.                                                               *)
(***************************************************************************)
EXTENDS Integers, FiniteSets, FiniteSetsExt, Functions

CONSTANTS N, M,
          resource,             \* units of each type
          max,                  \* claim of each process
          MaxReturn, MaxEntry,  \* bounds of a request: -MaxReturn .. MaxEntry
          MaxOwed               \* bound of how far an allocation goes below zero

Procs == 0 .. N - 1
Types == 0 .. M - 1

ASSUME Claims == /\ N \in Nat \ {0} /\ M \in Nat \ {0}
                 /\ resource \in [Types -> Nat]
                 /\ max \in [Procs -> [Types -> Nat]]
                 /\ \A p \in Procs, t \in Types : max[p][t] <= resource[t]
                 /\ MaxReturn \in Nat /\ MaxEntry \in Nat /\ MaxOwed \in Nat

VARIABLES available, need, allocation,
          running  \* main's input loop goes on

vars == <<available, need, allocation, running>>

\* allocation is a zero-initialised global
Init == /\ allocation = [p \in Procs |-> [t \in Types |-> 0]]
        /\ need = max
        /\ available = resource
        /\ running = TRUE

Leq(v, w) == \A t \in Types : v[t] <= w[t]
Plus(v, w) == [t \in Types |-> v[t] + w[t]]
Minus(v, w) == [t \in Types |-> v[t] - w[t]]

(***************************************************************************)
(* safecheck(pro_i): N times, select the first unfinished process whose    *)
(* need is covered by work, pretending that request is granted to pro_i,   *)
(* and add what it holds to work.                                          *)
(***************************************************************************)
\* Mutant: the pretended grant is not part of what pro_i gives back.
HeldForgotten(j, pro_i, request) == allocation[j]

Held(j, pro_i, request) ==
    IF j = pro_i THEN Plus(allocation[j], request) ELSE allocation[j]

Needs(j, pro_i, request) ==
    IF j = pro_i THEN Minus(need[j], request) ELSE need[j]

\* Mutant: one process able to end is enough.
safecheckFirst(pro_i, request) ==
    \E j \in Procs : Leq(Needs(j, pro_i, request), Minus(available, request))

\* One pass of the search over the processes not finished yet.
Select(s, pro_i, request) ==
    LET can == {j \in Procs \ s.finish : Leq(Needs(j, pro_i, request), s.work)}
    IN  IF can = {} THEN s
        ELSE [finish |-> s.finish \cup {Min(can)},
              work |-> Plus(s.work, Held(Min(can), pro_i, request))]

Search(pro_i, request) ==
    LET select[i \in 0 .. N] ==
          IF i = 0 THEN [finish |-> {}, work |-> Minus(available, request)]
          ELSE Select(select[i - 1], pro_i, request)
    IN  select

safecheck(pro_i, request) == Search(pro_i, request)[N].finish = Procs

(***************************************************************************)
(* resource_request(pro_i)                                                 *)
(***************************************************************************)
\* The two checks before safecheck.
Admissible(pro_i, request) == Leq(request, need[pro_i]) /\ Leq(request, available)

\* Mutant: need is not lowered by the grant.
GrantNeedKept(pro_i, request) ==
    /\ Admissible(pro_i, request) /\ safecheck(pro_i, request)
    /\ available' = Minus(available, request)
    /\ allocation' = [allocation EXCEPT ![pro_i] = Plus(@, request)]
    /\ UNCHANGED <<need, running>>

Grant(pro_i, request) ==
    /\ Admissible(pro_i, request) /\ safecheck(pro_i, request)
    /\ available' = Minus(available, request)
    /\ need' = [need EXCEPT ![pro_i] = Minus(@, request)]
    /\ allocation' = [allocation EXCEPT ![pro_i] = Plus(@, request)]
    /\ UNCHANGED running

\* "safecheck failed", "request > need", "request > available"
Refuse(pro_i, request) ==
    /\ ~ (Admissible(pro_i, request) /\ safecheck(pro_i, request))
    /\ UNCHANGED vars

\* Inputs of main's loop: any vector.  The bound keeps the tables finite.
Requests(p) == {r \in [Types -> -MaxReturn .. MaxEntry] :
                  \A t \in Types : allocation[p][t] + r[t] >= -MaxOwed}

resource_request(pro_i, request) == Grant(pro_i, request) \/ Refuse(pro_i, request)

\* input of -1
Quit == running /\ running' = FALSE /\ UNCHANGED <<available, need, allocation>>

Next == \/ running /\ \E p \in Procs : \E r \in Requests(p) : resource_request(p, r)
        \/ Quit

Spec == Init /\ [][Next]_vars

-----------------------------------------------------------------------------
(***************************************************************************)
(* Properties                                                              *)
(***************************************************************************)
\* The tables keep their ranges: what is free and what is needed is never
\* negative, while a process may hold less than nothing.
TypeOK == /\ available \in [Types -> Nat]
          /\ need \in [Procs -> [Types -> Nat]]
          /\ allocation \in [Procs -> [Types -> Int]]
          /\ running \in BOOLEAN

\* The sums of the first 0, 1, ... , N entries of a vector over the processes.
PartialSums(f) ==
    LET sum[i \in 0 .. N] == IF i = 0 THEN 0 ELSE sum[i - 1] + f[i - 1]
    IN  sum

\* The books balance whatever the signs of the requests: what is available and
\* what the processes hold (less than nothing, for one that gave back more than
\* it had) is the resource vector, need is always the rest of the claim, and
\* neither what is free nor what is needed goes below zero (resource_request).
Conserved ==
    /\ TypeOK
    /\ \A t \in Types :
         available[t] + PartialSums([p \in Procs |-> allocation[p][t]])[N] = resource[t]
    /\ \A p \in Procs : Plus(need[p], allocation[p]) = max[p]

\* The orders in which all processes can come one after the other.
Orders == Bijection(Procs, Procs)

\* The definition of a safe state: some order of all processes exists in which
\* each one's need is covered by what is free and what those before it hold.
IsSafe(free, nd, held) ==
    \E order \in Orders : \A i \in Procs : \A t \in Types :
      nd[order[i]][t] <= free[t] + PartialSums([h \in Procs |-> held[order[h]][t]])[i]

\* Every state that requests lead to is safe, also when some of them gave back
\* units that nobody held (safecheck, resource_request).
AlwaysSafe == IsSafe(available, need, allocation)

\* safecheck is exact as long as no process holds less than nothing: an
\* admissible request is refused only when granting it would lead to an unsafe
\* state, although the search never backtracks.  A process with a negative
\* holding takes units away when it ends, and the order then matters.
NeverTooStrict ==
    \A p \in Procs : \A r \in Requests(p) :
      /\ \A j \in Procs, t \in Types : Held(j, p, r)[t] >= 0
      /\ Admissible(p, r)
      /\ IsSafe(Minus(available, r), [need EXCEPT ![p] = Minus(@, r)],
                [allocation EXCEPT ![p] = Plus(@, r)])
      => safecheck(p, r)
=============================================================================
