------------------------------ MODULE MCBanker ------------------------------
(***************************************************************************)
(* The banker for TLC: three processes and two resource types, with claims *)
(* that compete for both types.                                            *)
(***************************************************************************)
EXTENDS Banker

MCResource == [t \in 0 .. 1 |-> IF t = 0 THEN 4 ELSE 3]
MCMax == [p \in 0 .. 2 |-> [t \in 0 .. 1 |->
            IF t = 0 THEN <<4, 2, 3>>[p + 1] ELSE <<2, 3, 2>>[p + 1]]]
=============================================================================
