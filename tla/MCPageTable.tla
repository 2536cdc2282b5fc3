---------------------------- MODULE MCPageTable ----------------------------
(***************************************************************************)
(* Seven pages of four bytes.  The firmware reports two usable ranges that   *)
(* do not touch, or one with partial pages at both ends.                   *)
(***************************************************************************)
EXTENDS PageTable

arm(a, s) == [addr |-> a, size |-> s, arm |-> TRUE]
Maps == { <<arm(0, 12), [addr |-> 12, size |-> 4, arm |-> FALSE], arm(16, 20)>>,
          <<[addr |-> 0, size |-> 3, arm |-> FALSE], arm(3, 19)>> }
LaSet == {0, 1, 2}
=============================================================================
