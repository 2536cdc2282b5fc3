---------------------------- MODULE MCSimulators ----------------------------
(***************************************************************************)
(* The simulators for TLC: one line of every kind that the chat server     *)
(* handles differently, and every command of its operator to one client,   *)
(* and one to a client there is not.                                       *)
(***************************************************************************)
EXTENDS Simulators

MCLines == {[kind |-> "name", name |-> n] : n \in {"a", "Anonymous"}}
           \cup {[kind |-> "to", name |-> "a"]}
           \cup {[kind |-> k, name |-> ""] : k \in {"end", "list", "say"}}
MCCommands == {[kind |-> k, sn |-> 1] : k \in {"end", "to", "say"}} \cup {[kind |-> "to", sn |-> 0]}
=============================================================================
