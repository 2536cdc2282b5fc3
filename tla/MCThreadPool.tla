---------------------------- MODULE MCThreadPool ----------------------------
(***************************************************************************)
(* The thread pool for TLC: workers are model values.                      *)
(***************************************************************************)
EXTENDS ThreadPool
=============================================================================
