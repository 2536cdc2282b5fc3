---------------------------- MODULE MCFilterLock ----------------------------
(***************************************************************************)
(* The filter lock for TLC.  Threads are numbers that the scan compares, so*)
(* there is no symmetry to use.                                            *)
(***************************************************************************)
EXTENDS FilterLock
=============================================================================
