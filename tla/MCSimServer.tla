---------------------------- MODULE MCSimServer ----------------------------
(***************************************************************************)
(* The server with two run threads, of which a stop may have given up one. *)
(* The threads are interchangeable.                                        *)
(***************************************************************************)
EXTENDS SimServer, TLC

CONSTANTS t1, t2, i1

Symmetry == Permutations(Threads)
=============================================================================
